------------------------------ MODULE MCWaits ------------------------------
(***************************************************************************)
(* What nobody may wait for in vain: the broadcast of a table's states and *)
(* the dialogs that sign in.  They have no variable in common, so one of   *)
(* them moves while the other stays as it begins.                          *)
(*                                                                         *)
(* Two of each for the streams, and channels for one state.                *)
(***************************************************************************)
EXTENDS TableStream, Dialogs, TLC

CONSTANTS c1, c2, b1, b2, g1, g2, t1, t2

TwoCreators == {c1, c2}
TwoWatchers == {b1, b2}
TwoWriters  == {g1, g2}
TwoTables   == {t1, t2}

VARIABLE part  \* the one that moves

WaitsInit ==
  /\ part \in {"stream", "dialogs"}
  /\ Init
  /\ DialogsInit /\ (part # "dialogs" => ~ exchanging)

WaitsNext ==
  /\ UNCHANGED part
  /\ \/ part = "stream"  /\ Next        /\ UNCHANGED dialogVars
     \/ part = "dialogs" /\ DialogsNext /\ UNCHANGED vars

WaitsSpec ==
  /\ WaitsInit /\ [][WaitsNext]_<<part, vars, dialogVars>>
  /\ \A p \in Writers : WF_vars(Write(p))
  /\ DialogsFairness
=============================================================================
