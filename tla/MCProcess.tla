------------------------------ MODULE MCProcess ------------------------------
(* Small instances of Container and Ralph, which share nothing and are seen  *)
(* in one run: "part" says which of them takes the steps.                    *)
EXTENDS Container, Ralph, TLC

VARIABLE part

Init == part \in {"boot", "ralph"} /\ BootInit /\ RalphInit

Next ==
  /\ \/ part = "boot" /\ BootNext /\ UNCHANGED ralphVars
     \/ part = "ralph" /\ RalphNext /\ UNCHANGED bootVars
  /\ UNCHANGED part

Spec == Init /\ [][Next]_<<bootVars, ralphVars, part>> /\ RalphFairness

-----------------------------------------------------------------------------
Row(id, name) == [id |-> id, name |-> name, group |-> FALSE, disabled |-> FALSE, kids |-> <<>>]

MCRowOf ==
  [llm    |-> Row("llm", "llm"),
   agent  |-> Row("agent", "agent"),
   second |-> Row("agent", "agent"),
   tools  |-> [Row("tools", "group") EXCEPT !.group = TRUE, !.kids = <<"bash", "inner">>],
   bash   |-> Row("bash", "tool"),
   inner  |-> [Row("inner", "group") EXCEPT !.group = TRUE],
   fs     |-> Row(None, "tool"),
   ghost  |-> Row("ghost", "unknown"),
   plan   |-> Row("plan", "tool"),
   skill  |-> Row("skill", "tool")]

Inserts(id, rows) == [id |-> id, name |-> None, insert |-> rows, set |-> <<>>]
Sets(id, name, fields) == [id |-> id, name |-> name, insert |-> <<>>, set |-> fields]

MCPatches ==
  {Inserts(None, <<"agent", "tools">>),
   Inserts(None, <<"llm">>),
   Inserts("tools", <<"second", "ghost">>),
   Inserts("inner", <<"fs">>),
   Inserts("bash", <<"skill">>),
   Sets("tools", None, [disabled |-> TRUE]),
   Sets("tools", None, [kids |-> <<"plan", Malformed, "skill">>]),
   Sets("tools", None, [group |-> FALSE]),
   Sets("tools", None, [group |-> Malformed, disabled |-> FALSE]),
   Sets("ghost", "tool", [disabled |-> TRUE]),
   Sets("ghost", "unknown", [name |-> "tool"]),
   Sets("bash", None, [name |-> "llm"])}

MCModules ==
  [llm   |-> [provides |-> {"llm"}, inject |-> {"profile"}],
   agent |-> [provides |-> {"agent"}, inject |-> {"llm"}],
   tool  |-> [provides |-> {}, inject |-> {"agent"}]]

Going == [shaped |-> TRUE, fits |-> TRUE, status |-> "continue", summary |-> "ok",
          evidence |-> "none", nextSteps |-> "ok", blocker |-> "none"]
MCReports ==
  {Going, [Going EXCEPT !.evidence = "ok"], [Going EXCEPT !.fits = FALSE],
   [Going EXCEPT !.blocker = "ok"],
   [Going EXCEPT !.status = "complete"],
   [Going EXCEPT !.status = "complete", !.evidence = "ok", !.nextSteps = "none"],
   [Going EXCEPT !.status = "blocked", !.blocker = "ok"]}
=============================================================================
