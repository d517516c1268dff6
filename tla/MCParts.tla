------------------------------ MODULE MCParts ------------------------------
(***************************************************************************)
(* The parts of btop that this project models by themselves, side by side: *)
(* one of them is chosen and moves, the others stay as they started.       *)
(***************************************************************************)
EXTENDS EventQueue, Screen, NetStats, History, Settings, ProcList, ProcView, TextEdit, TLC

VARIABLE part

Parts == {"queue", "screen", "net", "history", "settings", "processes", "view", "text"}
partsVars == <<part, vars, screenVars, netVars, historyVars, settingsVars, procListVars,
               procViewVars, textEditVars>>

\* What has more than one start has them where it moves.
PartsInit ==
  /\ part \in Parts
  /\ Init /\ ScreenInit /\ NetInit /\ HistoryInit /\ SettingsInit /\ ProcListInit
  /\ ProcViewInit /\ TextEditInit
  /\ part # "screen" => display[0].pen = Plain /\ shape.h = 2
  /\ part # "history" => want = 1
  /\ part # "settings" => roomFor = 1
  /\ part # "view" => followDetailed
  /\ part # "text" => text = <<>> /\ ~ numeric

PartsNext ==
  \/ /\ part = "queue" /\ Next
     /\ UNCHANGED <<part, screenVars, netVars, historyVars, settingsVars,
                    procListVars, procViewVars, textEditVars>>
  \/ /\ part = "screen" /\ ScreenNext
     /\ UNCHANGED <<part, vars, netVars, historyVars, settingsVars,
                    procListVars, procViewVars, textEditVars>>
  \/ /\ part = "net" /\ NetNext
     /\ UNCHANGED <<part, vars, screenVars, historyVars, settingsVars,
                    procListVars, procViewVars, textEditVars>>
  \/ /\ part = "history" /\ HistoryNext
     /\ UNCHANGED <<part, vars, screenVars, netVars, settingsVars,
                    procListVars, procViewVars, textEditVars>>
  \/ /\ part = "settings" /\ SettingsNext
     /\ UNCHANGED <<part, vars, screenVars, netVars, historyVars,
                    procListVars, procViewVars, textEditVars>>
  \/ /\ part = "processes" /\ ProcListNext
     /\ UNCHANGED <<part, vars, screenVars, netVars, historyVars,
                    settingsVars, procViewVars, textEditVars>>
  \/ /\ part = "view" /\ ProcViewNext
     /\ UNCHANGED <<part, vars, screenVars, netVars, historyVars,
                    settingsVars, procListVars, textEditVars>>
  \/ /\ part = "text" /\ TextEditNext
     /\ UNCHANGED <<part, vars, screenVars, netVars, historyVars,
                    settingsVars, procListVars, procViewVars>>

PartsSpec == PartsInit /\ [][PartsNext]_partsVars

\* Every part keeps to its types.
PartsTypeOK ==
  /\ TypeOK /\ ScreenTypeOK /\ NetTypeOK /\ HistoryTypeOK /\ SettingsTypeOK
  /\ ProcListTypeOK /\ ProcViewTypeOK /\ TextEditTypeOK

---------------------------------------------------------------------------
(* Constants.                                                              *)

CONSTANTS handler, e1, e2

\* The contract of the queue: one context pushes.
MCProducers == {handler}
MCItems == {e1, e2}

MCPen(fg, bg, attrs) == [fg |-> fg, bg |-> bg, attrs |-> attrs]
MCShapes == {[w |-> 2, h |-> 2], [w |-> 1, h |-> 1]}
MCPlain == MCPen("none", "none", {})
MCRed == MCPen("red", "dark", {"bold"})
MCPens == {MCPlain, MCRed}
MCDrawn == {[ch |-> "blank", pen |-> MCPlain], [ch |-> "a", pen |-> MCRed]}

MCOrder == <<"lo", "eth">>
MCBusy == {<<"eth", "download">>, <<"eth", "upload">>}

MCFlag(b, f) == [box |-> b, flag |-> f]
MCFull == <<MCFlag("cpu", FALSE), MCFlag("proc", FALSE)>>
MCLists == {<<>>, <<<<MCFlag("cpu", TRUE), MCFlag("gpu0", FALSE)>>>>}
MCDefault == <<"cpu", "proc">>
MCBoxLists == {<<"cpu", "gpu0">>}

MCSystems == {1 :> 0 @@ 2 :> 1 @@ 3 :> 2, 1 :> 0 @@ 3 :> 1}
MCListings == {<<>>, <<1, 2, 3, 4>>, <<4, 5, 3, 2, 1>>}

MCWidth == [c \in Characters |-> IF c = "wide" THEN 2 ELSE IF c = "wider" THEN 3 ELSE 1]
=============================================================================
