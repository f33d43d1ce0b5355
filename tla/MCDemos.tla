--------------------------------- MODULE MCDemos ---------------------------------
(***************************************************************************)
(* The parts that stand beside the server, one at a time: every text that  *)
(* the template, the configuration and the headers can be read from, the   *)
(* threads of the logger, and the timer list.                              *)
(***************************************************************************)
EXTENDS SQLTemplate, Configuration, Http, AsyncLogger, SortTimerList

MCAlphabets == {{":", "a", "b"}, {" ", "NL", "a", "b"}, {":", " ", "CR", "NL", "a"}}

\* Keys of which one begins another one, and values that hold a placeholder, a
\* dollar or nothing.
MCKeys == {<<"a">>, <<"b">>, <<"a", "b">>}
MCValues == {<<>>, <<"b", "a">>, <<":", "a">>, <<"$", "1">>}
MCParamMaps == UNION {[keys -> MCValues] : keys \in SUBSET MCKeys}

\* Where each part begins: only one of them leaves that.
NoText == text = <<>> /\ alphabet = CHOOSE a \in Alphabets : TRUE
NoLogger == logged = [t \in Threads |-> 0] /\ once = "unset" /\ \A t \in Threads : At(t, "idle")
NoTimer == alive = {} /\ head = Null /\ tail = Null /\ clock = 0 /\ alarm = "off"

DemosInit == TextInit /\ LoggerInit /\ Init

DemosNext ==
    \/ /\ NoLogger /\ NoTimer
       /\ TextNext
       /\ UNCHANGED <<loggerVars, vars>>
    \/ /\ NoText /\ NoTimer
       /\ LoggerNext
       /\ UNCHANGED <<textVars, vars>>
    \/ /\ NoText /\ NoLogger
       /\ Next
       /\ UNCHANGED <<textVars, loggerVars>>

DemosSpec == DemosInit /\ [][DemosNext]_<<textVars, loggerVars, vars>>
===============================================================================
