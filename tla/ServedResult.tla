---------------------------- MODULE ServedResult ----------------------------
(***************************************************************************)
(* What the run lifecycle promises the readers of a scenario: they are     *)
(* served nothing, or the complete result of one attempt of that scenario. *)
(* A result is served only in the step that ends its attempt well; an      *)
(* attempt that fails, is cancelled or dies with the API never touches     *)
(* what is served; what is served is withdrawn only together with the      *)
(* scenario's results.                                                     *)
(*                                                                         *)
(* RunLifecycle implements this specification.                             *)
(***************************************************************************)
CONSTANTS Scenarios, Attempts, Nothing

VARIABLES
  served,   \* the attempt whose result the readers of a scenario get
  state     \* of each attempt: <<"new">>, or its scenario and where it stands

New        == <<"new">>
Live(s)    == <<"live", s>>
Good(s)    == <<"good", s>>   \* ended, with a complete result
Over(s)    == <<"over", s>>   \* ended, without one

States == {New} \cup ({"live", "good", "over"} \X Scenarios)

Init ==
  /\ served = [s \in Scenarios |-> Nothing]
  /\ state = [a \in Attempts |-> New]

\* a stays as it is, or goes from one standing to another.
Keeps(a)          == state'[a] = state[a]
Turns(a, from, to) == state[a] = from /\ state'[a] = to

OnlyTurns(a, from, to) ==
  /\ Turns(a, from, to)
  /\ \A b \in Attempts \ {a} : Keeps(b)

Begin(s, a) == served' = served /\ OnlyTurns(a, New, Live(s))

\* The attempt ends with a complete result, which readers now get.
Publish(s, a) ==
  served' = [served EXCEPT ![s] = a] /\ OnlyTurns(a, Live(s), Good(s))

\* It ends without being published, which is not to say that its result is
\* incomplete: the publication itself may have failed.
Abandon(s, a) ==
  /\ served' = served
  /\ OnlyTurns(a, Live(s), Over(s)) \/ OnlyTurns(a, Live(s), Good(s))

\* Results of a scenario are deleted: its readers are served nothing from the
\* first deletion on.
Withdraw(s) ==
  /\ served' = [served EXCEPT ![s] = Nothing]
  /\ \A a \in Attempts : Keeps(a) \/ Turns(a, Good(s), Over(s))

\* The service dies, and every live attempt with it.
Dies(a) ==
  \/ state[a][1] # "live" /\ Keeps(a)
  \/ \E s \in Scenarios : Turns(a, Live(s), Over(s))

Crash == served' = served /\ \A a \in Attempts : Dies(a)

\* An attempt was ending well: its result is complete and may be served.
CrashInPublish(s, a) ==
  /\ served' \in {served, [served EXCEPT ![s] = a]}
  /\ Turns(a, Live(s), Good(s))
  /\ \A b \in Attempts \ {a} : Dies(b)

CrashInWithdraw(s) ==
  /\ served' = [served EXCEPT ![s] = Nothing]
  /\ \A a \in Attempts : Dies(a) \/ Turns(a, Good(s), Over(s))

Next ==
  /\ state' \in [Attempts -> States]
  /\ \/ \E s \in Scenarios, a \in Attempts :
          \/ Begin(s, a)
          \/ Publish(s, a)
          \/ Abandon(s, a)
          \/ CrashInPublish(s, a)
     \/ \E s \in Scenarios : Withdraw(s) \/ CrashInWithdraw(s)
     \/ Crash

Spec == Init /\ [][Next]_<<served, state>>
=============================================================================
