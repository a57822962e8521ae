-------------------------- MODULE CommandService --------------------------
(***************************************************************************)
(* What the Hub promises the Backend about device commands, whatever radio *)
(* and devices do: a request is answered by one result, by one error, or   *)
(* by the pages 0, 1, 2, ... of one single reply, which an error or a      *)
(* result may cut short; nothing is said about a request before it was     *)
(* made or after its answer ended.                                         *)
(*                                                                         *)
(* An answer is the request's own, or one that can be confused with it: a  *)
(* late reply to another request, which has ended by then.  An error is    *)
(* always the request's own.                                               *)
(*                                                                         *)
(* CommandDispatcher implements this; see ImplementsCommandService there.  *)
(***************************************************************************)
EXTENDS Integers, Sequences

CONSTANTS
    Requests,     \* the request_ids
    RepliesTo,    \* RepliesTo[r]: the replies to request r
    Confusable,   \* Confusable[r]: the requests whose late replies may pass for r's
    PagesOf,      \* PagesOf[p]: in how many pages reply p comes, 0 if plain
    Errors        \* the messages of the errors the Hub itself answers with

VARIABLES
    asked,        \* the requests made
    answers       \* answers[r]: what was sent to the Backend for request r

serviceVars == <<asked, answers>>

-----------------------------------------------------------------------------
Ends(m) == m.type # "result_chunk" \/ m.chunk + 1 >= PagesOf[m.rid]

HasEnded(r) == \E k \in 1 .. Len(answers[r]) : Ends(answers[r][k])

Open(r) == r \in asked /\ ~HasEnded(r)

Late(r) == {q \in Confusable[r] : q \in asked /\ HasEnded(q)}

Eligible(r) == RepliesTo[r] \cup UNION {RepliesTo[q] : q \in Late(r)}

Tell(r, type, rid, chunk) ==
    answers' = [answers EXCEPT ![r] = Append(@, [type |-> type, rid |-> rid, chunk |-> chunk])]

Ask(r) ==
    /\ r \notin asked
    /\ asked' = asked \cup {r}
    /\ UNCHANGED answers

\* A request that is turned down at once.
Refuse(r) ==
    /\ r \notin asked
    /\ asked' = asked \cup {r}
    /\ \E type \in Errors, p \in RepliesTo[r] : Tell(r, type, p, 0)

GiveUp(r) ==
    /\ Open(r)
    /\ \E type \in Errors, p \in RepliesTo[r] : Tell(r, type, p, 0)
    /\ UNCHANGED asked

Answer(r) ==
    /\ Open(r)
    /\ \E p \in Eligible(r) : Tell(r, "result", p, 0)
    /\ UNCHANGED asked

FirstPiece(r) ==
    /\ Open(r)
    /\ answers[r] = <<>>
    /\ \E p \in Eligible(r) : Tell(r, "result_chunk", p, 0)
    /\ UNCHANGED asked

\* The next page of the reply whose pages are being passed on.
NextPiece(r) ==
    /\ Open(r)
    /\ answers[r] # <<>>
    /\ Tell(r, "result_chunk", answers[r][1].rid, Len(answers[r]))
    /\ UNCHANGED asked

Init == asked = {} /\ answers = [r \in Requests |-> <<>>]

\* Stated first, so that TLC dismisses at once the steps that tell nothing.
ToldSomething(r) == answers'[r] # answers[r]

Next ==
    \E r \in Requests :
        \/ Ask(r)
        \/ /\ ToldSomething(r)
           /\ Refuse(r) \/ GiveUp(r) \/ Answer(r) \/ FirstPiece(r) \/ NextPiece(r)

Spec == Init /\ [][Next]_serviceVars
============================================================================
