------------------------- MODULE WorkflowRunProofs -------------------------
(***************************************************************************)
(* Proofs about WorkflowRun, for any diagram: its types, the quiet end of  *)
(* a run, what is kept of messages and decisions, that the run keeps the   *)
(* promise of WorkScope, and how process() comes to its end.               *)
(***************************************************************************)
EXTENDS WorkflowRun, TLAPS

-----------------------------------------------------------------------------
(* The inductive invariant *)

\* A book agrees with itself and with the task runs: the row of an activity is
\* there once its token is, a token that is gone was consumed or withdrawn, and
\* the activity of a task run that is still open is open.
BookOK(b) ==
  /\ b.engine = "succeeded" => \A a \in Acts : b.token[a] # "live"
  /\ \A a \in Acts :
       /\ b.act[a] = "none" <=> b.token[a] = "none"
       /\ b.act[a] = "none" => a \notin b.delivered \cup b.withdrawn \cup b.linked
       /\ b.token[a] = "gone" => a \in b.withdrawn \cup b.delivered
       /\ b.engine = "failed" /\ b.act[a] # "none" => a \in b.withdrawn \cup b.delivered
       /\ a \in b.delivered => b.act[a] \in Settled
       /\ a \in b.linked => /\ KindOf[a] = "action"
                            /\ child[a] # "absent"
                            /\ child[a] \in TaskOpen => b.act[a] \in ActOpen

Advancing == pc \in {"look", "start", "link", "ask", "save"}

\* What the worker that holds the lock has in memory is what the tables hold,
\* but for what it is about to write.
CopyInv ==
  pc # "idle" =>
    /\ status \in Open
    /\ copy.engine = book.engine /\ copy.token = book.token
    /\ copy.delivered = book.delivered
    /\ \A a \in Acts : a # at \/ pc # "save" => copy.act[a] = book.act[a]
    /\ \A a \in Acts : a # at \/ pc # "link" => (a \in copy.linked <=> a \in book.linked)
    /\ pc \in {"link", "ask"} => at \in copy.linked
    /\ phase # "stop" => copy.withdrawn = book.withdrawn /\ copy.inbox = book.inbox
    /\ phase = "stop" => copy.withdrawn = Rows(copy) /\ copy.inbox = Discarded(book).inbox

\* What the loop has not come to, and what it has done.
LoopInv ==
  /\ pc = "idle" <=> phase = "none"
  /\ pc \in {"look", "start", "link"} => phase = "run"
  /\ pc \in {"tokens", "complete", "finish"} => phase = "sweep"
  /\ phase = "sweep" /\ pc # "tokens" => copy.engine # "none"
  /\ \A a \in todo : copy.act[a] \in ActOpen /\ a \notin copy.delivered
  /\ Advancing => /\ at \in Acts /\ at \notin todo
                  /\ book.act[at] \in ActOpen /\ at \notin book.delivered
  /\ phase \in {"stop", "sweep"} /\ pc # "tokens" =>
       \A a \in copy.withdrawn :
         copy.act[a] = "pending" => a \in todo \/ (pc = "ask" /\ a = at)
  /\ pc = "start" => KindOf[at] = "action"
  /\ pc = "finish" => outcome \in Settled

\* No task run that an activity names is open.
Quiet == \A a \in book.linked : child[a] \notin TaskOpen

EndInv ==
  /\ pc \in {"complete", "finish"} \/ status \in Terminal => Quiet
  /\ \A a \in permit : a \in book.linked /\ child[a] = "pending"
  /\ \A a \in Acts : child[a] = "running" => a \in book.linked
  /\ "cancel" \in seen => cancelRequested

Inv == BookOK(book) /\ BookOK(copy) /\ CopyInv /\ LoopInv /\ EndInv
IInv == TypeOK /\ Inv

ActStatus == {"none", "pending", "waiting", "succeeded", "failed", "cancelled"}

-----------------------------------------------------------------------------
(* What the helpers do to a book *)

LEMMA SetActFields ==
  ASSUME copy \in Books, NEW a \in Acts, NEW s \in ActStatus, SetAct(a, s)
  PROVE  /\ copy' \in Books
         /\ copy'.act = [copy.act EXCEPT ![a] = s]
         /\ copy'.engine = copy.engine /\ copy'.token = copy.token
         /\ copy'.inbox = copy.inbox /\ copy'.delivered = copy.delivered
         /\ copy'.withdrawn = copy.withdrawn /\ copy'.linked = copy.linked
BY DEF SetAct, Books, ActStatus, ActOpen, Terminal, Settled

LEMMA SaveActFields ==
  ASSUME book \in Books, copy \in Books, at \in Acts, SaveAct
  PROVE  /\ book' \in Books
         /\ book'.act = [book.act EXCEPT ![at] = copy.act[at]]
         /\ book'.engine = book.engine /\ book'.token = book.token
         /\ book'.inbox = book.inbox
         /\ \A a \in Acts :
              /\ a \in book'.delivered <=> a \in (IF a = at THEN copy ELSE book).delivered
              /\ a \in book'.withdrawn <=> a \in (IF a = at THEN copy ELSE book).withdrawn
              /\ a \in book'.linked <=> a \in (IF a = at THEN copy ELSE book).linked
<1> DEFINE in(S, T) == IF at \in T THEN S \cup {at} ELSE S \ {at}
<1>1. book' = [book EXCEPT !.act = [@ EXCEPT ![at] = copy.act[at]],
                           !.delivered = in(@, copy.delivered),
                           !.withdrawn = in(@, copy.withdrawn),
                           !.linked = in(@, copy.linked)]
  BY DEF SaveAct
<1>2. ASSUME NEW S \in SUBSET Acts, NEW T \in SUBSET Acts
      PROVE  in(S, T) \in SUBSET Acts
             /\ \A a \in Acts : a \in in(S, T) <=> IF a = at THEN a \in T ELSE a \in S
  OBVIOUS
<1> HIDE DEF in
<1>3. /\ book'.act = [book.act EXCEPT ![at] = copy.act[at]]
      /\ book'.engine = book.engine /\ book'.token = book.token
      /\ book'.inbox = book.inbox
      /\ book'.delivered = in(book.delivered, copy.delivered)
      /\ book'.withdrawn = in(book.withdrawn, copy.withdrawn)
      /\ book'.linked = in(book.linked, copy.linked)
  BY <1>1 DEF Books
<1>4. /\ book.delivered \in SUBSET Acts /\ copy.delivered \in SUBSET Acts
      /\ book.withdrawn \in SUBSET Acts /\ copy.withdrawn \in SUBSET Acts
      /\ book.linked \in SUBSET Acts /\ copy.linked \in SUBSET Acts
  BY DEF Books
<1>5. book' \in Books
  <2>1. [book.act EXCEPT ![at] = copy.act[at]] \in [Acts -> {"none"} \cup ActOpen \cup Terminal]
    BY DEF Books
  <2>2. /\ in(book.delivered, copy.delivered) \in SUBSET Acts
        /\ in(book.withdrawn, copy.withdrawn) \in SUBSET Acts
        /\ in(book.linked, copy.linked) \in SUBSET Acts
    BY <1>2, <1>4
  <2> QED BY <1>1, <2>1, <2>2 DEF Books
<1> QED BY <1>2, <1>3, <1>4, <1>5

LEMMA DiscardedFields ==
  ASSUME NEW b \in Books
  PROVE  /\ Discarded(b) \in Books
         /\ Discarded(b).engine = b.engine /\ Discarded(b).token = b.token
         /\ Discarded(b).act = b.act /\ Discarded(b).delivered = b.delivered
         /\ Discarded(b).linked = b.linked /\ Discarded(b).withdrawn = Rows(b)
         /\ Discarded(b).inbox = [x \in Waits |-> IF b.inbox[x] = "pending" THEN "discarded"
                                                  ELSE b.inbox[x]]
BY DEF Discarded, Books, Rows

LEMMA FreshFields ==
  /\ Fresh \in Books
  /\ \A a \in Acts : Fresh.act[a] = "none" /\ Fresh.token[a] = "none"
  /\ Fresh.engine = "none"
  /\ Fresh.delivered = {} /\ Fresh.withdrawn = {} /\ Fresh.linked = {}
BY DEF Fresh, Books, Nodes

\* The fields of the book m that Moved makes of the book b.
IsMoved(b, cut, new, e, m) ==
  /\ m \in Books
  /\ m.engine = e /\ m.linked = b.linked
  /\ m.delivered = b.delivered \cup Results(b)
  /\ \A n \in Nodes :
       m.token[n] = IF n \in new THEN "live"
                    ELSE IF n \in cut \cup Results(b) \cup Pending(b) THEN "gone"
                    ELSE b.token[n]
  /\ \A a \in Acts : m.act[a] = IF a \in new THEN "pending" ELSE b.act[a]
  /\ \A a \in Acts :
       a \in m.withdrawn <=> /\ m.act[a] # "none"
                             /\ \/ a \in b.withdrawn \cup cut
                                \/ e = "failed" /\ a \notin m.delivered
  /\ \A x \in Waits : m.inbox[x] = IF x \notin Pending(b) THEN b.inbox[x]
                                   ELSE IF x \in Live(b) \ cut THEN "delivered"
                                                              ELSE "discarded"

LEMMA MovedFields ==
  ASSUME NEW b \in Books, NEW cut \in SUBSET Nodes, NEW new \in SUBSET Nodes,
         NEW e \in {"waiting", "succeeded", "failed"}
  PROVE  IsMoved(b, cut, new, e, Moved(b, cut, new, e))
<1> DEFINE m == Moved(b, cut, new, e)
           token == [n \in Nodes |->
                       IF n \in new THEN "live"
                       ELSE IF n \in cut \cup Results(b) \cup Pending(b) THEN "gone"
                       ELSE b.token[n]]
           inbox == [x \in Waits |-> IF x \notin Pending(b) THEN b.inbox[x]
                                     ELSE IF x \in Live(b) \ cut THEN "delivered"
                                                                ELSE "discarded"]
           act == [a \in Acts |-> IF a \in new THEN "pending" ELSE b.act[a]]
           delivered == b.delivered \cup Results(b)
           withdrawn == Withdraw([b EXCEPT !.delivered = delivered], cut, e = "failed")
                          \cap {a \in Acts : act[a] # "none"}
<1>1. m = [engine |-> e, token |-> token, inbox |-> inbox, act |-> act,
           delivered |-> delivered, withdrawn |-> withdrawn, linked |-> b.linked]
  BY DEF Moved
<1>2. token \in [Nodes -> {"none", "live", "gone"}]
  BY DEF Books
<1>3. inbox \in [Waits -> {"none", "pending", "delivered", "discarded"}]
  BY DEF Books
<1>4. act \in [Acts -> {"none"} \cup ActOpen \cup Terminal]
  BY DEF Books, ActOpen
<1>5. delivered \in SUBSET Acts /\ b.linked \in SUBSET Acts
  BY DEF Books, Results
<1>6. \A a \in Acts : a \in withdrawn <=> /\ act[a] # "none"
                                          /\ \/ a \in b.withdrawn \cup cut
                                             \/ e = "failed" /\ a \notin delivered
  BY DEF Withdraw, Books
<1>7. withdrawn \in SUBSET Acts
  OBVIOUS
<1>8. e \in {"none", "waiting"} \cup Settled
  BY DEF Settled
<1>9. \A n \in Nodes : token[n] = IF n \in new THEN "live"
                                  ELSE IF n \in cut \cup Results(b) \cup Pending(b) THEN "gone"
                                  ELSE b.token[n]
  OBVIOUS
<1> HIDE DEF m, token, inbox, act, delivered, withdrawn
<1>10. m \in Books
  BY <1>1, <1>2, <1>3, <1>4, <1>5, <1>7, <1>8 DEF Books
<1>11. \A a \in Acts : act[a] = IF a \in new THEN "pending" ELSE b.act[a]
  BY DEF act
<1>12. \A x \in Waits : inbox[x] = IF x \notin Pending(b) THEN b.inbox[x]
                                   ELSE IF x \in Live(b) \ cut THEN "delivered"
                                                              ELSE "discarded"
  BY DEF inbox
<1>13. m.delivered = b.delivered \cup Results(b)
  BY <1>1 DEF delivered
<1>14. IsMoved(b, cut, new, e, m)
  BY <1>1, <1>6, <1>9, <1>10, <1>11, <1>12, <1>13 DEF IsMoved
<1> QED BY <1>14 DEF m

-----------------------------------------------------------------------------
(* The initial states and the requests *)

LEMMA StartedFields ==
  ASSUME NEW x \in Waits
  PROVE  /\ Started(x) \in Books
         /\ \A a \in Acts : Started(x).act[a] = "none" /\ Started(x).token[a] = "none"
         /\ Started(x).engine = "waiting"
         /\ Started(x).delivered = {} /\ Started(x).withdrawn = {}
         /\ Started(x).linked = {}
BY ConstantsAssumption DEF Started, Fresh, Books, Nodes

LEMMA InitIInv == Init => IInv
<1> SUFFICES ASSUME Init PROVE IInv
  OBVIOUS
<1>1. /\ book \in Books /\ copy \in Books
      /\ \A a \in Acts : /\ book.act[a] = "none" /\ book.token[a] = "none"
                          /\ copy.act[a] = "none" /\ copy.token[a] = "none"
      /\ book.engine \in {"none", "waiting"} /\ copy.engine = "none"
      /\ book.delivered = {} /\ book.withdrawn = {} /\ book.linked = {}
      /\ copy.delivered = {} /\ copy.withdrawn = {} /\ copy.linked = {}
  BY StartedFields, FreshFields DEF Init
<1>2. TypeOK
  BY <1>1 DEF Init, TypeOK, Open, Terminal, TaskOpen, Settled
<1>3. BookOK(book) /\ BookOK(copy)
  BY <1>1 DEF BookOK
<1>4. CopyInv /\ LoopInv
  BY DEF Init, CopyInv, LoopInv, Advancing
<1>5. EndInv
  BY DEF Init, EndInv, Open, Terminal
<1> QED BY <1>2, <1>3, <1>4, <1>5 DEF IInv, Inv

LEMMA CancelStep == IInv /\ (Cancel \/ Expire) => IInv'
<1> SUFFICES ASSUME IInv, Cancel \/ Expire PROVE IInv'
  OBVIOUS
<1> USE DEF IInv, Inv, tasks, locals
<1>1. TypeOK'
  <2>1. CASE Cancel
    BY <2>1 DEF TypeOK, Cancel
  <2>2. CASE Expire
    BY <2>2 DEF TypeOK, Expire
  <2> QED BY <2>1, <2>2
<1> USE DEF Cancel, Expire
<1>2. BookOK(book)' /\ BookOK(copy)'
  BY DEF BookOK
<1>3. CopyInv' /\ LoopInv'
  BY DEF CopyInv, LoopInv, Advancing, Rows, Discarded
<1>4. EndInv'
  BY DEF EndInv, Quiet
<1> QED BY <1>1, <1>2, <1>3, <1>4

LEMMA AcceptStep == \A x \in Waits : IInv /\ Accept(x) => IInv'
<1> SUFFICES ASSUME NEW x \in Waits, IInv, Accept(x) PROVE IInv'
  OBVIOUS
<1> USE DEF IInv, Inv, row, tasks, locals
<1>1. book' = [book EXCEPT !.inbox = [@ EXCEPT ![x] = "pending"]] /\ pc = "idle"
  BY DEF Accept, RunFree
<1>2. /\ book' \in Books
      /\ book'.engine = book.engine /\ book'.token = book.token
      /\ book'.act = book.act /\ book'.delivered = book.delivered
      /\ book'.withdrawn = book.withdrawn /\ book'.linked = book.linked
  BY <1>1 DEF TypeOK, Books
<1>3. TypeOK'
  BY <1>2 DEF TypeOK, Accept
<1>4. BookOK(book)' /\ BookOK(copy)'
  BY <1>2 DEF BookOK, Accept
<1>5. CopyInv' /\ LoopInv'
  BY <1>1 DEF CopyInv, LoopInv, Advancing, Accept
<1>6. EndInv'
  BY <1>1, <1>2 DEF EndInv, Quiet, Accept
<1> QED BY <1>3, <1>4, <1>5, <1>6

LEMMA SubmitStep == \A a \in Acts : IInv /\ Submit(a) => IInv'
<1> SUFFICES ASSUME NEW a \in Acts, IInv, Submit(a) PROVE IInv'
  OBVIOUS
<1> USE DEF IInv, Inv, row, tasks, locals
<1>1. book' = [book EXCEPT !.act = [@ EXCEPT ![a] = "succeeded"]] /\ pc = "idle"
  BY DEF Submit, RunFree
<1>2. /\ book' \in Books
      /\ book'.engine = book.engine /\ book'.token = book.token
      /\ book'.act = [book.act EXCEPT ![a] = "succeeded"]
      /\ book'.delivered = book.delivered
      /\ book'.withdrawn = book.withdrawn /\ book'.linked = book.linked
  BY <1>1 DEF TypeOK, Books, Terminal
<1>3. TypeOK'
  BY <1>2 DEF TypeOK, Submit
<1>4. KindOf[a] = "human" /\ book.act[a] = "waiting" /\ UNCHANGED child
  BY DEF Submit
<1>5. BookOK(book)'
  BY <1>2, <1>4 DEF BookOK, TypeOK, Books, Settled
<1>6. BookOK(copy)'
  BY DEF BookOK, Submit
<1>7. CopyInv' /\ LoopInv'
  BY <1>1 DEF CopyInv, LoopInv, Advancing, Submit
<1>8. EndInv'
  BY <1>1, <1>2 DEF EndInv, Quiet, Submit
<1> QED BY <1>3, <1>5, <1>6, <1>7, <1>8

-----------------------------------------------------------------------------
(* The worker *)

\* What the end of a call leaves.
LEMMA ReleaseFacts ==
  ASSUME Release
  PROVE  /\ pc' = "idle" /\ phase' = "none" /\ todo' = {} /\ at' = NoAct
         /\ halt' = FALSE /\ outcome' = "none" /\ seen' = {}
         /\ copy' \in Books /\ BookOK(copy)' /\ CopyInv' /\ LoopInv'
<1>1. /\ pc' = "idle" /\ phase' = "none" /\ todo' = {} /\ at' = NoAct
      /\ halt' = FALSE /\ outcome' = "none" /\ seen' = {} /\ copy' = Fresh
  BY DEF Release, Goto
<1>2. BookOK(copy)'
  BY <1>1, FreshFields DEF BookOK
<1>3. CopyInv' /\ LoopInv'
  BY <1>1 DEF CopyInv, LoopInv, Advancing
<1> QED BY <1>1, <1>2, <1>3, FreshFields

LEMMA EnterStep == IInv /\ Enter => IInv'
<1> SUFFICES ASSUME IInv, Enter PROVE IInv'
  OBVIOUS
<1> USE DEF IInv, Inv, row, tasks
<1> DEFINE b == IF FlagsRead # {} THEN Discarded(book) ELSE book
           tokens == FlagsRead = {} /\ MovesTokens(book)
<1>1. /\ pc = "idle" /\ status \in Open
      /\ seen' = FlagsRead /\ copy' = b
      /\ pc' = (IF tokens THEN "tokens" ELSE "visit")
      /\ phase' = (IF FlagsRead = {} THEN "sweep" ELSE "stop")
      /\ todo' = (IF tokens THEN {} ELSE OpenRows(b) \cap b.withdrawn)
      /\ UNCHANGED <<status, cancelRequested, errorMessage, expired, book, child,
                     childCancel, permit, at, halt, outcome, stray, faults>>
  BY DEF Enter, Goto
<1>2. /\ b \in Books /\ b.engine = book.engine /\ b.token = book.token
      /\ b.act = book.act /\ b.delivered = book.delivered /\ b.linked = book.linked
      /\ FlagsRead = {} => b = book
      /\ FlagsRead # {} => b.withdrawn = Rows(b) /\ b.inbox = Discarded(book).inbox
  BY DiscardedFields DEF TypeOK, Rows
<1>3. FlagsRead \subseteq {"cancel", "error"} /\ ("cancel" \in FlagsRead => cancelRequested)
  BY DEF FlagsRead
<1> HIDE DEF b
<1>4. TypeOK'
  BY <1>1, <1>2, <1>3 DEF TypeOK, OpenRows
<1>5. BookOK(book)'
  BY <1>1 DEF BookOK
<1>6. BookOK(copy)'
  <2>1. \A a \in Acts : a \in b.withdrawn => b.act[a] # "none"
    BY <1>2 DEF BookOK, Rows
  <2>2. \A a \in book.withdrawn : book.act[a] # "none" /\ a \in Acts
    BY DEF BookOK, TypeOK, Books
  <2>3. \A a \in Acts : a \in book.withdrawn => a \in b.withdrawn
    BY <1>2, <2>2 DEF Rows
  <2> QED BY <1>1, <1>2, <2>1, <2>3 DEF BookOK
<1>7. CopyInv'
  BY <1>1, <1>2 DEF CopyInv, Rows, Discarded
<1>8. LoopInv'
  <2>1. \A a \in Acts : a \in b.delivered => b.act[a] \in Settled
    BY <1>2 DEF BookOK
  <2>2. \A a \in todo' : copy'.act[a] \in ActOpen /\ a \notin copy'.delivered
    BY <1>1 DEF OpenRows
  <2>3. ~tokens => \A a \in copy'.withdrawn : copy'.act[a] = "pending" => a \in todo'
    BY <1>1, <1>2, <2>1 DEF OpenRows, ActOpen, Settled, Books
  <2>4. phase' = "sweep" /\ pc' # "tokens" => copy'.engine # "none"
    BY <1>1, <1>2 DEF MovesTokens
  <2> QED BY <1>1, <2>2, <2>3, <2>4 DEF LoopInv, Advancing
<1>9. EndInv'
  BY <1>1, <1>3 DEF EndInv, Quiet
<1> QED BY <1>4, <1>5, <1>6, <1>7, <1>8, <1>9

LEMMA AdvanceTokensStep == IInv /\ AdvanceTokens => IInv'
<1> SUFFICES ASSUME IInv, AdvanceTokens PROVE IInv'
  OBVIOUS
<1> USE DEF IInv, Inv, tasks
<1>1. PICK b \in Moves(copy) : book' = b /\ copy' = b
                               /\ todo' = OpenRows(b) \cap b.withdrawn
  BY DEF AdvanceTokens
<1>2. PICK cut \in SUBSET (Live(copy) \ Results(copy)),
           new \in SUBSET {n \in Nodes : copy.token[n] = "none"},
           e \in {"waiting", "succeeded", "failed"} :
             b = Moved(copy, cut, new, e) /\ (e = "succeeded" => Live(b) = {})
  <2>1. PICK cut \in SUBSET (Live(copy) \ Results(copy)),
             new \in SUBSET {n \in Nodes : copy.token[n] = "none"},
             e \in {"waiting", "succeeded", "failed"} :
               b = Moved(copy, cut, new, e)
    BY <1>1 DEF Moves
  <2>2. b.engine = "succeeded" => Live(b) = {}
    BY <1>1 DEF Moves
  <2>3. b.engine = e
    BY <2>1 DEF Moved
  <2> QED BY <2>1, <2>2, <2>3
<1>3. cut \in SUBSET Nodes /\ new \in SUBSET Nodes /\ copy \in Books
  BY DEF Live, TypeOK
<1>4. IsMoved(copy, cut, new, e, b)
  BY <1>2, <1>3, MovedFields
<1>5. UNCHANGED <<child, permit, at, phase, seen>> /\ pc = "tokens" /\ pc' = "visit"
      /\ status' = "waiting" /\ UNCHANGED cancelRequested
  BY DEF AdvanceTokens, Goto
<1>6. TypeOK'
  BY <1>1, <1>4 DEF IsMoved, TypeOK, AdvanceTokens, Goto, OpenRows, Open
<1>7. BookOK(copy)' /\ BookOK(book)'
  <2>1. ASSUME NEW a \in Acts
        PROVE  /\ a \in new => copy.act[a] = "none" /\ copy.token[a] = "none"
               /\ a \in cut => copy.act[a] # "none"
               /\ a \in Results(copy) => copy.act[a] \in Settled
               /\ a \notin Pending(copy)
               /\ a \in Nodes
    BY ConstantsAssumption DEF BookOK, Live, Results, Pending, Nodes, Settled
  <2>2. e = "succeeded" => \A a \in Acts : b.token[a] # "live"
    BY <1>2 DEF Live, Nodes
  <2>3. ASSUME NEW a \in Acts
        PROVE  b.act[a] = "none" <=> b.token[a] = "none"
    BY <1>4, <2>1 DEF BookOK, Settled, IsMoved
  <2>4. ASSUME NEW a \in Acts
        PROVE  /\ b.act[a] = "none" => a \notin b.delivered \cup b.withdrawn \cup b.linked
               /\ b.token[a] = "gone" => a \in b.withdrawn \cup b.delivered
               /\ b.engine = "failed" /\ b.act[a] # "none"
                    => a \in b.withdrawn \cup b.delivered
               /\ a \in b.delivered => b.act[a] \in Settled
    BY <1>4, <2>1, <2>3 DEF BookOK, Settled, IsMoved
  <2>5. ASSUME NEW a \in Acts
        PROVE  a \in b.linked => /\ KindOf[a] = "action"
                                 /\ child'[a] # "absent"
                                 /\ child'[a] \in TaskOpen => b.act[a] \in ActOpen
    BY <1>4, <1>5, <2>1 DEF BookOK, IsMoved
  <2> QED BY <1>1, <1>4, <2>2, <2>3, <2>4, <2>5 DEF BookOK, IsMoved
<1>8. CopyInv'
  BY <1>1, <1>5 DEF CopyInv, LoopInv, Open
<1>9. LoopInv'
  <2>1. phase = "sweep"
    BY <1>5 DEF LoopInv
  <2>2. \A a \in b.delivered : b.act[a] \in Settled
    BY <1>1, <1>4, <1>7 DEF BookOK, Books, IsMoved
  <2>3. \A a \in b.withdrawn : b.act[a] = "pending" => a \in todo'
    BY <1>1, <1>4, <2>2 DEF OpenRows, ActOpen, Settled, Books, IsMoved
  <2> QED BY <1>1, <1>4, <1>5, <2>1, <2>3 DEF LoopInv, Advancing, OpenRows, IsMoved
<1>10. EndInv'
  <2>1. \A a \in Acts : a \in book'.linked <=> a \in book.linked
    BY <1>1, <1>4, <1>5 DEF CopyInv, IsMoved
  <2> QED BY <1>5, <2>1 DEF EndInv, Terminal, TypeOK
<1> QED BY <1>6, <1>7, <1>8, <1>9, <1>10

\* The row of one activity is set in memory, to a status of an activity that
\* was begun; a task run that is still open keeps it open.
LEMMA CopyActBook ==
  ASSUME TypeOK, BookOK(copy), NEW a \in Acts, NEW s \in ActStatus \ {"none"},
         SetAct(a, s), child' = child,
         copy.act[a] \in ActOpen, a \notin copy.delivered,
         a \in copy.linked /\ child[a] \in TaskOpen => s \in ActOpen
  PROVE  BookOK(copy)'
<1>1. /\ copy'.act = [copy.act EXCEPT ![a] = s]
      /\ copy'.engine = copy.engine /\ copy'.token = copy.token
      /\ copy'.delivered = copy.delivered
      /\ copy'.withdrawn = copy.withdrawn /\ copy'.linked = copy.linked
  BY SetActFields DEF TypeOK
<1>2. copy.act \in [Acts -> {"none"} \cup ActOpen \cup Terminal]
  BY DEF TypeOK, Books
<1>3. copy.act[a] # "none" /\ s # "none"
  BY DEF ActOpen, ActStatus
<1> QED BY <1>1, <1>2, <1>3 DEF BookOK

LEMMA StopNextStep == IInv /\ StopNext => IInv'
<1> SUFFICES ASSUME IInv, StopNext PROVE IInv'
  OBVIOUS
<1> USE DEF IInv, Inv, row, tasks
<1>1. PICK a \in todo :
        /\ todo' = todo \ {a} /\ at' = a
        /\ IF a \in copy.linked THEN pc' = "ask" /\ UNCHANGED copy
                                ELSE pc' = "save" /\ SetAct(a, "cancelled")
  BY DEF StopNext, Goto
<1>2. /\ pc = "visit" /\ phase \in {"stop", "sweep"} /\ halt' = TRUE
      /\ UNCHANGED <<status, cancelRequested, errorMessage, expired, book, child,
                     childCancel, permit, seen, phase, outcome, stray, faults>>
  BY DEF StopNext
<1>3. /\ a \in Acts /\ copy.act[a] \in ActOpen /\ a \notin copy.delivered
      /\ book.act[a] \in ActOpen /\ a \notin book.delivered
  BY <1>1, <1>2 DEF TypeOK, LoopInv, CopyInv
<1>4. /\ copy' \in Books
      /\ copy'.act = IF a \in copy.linked THEN copy.act
                                          ELSE [copy.act EXCEPT ![a] = "cancelled"]
      /\ copy'.engine = copy.engine /\ copy'.token = copy.token
      /\ copy'.inbox = copy.inbox /\ copy'.delivered = copy.delivered
      /\ copy'.withdrawn = copy.withdrawn /\ copy'.linked = copy.linked
  BY <1>1, <1>3, SetActFields DEF TypeOK, ActStatus
<1>5. copy.act \in [Acts -> {"none"} \cup ActOpen \cup Terminal]
  BY DEF TypeOK, Books
<1>6. TypeOK'
  BY <1>1, <1>2, <1>3, <1>4 DEF TypeOK
<1>7. BookOK(book)'
  BY <1>2 DEF BookOK
<1>8. BookOK(copy)'
  <2>1. CASE a \in copy.linked
    BY <1>1, <1>2, <2>1 DEF BookOK
  <2>2. CASE a \notin copy.linked
    BY <1>1, <1>2, <1>3, <2>2, CopyActBook DEF ActStatus
  <2> QED BY <2>1, <2>2
<1>9. CopyInv'
  <2>1. Rows(copy') = Rows(copy)
    BY <1>3, <1>4, <1>5 DEF Rows, ActOpen
  <2> QED BY <1>1, <1>2, <1>3, <1>4, <1>5, <2>1 DEF CopyInv, Discarded
<1>10. LoopInv'
  <2>1. \A b \in todo' : copy'.act[b] \in ActOpen /\ b \notin copy'.delivered
    BY <1>1, <1>3, <1>4, <1>5 DEF LoopInv, TypeOK
  <2>2. \A b \in copy'.withdrawn :
          copy'.act[b] = "pending" => b \in todo' \/ (pc' = "ask" /\ b = at')
    BY <1>1, <1>2, <1>3, <1>4, <1>5 DEF LoopInv, TypeOK, Books
  <2> QED BY <1>1, <1>2, <1>3, <1>4, <2>1, <2>2 DEF LoopInv, Advancing
<1>11. EndInv'
  BY <1>1, <1>2 DEF EndInv, Quiet
<1> QED BY <1>6, <1>7, <1>8, <1>9, <1>10, <1>11

LEMMA PickStep == IInv /\ Pick => IInv'
<1> SUFFICES ASSUME IInv, Pick PROVE IInv'
  OBVIOUS
<1> USE DEF IInv, Inv, row, tasks
<1>1. /\ pc = "visit" /\ phase = "run"
      /\ UNCHANGED <<status, cancelRequested, errorMessage, expired, book, child,
                     childCancel, permit, copy, seen, phase, halt, outcome, stray, faults>>
  BY DEF Pick
<1>2. PICK a \in todo : \/ todo' = {} /\ UNCHANGED <<pc, at>>
                        \/ todo' = todo \ {a} /\ at' = a /\ pc' = "look"
  BY DEF Pick, Goto
<1>3. a \in Acts /\ book.act[a] \in ActOpen /\ a \notin book.delivered
  BY <1>1 DEF TypeOK, LoopInv, CopyInv
<1>4. TypeOK'
  BY <1>1, <1>2, <1>3 DEF TypeOK
<1>5. BookOK(book)' /\ BookOK(copy)'
  BY <1>1 DEF BookOK
<1>6. CopyInv'
  BY <1>1, <1>2 DEF CopyInv, Rows, Discarded
<1>7. LoopInv'
  BY <1>1, <1>2, <1>3 DEF LoopInv, Advancing
<1>8. EndInv'
  BY <1>1, <1>2 DEF EndInv, Quiet
<1> QED BY <1>4, <1>5, <1>6, <1>7, <1>8

LEMMA LookStep == IInv /\ Look => IInv'
<1> SUFFICES ASSUME IInv, Look PROVE IInv'
  OBVIOUS
<1> USE DEF IInv, Inv, row, tasks
<1>1. /\ pc = "look" /\ phase = "run" /\ at \in Acts /\ halt' \in BOOLEAN
      /\ UNCHANGED <<status, cancelRequested, errorMessage, expired, book, child,
                     childCancel, permit, seen, phase, todo, at, outcome, stray, faults>>
  BY DEF Look, Dispatchable, LoopInv, Advancing, TypeOK
<1>2. /\ copy.act[at] \in ActOpen /\ at \notin copy.delivered /\ at \notin todo
      /\ book.act[at] \in ActOpen /\ at \notin book.delivered
  BY <1>1 DEF LoopInv, CopyInv, Advancing
<1>3. \/ /\ copy' = copy
         /\ pc' \in {"ask", "start"}
         /\ pc' = "ask" => at \in copy.linked
         /\ pc' = "start" => KindOf[at] = "action"
      \/ pc' = "save" /\ \E s \in {"waiting", "cancelled"} :
                            /\ SetAct(at, s)
                            /\ at \in copy.linked => s = "waiting"
  BY DEF Look, Goto
<1>4. BookOK(book)'
  BY <1>1 DEF BookOK
<1>5. ASSUME copy' = copy, pc' \in {"ask", "start"},
             pc' = "ask" => at \in copy.linked,
             pc' = "start" => KindOf[at] = "action"
      PROVE  IInv'
  <2>1. TypeOK' /\ BookOK(copy)'
    BY <1>1, <1>5 DEF TypeOK, BookOK
  <2>2. CopyInv'
    BY <1>1, <1>5 DEF CopyInv
  <2>3. LoopInv'
    BY <1>1, <1>2, <1>5 DEF LoopInv, Advancing
  <2>4. EndInv'
    BY <1>1, <1>5 DEF EndInv, Quiet
  <2> QED BY <1>4, <2>1, <2>2, <2>3, <2>4
<1>6. ASSUME NEW s \in {"waiting", "cancelled"}, pc' = "save", SetAct(at, s),
             at \in copy.linked => s = "waiting"
      PROVE  IInv'
  <2>1. /\ copy' \in Books
        /\ copy'.act = [copy.act EXCEPT ![at] = s]
        /\ copy'.engine = copy.engine /\ copy'.token = copy.token
        /\ copy'.inbox = copy.inbox /\ copy'.delivered = copy.delivered
        /\ copy'.withdrawn = copy.withdrawn /\ copy'.linked = copy.linked
    BY <1>1, <1>6, SetActFields DEF TypeOK, ActStatus
  <2>2. TypeOK'
    BY <1>1, <1>6, <2>1 DEF TypeOK
  <2>3. BookOK(copy)'
    BY <1>1, <1>2, <1>6, CopyActBook DEF ActStatus, ActOpen
  <2>4. CopyInv'
    BY <1>1, <1>6, <2>1 DEF CopyInv, TypeOK, Books
  <2>5. LoopInv'
    BY <1>1, <1>2, <1>6, <2>1 DEF LoopInv, Advancing, TypeOK, Books
  <2>6. EndInv'
    BY <1>1, <1>6 DEF EndInv, Quiet
  <2> QED BY <1>4, <2>2, <2>3, <2>4, <2>5, <2>6
<1> QED BY <1>3, <1>5, <1>6

LEMMA StartTaskStep == IInv /\ StartTask => IInv'
<1> SUFFICES ASSUME IInv, StartTask PROVE IInv'
  OBVIOUS
<1> USE DEF IInv, Inv, row
<1>1. /\ pc = "start" /\ pc' = "link" /\ StartChild(at)
      /\ UNCHANGED <<status, cancelRequested, errorMessage, expired, book, childCancel,
                     permit, seen, phase, todo, at, halt, outcome, stray, faults>>
  BY DEF StartTask, Goto
<1>2. /\ at \in Acts /\ phase = "run" /\ KindOf[at] = "action" /\ at \notin todo
      /\ copy.act[at] \in ActOpen
      /\ book.act[at] \in ActOpen /\ at \notin book.delivered
  BY <1>1 DEF LoopInv, CopyInv, Advancing
<1>3. /\ copy' \in Books
      /\ copy'.act = copy.act /\ copy'.engine = copy.engine /\ copy'.token = copy.token
      /\ copy'.inbox = copy.inbox /\ copy'.delivered = copy.delivered
      /\ copy'.withdrawn = copy.withdrawn /\ copy'.linked = copy.linked \cup {at}
  BY <1>2 DEF StartTask, TypeOK, Books
<1>4. child' = [child EXCEPT ![at] = IF @ = "absent" THEN "pending" ELSE @]
  BY <1>1 DEF StartChild
<1>5. \A a \in Acts : /\ child[a] # "absent" => child'[a] = child[a]
                      /\ child'[a] = "running" => child[a] = "running"
                      /\ child'[at] # "absent"
  BY <1>2, <1>4 DEF TypeOK
<1>6. TypeOK'
  BY <1>1, <1>2, <1>3, <1>4 DEF TypeOK, TaskOpen
<1>7. BookOK(book)'
  BY <1>1, <1>5 DEF BookOK
<1>8. BookOK(copy)'
  BY <1>2, <1>3, <1>5 DEF BookOK, ActOpen
<1>9. CopyInv'
  BY <1>1, <1>2, <1>3 DEF CopyInv
<1>10. LoopInv'
  BY <1>1, <1>2, <1>3 DEF LoopInv, Advancing
<1>11. EndInv'
  BY <1>1, <1>5 DEF EndInv, CopyInv, Open, Terminal, TypeOK
<1> QED BY <1>6, <1>7, <1>8, <1>9, <1>10, <1>11

\* SaveAct makes the row of one activity what the worker has in memory.
LEMMA SavedBook ==
  ASSUME TypeOK, BookOK(book), BookOK(copy), CopyInv, pc \in {"link", "save"},
         at \in Acts, SaveAct, child' = child
  PROVE  BookOK(book)'
<1>1. /\ book'.act = [book.act EXCEPT ![at] = copy.act[at]]
      /\ book'.engine = copy.engine /\ book'.token = copy.token
      /\ \A a \in Acts :
           /\ a \in book'.delivered <=> a \in (IF a = at THEN copy ELSE book).delivered
           /\ a \in book'.withdrawn <=> a \in (IF a = at THEN copy ELSE book).withdrawn
           /\ a \in book'.linked <=> a \in (IF a = at THEN copy ELSE book).linked
  BY SaveActFields DEF TypeOK, CopyInv
<1>2. book'.engine = book.engine /\ book'.token = book.token
  BY SaveActFields DEF TypeOK
<1>3. book.act \in [Acts -> {"none"} \cup ActOpen \cup Terminal]
  BY DEF TypeOK, Books
<1>4. ASSUME NEW a \in Acts, a # at
      PROVE  /\ book'.act[a] = book.act[a]
             /\ a \in book'.delivered <=> a \in book.delivered
             /\ a \in book'.withdrawn <=> a \in book.withdrawn
             /\ a \in book'.linked <=> a \in book.linked
  BY <1>1, <1>3, <1>4
<1>5. /\ book'.act[at] = copy.act[at]
      /\ at \in book'.delivered <=> at \in copy.delivered
      /\ at \in book'.withdrawn <=> at \in copy.withdrawn
      /\ at \in book'.linked <=> at \in copy.linked
  BY <1>1, <1>3
<1>6. child' = child
  OBVIOUS
<1>7. book'.engine = "succeeded" => \A a \in Acts : book'.token[a] # "live"
  BY <1>2 DEF BookOK
<1>8. ASSUME NEW a \in Acts
      PROVE  /\ book'.act[a] = "none" <=> book'.token[a] = "none"
             /\ book'.act[a] = "none"
                  => a \notin book'.delivered \cup book'.withdrawn \cup book'.linked
             /\ book'.token[a] = "gone" => a \in book'.withdrawn \cup book'.delivered
             /\ book'.engine = "failed" /\ book'.act[a] # "none"
                  => a \in book'.withdrawn \cup book'.delivered
             /\ a \in book'.delivered => book'.act[a] \in Settled
             /\ a \in book'.linked => /\ KindOf[a] = "action"
                                      /\ child[a] # "absent"
                                      /\ child[a] \in TaskOpen => book'.act[a] \in ActOpen
  <2>1. CASE a = at
    BY <1>1, <1>5, <2>1 DEF BookOK
  <2>2. CASE a # at
    BY <1>2, <1>4, <2>2 DEF BookOK
  <2> QED BY <2>1, <2>2
<1> QED BY <1>6, <1>7, <1>8 DEF BookOK

LEMMA LinkStep == IInv /\ Link => IInv'
<1> SUFFICES ASSUME IInv, Link PROVE IInv'
  OBVIOUS
<1> USE DEF IInv, Inv, row, tasks
<1>1. /\ pc = "link" /\ pc' = "ask" /\ SaveAct
      /\ UNCHANGED <<status, cancelRequested, errorMessage, expired, child, childCancel,
                     permit, copy, seen, phase, todo, at, halt, outcome, stray, faults>>
  BY DEF Link, Goto
<1>2. /\ at \in Acts /\ phase = "run" /\ at \in copy.linked
      /\ copy.act[at] = book.act[at]
  BY <1>1 DEF LoopInv, CopyInv, Advancing
<1>3. /\ book' \in Books
      /\ book'.act = [book.act EXCEPT ![at] = copy.act[at]]
      /\ book'.engine = book.engine /\ book'.token = book.token
      /\ book'.inbox = book.inbox
      /\ \A a \in Acts :
           /\ a \in book'.delivered <=> a \in (IF a = at THEN copy ELSE book).delivered
           /\ a \in book'.withdrawn <=> a \in (IF a = at THEN copy ELSE book).withdrawn
           /\ a \in book'.linked <=> a \in (IF a = at THEN copy ELSE book).linked
  BY <1>1, <1>2, SaveActFields DEF TypeOK
<1>4. /\ book'.act = book.act
      /\ book'.delivered = book.delivered /\ book'.withdrawn = book.withdrawn
      /\ \A a \in Acts : a \in book'.linked <=> a \in copy.linked
  <2>1. book'.act = book.act
    BY <1>2, <1>3 DEF TypeOK, Books
  <2>2. book.delivered \subseteq Acts /\ book'.delivered \subseteq Acts
        /\ book.withdrawn \subseteq Acts /\ book'.withdrawn \subseteq Acts
    BY <1>3 DEF TypeOK, Books
  <2>3. copy.delivered = book.delivered /\ copy.withdrawn = book.withdrawn
        /\ \A a \in Acts : a # at => (a \in copy.linked <=> a \in book.linked)
    BY <1>1, <1>2 DEF CopyInv
  <2> QED BY <1>3, <2>1, <2>2, <2>3
<1>5. TypeOK'
  BY <1>1, <1>3 DEF TypeOK
<1>6. BookOK(book)' /\ BookOK(copy)'
  <2>1. BookOK(book)'
    BY <1>1, <1>2, SavedBook
  <2> QED BY <1>1, <2>1 DEF BookOK
<1>7. CopyInv'
  BY <1>1, <1>2, <1>3, <1>4 DEF CopyInv
<1>8. LoopInv'
  BY <1>1, <1>2, <1>4 DEF LoopInv, Advancing
<1>9. EndInv'
  BY <1>1, <1>4 DEF EndInv, CopyInv, Open, Terminal, TypeOK
<1> QED BY <1>5, <1>6, <1>7, <1>8, <1>9

LEMMA AskStep == IInv /\ Ask => IInv'
<1> SUFFICES ASSUME IInv, Ask PROVE IInv'
  OBVIOUS
<1> USE DEF IInv, Inv, row
<1>1. /\ pc = "ask" /\ pc' = "save" /\ SetAct(at, Answer)
      /\ childCancel' \subseteq childCancel \cup {at}
      /\ UNCHANGED <<status, cancelRequested, errorMessage, expired, book, child,
                     permit, seen, phase, todo, at, halt, outcome, stray, faults>>
  BY DEF Ask, Goto, CancelChild
<1>2. /\ at \in Acts /\ at \in copy.linked /\ at \notin todo
      /\ copy.act[at] \in ActOpen /\ at \notin copy.delivered
      /\ book.act[at] \in ActOpen /\ at \notin book.delivered
  BY <1>1 DEF LoopInv, CopyInv, Advancing
<1>3. /\ Answer \in {"waiting", "succeeded", "failed", "cancelled"}
      /\ child[at] \in TaskOpen => Answer = "waiting"
  <2>1. child[at] \in {"pending", "running", "succeeded", "failed", "cancelled"}
    BY <1>2 DEF BookOK, TypeOK, TaskOpen, Terminal
  <2>2. CASE child[at] \in TaskOpen
    BY <2>2 DEF Answer, TaskOpen
  <2>3. CASE child[at] = "cancelled" /\ ~halt
    BY <2>3 DEF Answer, TaskOpen
  <2>4. CASE child[at] \notin TaskOpen /\ ~(child[at] = "cancelled" /\ ~halt)
    BY <2>1, <2>4 DEF Answer, TaskOpen
  <2> QED BY <2>2, <2>3, <2>4
<1>4. PICK s \in {"waiting", "succeeded", "failed", "cancelled"} :
        SetAct(at, s) /\ (child[at] \in TaskOpen => s = "waiting")
  BY <1>1, <1>3
<1>5. /\ copy' \in Books
      /\ copy'.act = [copy.act EXCEPT ![at] = s]
      /\ copy'.engine = copy.engine /\ copy'.token = copy.token
      /\ copy'.inbox = copy.inbox /\ copy'.delivered = copy.delivered
      /\ copy'.withdrawn = copy.withdrawn /\ copy'.linked = copy.linked
  BY <1>2, <1>4, SetActFields DEF TypeOK, ActStatus
<1>6. copy.act \in [Acts -> {"none"} \cup ActOpen \cup Terminal]
  BY DEF TypeOK, Books
<1>7. TypeOK'
  BY <1>1, <1>2, <1>5 DEF TypeOK
<1>8. BookOK(book)' /\ BookOK(copy)'
  <2>1. BookOK(copy)'
    BY <1>1, <1>2, <1>4, CopyActBook DEF ActStatus, ActOpen
  <2> QED BY <1>1, <2>1 DEF BookOK
<1>9. CopyInv'
  <2>1. Rows(copy') = Rows(copy)
    BY <1>2, <1>5, <1>6 DEF Rows, ActOpen
  <2> QED BY <1>1, <1>2, <1>5, <1>6, <2>1 DEF CopyInv, Discarded
<1>10. LoopInv'
  BY <1>1, <1>2, <1>5, <1>6 DEF LoopInv, Advancing, TypeOK, Books
<1>11. EndInv'
  BY <1>1 DEF EndInv, Quiet
<1> QED BY <1>7, <1>8, <1>9, <1>10, <1>11

LEMMA SaveStep == IInv /\ Save => IInv'
<1> SUFFICES ASSUME IInv, Save PROVE IInv'
  OBVIOUS
<1> USE DEF IInv, Inv, row, tasks
<1>1. /\ pc = "save" /\ pc' = "visit" /\ SaveAct /\ at' = NoAct /\ halt' = FALSE
      /\ UNCHANGED <<status, cancelRequested, errorMessage, expired, child, childCancel,
                     permit, copy, seen, phase, todo, outcome, stray, faults>>
  BY DEF Save, Goto
<1>2. at \in Acts
  BY <1>1 DEF LoopInv, Advancing
<1>3. /\ book' \in Books
      /\ book'.act = [book.act EXCEPT ![at] = copy.act[at]]
      /\ book'.engine = book.engine /\ book'.token = book.token
      /\ book'.inbox = book.inbox
      /\ \A a \in Acts :
           /\ a \in book'.delivered <=> a \in (IF a = at THEN copy ELSE book).delivered
           /\ a \in book'.withdrawn <=> a \in (IF a = at THEN copy ELSE book).withdrawn
           /\ a \in book'.linked <=> a \in (IF a = at THEN copy ELSE book).linked
  BY <1>1, <1>2, SaveActFields DEF TypeOK
<1>4. /\ \A a \in Acts : book'.act[a] = copy.act[a]
      /\ book'.delivered = copy.delivered
      /\ phase # "stop" => book'.withdrawn = copy.withdrawn
      /\ \A a \in Acts : /\ a \in book'.linked <=> a \in copy.linked
                         /\ a \in book'.linked <=> a \in book.linked
  <2>1. \A a \in Acts : book'.act[a] = copy.act[a]
    BY <1>1, <1>2, <1>3 DEF TypeOK, Books, CopyInv
  <2>2. book.delivered \subseteq Acts /\ book'.delivered \subseteq Acts
        /\ book.withdrawn \subseteq Acts /\ book'.withdrawn \subseteq Acts
    BY <1>3 DEF TypeOK, Books
  <2>3. /\ copy.delivered = book.delivered
        /\ phase # "stop" => copy.withdrawn = book.withdrawn
        /\ \A a \in Acts : a \in copy.linked <=> a \in book.linked
    BY <1>1 DEF CopyInv
  <2> QED BY <1>3, <2>1, <2>2, <2>3
<1>5. TypeOK'
  BY <1>1, <1>3 DEF TypeOK
<1>6. BookOK(book)' /\ BookOK(copy)'
  <2>1. BookOK(book)'
    BY <1>1, <1>2, SavedBook
  <2> QED BY <1>1, <2>1 DEF BookOK
<1>7. CopyInv'
  BY <1>1, <1>3, <1>4 DEF CopyInv, Discarded
<1>8. LoopInv'
  BY <1>1 DEF LoopInv, Advancing
<1>9. EndInv'
  BY <1>1, <1>4 DEF EndInv, CopyInv, Open, Terminal, TypeOK
<1> QED BY <1>5, <1>6, <1>7, <1>8, <1>9

-----------------------------------------------------------------------------
(* The ends of a call, the task runs and the faults *)

\* When nothing is leaving and every activity was consumed or withdrawn, no
\* linked task run is open.
LEMMA AllOver ==
  ASSUME IInv, pc = "visit", todo = {}, phase \in {"stop", "sweep"}, Leaving(copy) = {},
         \A a \in Acts : copy.act[a] # "none" => a \in copy.withdrawn \cup copy.delivered
  PROVE  Quiet
<1>1. SUFFICES ASSUME NEW a \in book.linked, child[a] \in TaskOpen PROVE FALSE
  BY DEF Quiet
<1>2. a \in Acts /\ book.act[a] \in ActOpen /\ copy.act[a] = book.act[a]
  BY <1>1 DEF IInv, Inv, BookOK, TypeOK, Books, CopyInv
<1>3. a \notin copy.delivered
  BY <1>2 DEF IInv, Inv, BookOK, ActOpen, Settled
<1>4. a \in copy.withdrawn
  BY <1>2, <1>3 DEF ActOpen
<1>5. copy.act[a] # "pending"
  BY <1>4 DEF IInv, Inv, LoopInv
<1> QED BY <1>2, <1>4, <1>5 DEF Leaving, ActOpen

LEMMA StopStep == IInv /\ Stop => IInv'
<1> SUFFICES ASSUME IInv, Stop PROVE IInv'
  OBVIOUS
<1> USE DEF IInv, Inv, tasks
<1>1. /\ pc = "visit" /\ todo = {} /\ phase = "stop" /\ Release
      /\ status' \in {"waiting", "cancelled", "failed"}
      /\ status' # "waiting" => Leaving(copy) = {}
      /\ errorMessage' = (errorMessage \/ "error" \in seen)
      /\ UNCHANGED <<cancelRequested, expired, child, childCancel, permit, stray, faults>>
  BY DEF Stop, Visited
<1>2. /\ book' \in Books
      /\ book'.engine = book.engine /\ book'.token = book.token
      /\ book'.act = book.act /\ book'.delivered = book.delivered
      /\ book'.withdrawn = book.withdrawn /\ book'.linked = book.linked
  BY <1>1 DEF Stop, TypeOK, Books, CopyInv
<1>3. TypeOK'
  BY <1>1, <1>2, ReleaseFacts DEF TypeOK, Open, Terminal
<1>4. BookOK(book)'
  BY <1>1, <1>2 DEF BookOK
<1>5. status' \in Terminal => Quiet
  <2>1. \A a \in Acts : copy.act[a] # "none" => a \in copy.withdrawn
    BY <1>1 DEF CopyInv, Rows
  <2> QED BY <1>1, <2>1, AllOver DEF Terminal
<1>6. EndInv'
  BY <1>1, <1>2, <1>5, ReleaseFacts DEF EndInv, Quiet
<1> QED BY <1>1, <1>3, <1>4, <1>6, ReleaseFacts

LEMMA SweptStep == IInv /\ Swept => IInv'
<1> SUFFICES ASSUME IInv, Swept PROVE IInv'
  OBVIOUS
<1> USE DEF IInv, Inv, row, tasks
<1>1. /\ pc = "visit" /\ todo = {} /\ phase = "sweep" /\ Leaving(copy) = {}
      /\ UNCHANGED <<status, cancelRequested, errorMessage, expired, book, child,
                     childCancel, permit, copy, seen, at, halt, stray, faults>>
  BY DEF Swept, Visited
<1>2. \/ /\ phase' = "run" /\ todo' = OpenRows(copy) \ copy.withdrawn
         /\ UNCHANGED <<pc, outcome>>
      \/ /\ UNCHANGED <<phase, todo>> /\ copy.engine # "waiting"
         /\ \/ pc' = "finish" /\ outcome' = "failed"
            \/ pc' = "complete" /\ outcome' = outcome
  BY DEF Swept, Goto
<1>3. TypeOK'
  BY <1>1, <1>2 DEF TypeOK, OpenRows, Settled
<1>4. BookOK(book)' /\ BookOK(copy)'
  BY <1>1 DEF BookOK
<1>5. CopyInv'
  BY <1>1, <1>2 DEF CopyInv
<1>6. LoopInv'
  BY <1>1, <1>2 DEF LoopInv, Advancing, OpenRows, Settled
<1>7. copy.engine # "waiting" => Quiet
  <2> SUFFICES ASSUME copy.engine # "waiting" PROVE Quiet
    OBVIOUS
  <2>1. copy.engine \in Settled
    BY <1>1 DEF LoopInv, TypeOK, Books
  <2>2. ASSUME NEW a \in Acts, copy.act[a] # "none"
        PROVE  a \in copy.withdrawn \cup copy.delivered
    <3>1. copy.token[a] \in {"live", "gone"}
      BY <2>2 DEF BookOK, TypeOK, Books, Nodes
    <3>2. CASE copy.engine = "failed"
      BY <2>2, <3>2 DEF BookOK
    <3>3. CASE copy.engine = "succeeded"
      BY <3>1, <3>3 DEF BookOK
    <3> QED BY <2>1, <3>2, <3>3 DEF Settled
  <2> QED BY <1>1, <2>2, AllOver
<1>8. EndInv'
  BY <1>1, <1>2, <1>7 DEF EndInv, Quiet
<1> QED BY <1>3, <1>4, <1>5, <1>6, <1>8

\* The ends of a call that leave the activities alone.
LEMMA PostponeStep == IInv /\ (Postpone \/ Wait) => IInv'
<1> SUFFICES ASSUME IInv, Postpone \/ Wait PROVE IInv'
  OBVIOUS
<1> USE DEF IInv, Inv, tasks
<1>1. /\ pc = "visit" /\ Release /\ status' \in Open
      /\ UNCHANGED <<cancelRequested, errorMessage, expired, book, child, childCancel,
                     permit, stray, faults>>
  BY DEF Postpone, Wait, Visited, Open, CopyInv
<1>2. TypeOK'
  BY <1>1, ReleaseFacts DEF TypeOK
<1>3. BookOK(book)'
  BY <1>1 DEF BookOK
<1>4. EndInv'
  BY <1>1, ReleaseFacts DEF EndInv, Quiet, Open, Terminal
<1> QED BY <1>1, <1>2, <1>3, <1>4, ReleaseFacts

LEMMA CompleteStep == IInv /\ Complete => IInv'
<1> SUFFICES ASSUME IInv, Complete PROVE IInv'
  OBVIOUS
<1> USE DEF IInv, Inv, row, tasks
<1>1. /\ pc = "complete" /\ pc' = "finish" /\ outcome' \in Settled
      /\ UNCHANGED <<status, cancelRequested, errorMessage, expired, book, child,
                     childCancel, permit, copy, seen, phase, todo, at, halt, stray, faults>>
  BY DEF Complete, Goto
<1>2. TypeOK'
  BY <1>1 DEF TypeOK
<1>3. BookOK(book)' /\ BookOK(copy)'
  BY <1>1 DEF BookOK
<1>4. CopyInv' /\ LoopInv'
  BY <1>1 DEF CopyInv, LoopInv, Advancing, Rows, Discarded
<1>5. EndInv'
  BY <1>1 DEF EndInv, Quiet
<1> QED BY <1>2, <1>3, <1>4, <1>5

LEMMA FinishStep == IInv /\ Finish => IInv'
<1> SUFFICES ASSUME IInv, Finish PROVE IInv'
  OBVIOUS
<1> USE DEF IInv, Inv, tasks
<1>1. /\ pc = "finish" /\ Release
      /\ status' \in Open \cup Terminal /\ errorMessage' \in BOOLEAN
      /\ UNCHANGED <<cancelRequested, expired, book, child, childCancel, permit, stray,
                     faults>>
  BY DEF Finish, LoopInv, TypeOK, Terminal, Settled
<1>2. TypeOK'
  BY <1>1, ReleaseFacts DEF TypeOK
<1>3. BookOK(book)'
  BY <1>1 DEF BookOK
<1>4. EndInv'
  BY <1>1, ReleaseFacts DEF EndInv, Quiet
<1> QED BY <1>1, <1>2, <1>3, <1>4, ReleaseFacts

LEMMA ThrowStep == IInv /\ (Throw \/ LoseSession) => IInv'
<1> SUFFICES ASSUME IInv, Throw \/ LoseSession PROVE IInv'
  OBVIOUS
<1> USE DEF IInv, Inv, row, tasks
<1>1. /\ Release /\ faults' = faults + 1
      /\ UNCHANGED <<status, cancelRequested, errorMessage, expired, book, child,
                     childCancel, permit>>
  BY DEF Throw, LoseSession
<1>2. stray' \subseteq {"start", "ask"} \X Acts
  <2>1. CASE Throw
    BY <2>1 DEF Throw, TypeOK
  <2>2. CASE LoseSession
    <3>1. pc \in {"start", "ask"} /\ stray' = stray \cup {<<pc, at>>}
      BY <2>2 DEF LoseSession
    <3>2. at \in Acts
      BY <3>1 DEF LoopInv, Advancing
    <3> QED BY <3>1, <3>2 DEF TypeOK
  <2> QED BY <2>1, <2>2
<1>3. TypeOK'
  BY <1>1, <1>2, ReleaseFacts DEF TypeOK
<1>4. BookOK(book)'
  BY <1>1 DEF BookOK
<1>5. EndInv'
  BY <1>1, ReleaseFacts DEF EndInv, Quiet
<1> QED BY <1>1, <1>3, <1>4, <1>5, ReleaseFacts

\* Steps of a task run: what is over stays over, what was never started starts
\* as pending, and only a pending run begins.
TaskMoves ==
  /\ child' \in [Acts -> {"absent"} \cup TaskOpen \cup Terminal]
  /\ childCancel' \subseteq Acts /\ permit' \subseteq Acts
  /\ stray' \subseteq stray
  /\ \A a \in Acts : /\ child[a] \notin TaskOpen \cup {"absent"} => child'[a] = child[a]
                     /\ child[a] # "absent" => child'[a] # "absent"
                     /\ a \in permit' => a \in book.linked /\ child'[a] = "pending"
                     /\ child'[a] = "running" => a \in book.linked
  /\ UNCHANGED <<row, book, locals, faults>>

LEMMA TaskMovesStep == IInv /\ TaskMoves => IInv'
<1> SUFFICES ASSUME IInv, TaskMoves PROVE IInv'
  OBVIOUS
<1> USE DEF IInv, Inv, row, locals
<1>1. TypeOK'
  BY DEF TaskMoves, TypeOK
<1>2. BookOK(book)'
  BY DEF TaskMoves, BookOK, TypeOK, TaskOpen
<1>3. BookOK(copy)'
  BY DEF TaskMoves, BookOK, TypeOK, TaskOpen
<1>4. CopyInv' /\ LoopInv'
  BY DEF TaskMoves, CopyInv, LoopInv, Advancing, Rows, Discarded
<1>5. EndInv'
  <2>1. Quiet => Quiet'
    BY DEF TaskMoves, Quiet, BookOK, TypeOK, Books, TaskOpen
  <2> QED BY <2>1 DEF TaskMoves, EndInv
<1> QED BY <1>1, <1>2, <1>3, <1>4, <1>5

LEMMA TaskSteps ==
  ASSUME IInv, NEW a \in Acts, Authorise(a) \/ Carry(a) \/ StrayCall(a)
  PROVE  TaskMoves
<1> USE DEF IInv, Inv
<1>1. CASE Authorise(a)
  BY <1>1 DEF Authorise, TaskOnly, Life!Permit, Life!Refuse, Life!Reject, Life!Move,
              TaskMoves, TypeOK, EndInv, Terminal, TaskOpen
<1>2. CASE Begin(a)
  BY <1>2 DEF Begin, TaskOnly, Life!Begin, Life!Abandon, Life!Move, TaskMoves, TypeOK,
              EndInv, Terminal, TaskOpen
<1>3. CASE EndTask(a)
  BY <1>3 DEF EndTask, TaskOnly, Life!Repeat, Life!End, Life!Move, TaskMoves, TypeOK,
              EndInv, Terminal, TaskOpen
<1>5. CASE Note(a)
  BY <1>5 DEF Note, TaskOnly, Life!Cancel, TaskMoves, TypeOK, EndInv
<1>4. CASE StrayCall(a)
  <2>1. /\ child' \in {child, [child EXCEPT ![a] = "pending"]}
        /\ child' # child => child[a] = "absent"
        /\ childCancel' \subseteq childCancel \cup {a}
        /\ stray' \subseteq stray
        /\ UNCHANGED <<row, book, permit, locals, faults>>
    BY <1>4 DEF StrayCall, StartChild, CancelChild, TypeOK
  <2>2. child' \in [Acts -> {"absent"} \cup TaskOpen \cup Terminal]
    BY <2>1 DEF TypeOK, TaskOpen
  <2>3. \A b \in Acts : child'[b] # child[b] => child[b] = "absent" /\ child'[b] = "pending"
    BY <2>1 DEF TypeOK
  <2> QED BY <2>1, <2>2, <2>3 DEF TaskMoves, TypeOK, EndInv, TaskOpen
<1> QED BY <1>1, <1>2, <1>3, <1>4, <1>5 DEF Carry

LEMMA StepIInv == IInv /\ [Next]_vars => IInv'
<1> SUFFICES ASSUME IInv, [Next]_vars PROVE IInv'
  OBVIOUS
<1>1. CASE Cancel \/ Expire
  BY <1>1, CancelStep
<1>2. CASE \E x \in Waits : Accept(x)
  BY <1>2, AcceptStep
<1>3. ASSUME NEW a \in Acts, Submit(a) \/ Authorise(a) \/ Carry(a) \/ StrayCall(a)
      PROVE  IInv'
  BY <1>3, SubmitStep, TaskSteps, TaskMovesStep
<1>4. CASE Enter
  BY <1>4, EnterStep
<1>5. CASE Advance
  BY <1>5, AdvanceTokensStep, StopNextStep, PickStep, LookStep, StartTaskStep, LinkStep,
     AskStep, SaveStep, StopStep, SweptStep, PostponeStep, CompleteStep, FinishStep
     DEF Advance
<1>6. CASE Throw \/ LoseSession
  BY <1>6, ThrowStep
<1>7. CASE UNCHANGED vars
  <2>1. TypeOK'
    BY <1>7 DEF IInv, Inv, TypeOK, vars, row, tasks, locals
  <2>2. BookOK(book)' /\ BookOK(copy)'
    BY <1>7 DEF IInv, Inv, BookOK, vars, row, tasks, locals
  <2>3. CopyInv' /\ LoopInv'
    BY <1>7 DEF IInv, Inv, CopyInv, LoopInv, Advancing, Rows, Discarded,
                vars, row, tasks, locals
  <2>4. EndInv'
    BY <1>7 DEF IInv, Inv, EndInv, Quiet, vars, row, tasks, locals
  <2> QED BY <2>1, <2>2, <2>3, <2>4 DEF IInv, Inv
<1> QED BY <1>1, <1>2, <1>3, <1>4, <1>5, <1>6, <1>7 DEF Next

LEMMA Invariance == Spec => []IInv
BY InitIInv, StepIInv, PTL DEF Spec

-----------------------------------------------------------------------------
(* The theorems *)

\* The variables of a run keep their types, for every diagram.
THEOREM TypeCorrect == Spec => []TypeOK
<1>1. IInv => TypeOK
  BY DEF IInv
<1> QED BY <1>1, Invariance, PTL

\* A run ends only when nothing it started is being carried out or about to be:
\* the sweep of stopActivities() reaches every activity that was not consumed.
THEOREM EndedQuietAlways == Spec => []EndedQuiet
<1>1. IInv => EndedQuiet
  <2> SUFFICES ASSUME IInv PROVE EndedQuiet
    OBVIOUS
  <2> USE DEF IInv, Inv
  <2>1. SUFFICES ASSUME status \in Terminal
                 PROVE  /\ permit = {}
                        /\ \A a \in Acts : child[a] \in TaskOpen
                             => child[a] = "pending" /\ a \notin book.linked
    BY DEF EndedQuiet
  <2>2. Quiet
    BY <2>1 DEF EndInv
  <2>3. permit = {}
    BY <2>2 DEF EndInv, Quiet, TaskOpen
  <2>4. \A a \in Acts : child[a] \in TaskOpen => child[a] = "pending" /\ a \notin book.linked
    BY <2>2 DEF EndInv, Quiet, TaskOpen
  <2> QED BY <2>3, <2>4
<1> QED BY <1>1, Invariance, PTL

\* The steps that change the book; the others leave it.
LEMMA BookChanges ==
  [Next]_vars => \/ book' = book
                 \/ \E x \in Waits : Accept(x)
                 \/ \E a \in Acts : Submit(a)
                 \/ AdvanceTokens \/ Link \/ Save \/ Stop
BY DEF Next, Advance, Carry, vars, row, Cancel, Expire, Authorise, Begin, EndTask, Note,
       TaskOnly, StrayCall, Enter, StopNext, Pick, Look, StartTask, Ask, Swept, Postpone, Complete,
       Finish, Wait, Throw, LoseSession

\* What was acknowledged is kept: a worker writes back only an activity that is
\* open, and only the checkpoint and the inbox that it read under the lock.
THEOREM AcceptedKeptAlways == Spec => AcceptedKept
<1> DEFINE Kept ==
      /\ \A x \in Waits :
           /\ book.inbox[x] # "none" => book'.inbox[x] # "none"
           /\ book.inbox[x] \in {"delivered", "discarded"} => book'.inbox[x] = book.inbox[x]
      /\ \A a \in Acts :
           KindOf[a] = "human" /\ book.act[a] = "succeeded" => book'.act[a] = "succeeded"
<1>1. IInv /\ [Next]_vars => [Kept]_vars
  <2> SUFFICES ASSUME IInv, [Next]_vars PROVE Kept
    OBVIOUS
  <2> USE DEF IInv, Inv
  <2>0. /\ book.act \in [Acts -> {"none"} \cup ActOpen \cup Terminal]
        /\ book.inbox \in [Waits -> {"none", "pending", "delivered", "discarded"}]
    BY DEF TypeOK, Books
  <2>1. CASE book' = book
    BY <2>1
  <2>2. ASSUME NEW x \in Waits, Accept(x) PROVE Kept
    <3>1. /\ book'.inbox = [book.inbox EXCEPT ![x] = "pending"]
          /\ book'.act = book.act /\ book.inbox[x] = "none"
      BY <2>2 DEF Accept, TypeOK, Books
    <3> QED BY <2>0, <3>1
  <2>3. ASSUME NEW a \in Acts, Submit(a) PROVE Kept
    <3>1. /\ book'.act = [book.act EXCEPT ![a] = "succeeded"]
          /\ book'.inbox = book.inbox
      BY <2>3 DEF Submit, TypeOK, Books
    <3> QED BY <2>0, <3>1
  <2>4. CASE AdvanceTokens
    <3>1. PICK b \in Moves(copy) : book' = b
      BY <2>4 DEF AdvanceTokens
    <3>2. PICK cut \in SUBSET (Live(copy) \ Results(copy)),
               new \in SUBSET {n \in Nodes : copy.token[n] = "none"},
               e \in {"waiting", "succeeded", "failed"} :
                 b = Moved(copy, cut, new, e)
      BY <3>1 DEF Moves
    <3>3. cut \in SUBSET Nodes /\ new \in SUBSET Nodes /\ copy \in Books
      BY DEF Live, TypeOK
    <3>4. IsMoved(copy, cut, new, e, b)
      BY <3>2, <3>3, MovedFields
    <3>5. pc = "tokens" /\ phase = "sweep"
      BY <2>4 DEF AdvanceTokens, LoopInv
    <3>6. copy.inbox = book.inbox /\ copy.token = book.token
          /\ \A a \in Acts : copy.act[a] = book.act[a]
      BY <3>5 DEF CopyInv
    <3>7. \A a \in Acts : a \in new => copy.act[a] = "none"
      BY DEF BookOK
    <3> QED BY <2>0, <3>1, <3>4, <3>6, <3>7 DEF IsMoved, Pending
  <2>5. CASE Link \/ Save
    <3>1. at \in Acts /\ SaveAct /\ book.act[at] \in ActOpen
      BY <2>5 DEF Link, Save, LoopInv, Advancing
    <3>2. book'.inbox = book.inbox /\ book'.act = [book.act EXCEPT ![at] = copy.act[at]]
      BY <3>1, SaveActFields DEF TypeOK
    <3> QED BY <2>0, <3>1, <3>2 DEF ActOpen
  <2>6. CASE Stop
    <3>1. phase = "stop" /\ pc = "visit"
      BY <2>6 DEF Stop, Visited
    <3>2. book'.inbox = Discarded(book).inbox /\ book'.act = book.act
      BY <2>6, <3>1 DEF Stop, CopyInv, TypeOK, Books
    <3>3. Discarded(book).inbox = [x \in Waits |-> IF book.inbox[x] = "pending"
                                                   THEN "discarded" ELSE book.inbox[x]]
      BY DiscardedFields DEF TypeOK
    <3> QED BY <2>0, <3>2, <3>3
  <2> QED BY <2>1, <2>2, <2>3, <2>4, <2>5, <2>6, BookChanges
<1>2. AcceptedKept <=> [][Kept]_vars
  BY PTL DEF AcceptedKept
<1> HIDE DEF Kept
<1>3. Spec => [][Kept]_vars
  BY <1>1, Invariance, PTL DEF Spec
<1> QED BY <1>2, <1>3

-----------------------------------------------------------------------------
(* Permissions *)

\* What stands against a permission stays in the row of the run.
LEMMA RowFades == IInv /\ [Next]_vars => (Dispatchable' => Dispatchable)
<1> SUFFICES ASSUME IInv, [Next]_vars PROVE Dispatchable' => Dispatchable
  OBVIOUS
<1>1. CASE UNCHANGED row
  BY <1>1 DEF row, Dispatchable
<1>2. CASE Cancel \/ Expire
  BY <1>2 DEF Cancel, Expire, Dispatchable
<1>3. CASE AdvanceTokens \/ Postpone \/ Wait \/ Stop \/ Finish
  <2>1. status \in Open
    BY <1>3 DEF IInv, Inv, CopyInv, AdvanceTokens, Postpone, Wait, Stop, Finish, Visited
  <2>2. UNCHANGED <<cancelRequested, expired>> /\ (errorMessage => errorMessage')
    BY <1>3 DEF AdvanceTokens, Postpone, Wait, Stop, Finish
  <2> QED BY <2>1, <2>2 DEF Dispatchable
<1> QED
  BY <1>1, <1>2, <1>3 DEF Next, Advance, Carry, vars, Accept, Submit, Authorise, Begin,
     EndTask, Note, TaskOnly, StrayCall, Enter, StopNext, Pick, Look, StartTask, Link, Ask,
     Save, Swept, Complete, Throw, LoseSession

\* An activity that was withdrawn or consumed stays so, though its row is written
\* from the memory of a worker.
LEMMA BookFades ==
  IInv /\ [Next]_vars => book.withdrawn \cup book.delivered
                            \subseteq book'.withdrawn \cup book'.delivered
<1> SUFFICES ASSUME IInv, [Next]_vars,
                    NEW a \in Acts, a \in book.withdrawn \cup book.delivered
             PROVE  a \in book'.withdrawn \cup book'.delivered
  BY DEF IInv, TypeOK, Books
<1> USE DEF IInv, Inv
<1>0. book \in Books /\ copy \in Books
  BY DEF TypeOK
<1>1. CASE \E x \in Waits : Accept(x)
  BY <1>0, <1>1 DEF Accept, Books
<1>2. CASE \E b \in Acts : Submit(b)
  BY <1>0, <1>2 DEF Submit, Books
<1>3. CASE Stop
  BY <1>0, <1>3 DEF Stop, Books
<1>4. CASE Link \/ Save
  <2>1. SaveAct /\ pc \in {"link", "save"}
    BY <1>4 DEF Link, Save
  <2>2. at \in Acts
    BY <2>1 DEF LoopInv, Advancing
  <2>3. a = at => a \in copy.withdrawn \cup copy.delivered
    <3>1. copy.delivered = book.delivered
      BY <2>1 DEF CopyInv
    <3>2. phase # "stop" => copy.withdrawn = book.withdrawn
      BY <2>1 DEF CopyInv
    <3>3. phase = "stop" /\ a = at => a \in copy.withdrawn
      <4>1. book.act[at] \in ActOpen
        BY <2>1 DEF LoopInv, Advancing
      <4>2. ASSUME phase = "stop", a = at, a \notin book.delivered PROVE copy.act[at] # "none"
        <5>1. book.token[at] = copy.token[at] /\ book.act[at] # "none"
          BY <2>1, <4>1 DEF CopyInv, ActOpen
        <5> QED BY <2>2, <5>1 DEF BookOK
      <4>3. a = at => a \notin book.delivered
        BY <2>1 DEF LoopInv, Advancing
      <4> QED BY <2>1, <2>2, <4>2, <4>3 DEF CopyInv, Rows
    <3> QED BY <3>1, <3>2, <3>3
  <2> QED BY <1>0, <2>1, <2>2, <2>3, SaveActFields
<1>5. CASE AdvanceTokens
  <2>1. PICK cut \in SUBSET Nodes, new \in SUBSET Nodes, e \in {"waiting", "succeeded", "failed"} :
          /\ book' = Moved(copy, cut, new, e)
          /\ new \subseteq {n \in Nodes : copy.token[n] = "none"}
    BY <1>5 DEF AdvanceTokens, Moves, Live
  <2>2. IsMoved(copy, cut, new, e, book')
    BY <1>0, <2>1, MovedFields
  <2>3. copy.withdrawn = book.withdrawn /\ copy.delivered = book.delivered
    BY <1>5 DEF AdvanceTokens, CopyInv, LoopInv
  <2>4. a \in copy.withdrawn => copy.act[a] # "none"
    BY DEF BookOK
  <2>5. a \in copy.withdrawn => a \in book'.withdrawn
    BY <2>2, <2>4 DEF IsMoved
  <2> QED BY <2>2, <2>3, <2>5 DEF IsMoved
<1>6. CASE book' = book
  BY <1>6
<1> QED BY <1>1, <1>2, <1>3, <1>4, <1>5, <1>6, BookChanges

\* A permission that was refused stays refused. It is what TaskExecution assumes of
\* canExecute, whose answer it asks for several times and acts upon later.
THEOREM PermissionFadesAlways == Spec => PermissionFades
<1> DEFINE Fades == \A a \in Acts : Permitted(a)' => Permitted(a)
<1>1. IInv /\ [Next]_vars => Fades
  BY RowFades, BookFades DEF Permitted
<1>2. PermissionFades <=> [][Fades]_vars
  BY PTL DEF PermissionFades
<1> HIDE DEF Fades
<1>3. Spec => [][Fades]_vars
  BY <1>1, Invariance, PTL DEF Spec
<1> QED BY <1>2, <1>3

-----------------------------------------------------------------------------
(* The refinement *)

\* What WorkScope sees of a run.
EffectOf(ch) == [a \in Acts |-> CASE ch[a] = "running" -> "active"
                                  [] ch[a] \in Terminal -> "over"
                                  [] OTHER -> "none"]
PhaseOf(s) == IF s \in Open THEN "open" ELSE s

LEMMA EffectOfOne ==
  ASSUME NEW ch, NEW a \in Acts
  PROVE  /\ ch[a] = "running" => EffectOf(ch)[a] = "active"
         /\ ch[a] \in Terminal => EffectOf(ch)[a] = "over"
         /\ ch[a] \in {"absent", "pending"} => EffectOf(ch)[a] = "none"
BY DEF EffectOf, Terminal

LEMMA EffectType == \A ch : EffectOf(ch) \in [Acts -> {"none", "active", "over"}]
BY DEF EffectOf

\* One task run changes: so does its effect, and no other.
LEMMA EffectChanges ==
  ASSUME NEW a \in Acts, child \in [Acts -> {"absent"} \cup TaskOpen \cup Terminal],
         NEW s, child' = [child EXCEPT ![a] = s]
  PROVE  EffectOf(child') = [EffectOf(child) EXCEPT ![a] = EffectOf(child')[a]]
<1>1. \A b \in Acts : b # a => child'[b] = child[b]
  OBVIOUS
<1>2. \A b \in Acts : b # a => EffectOf(child')[b] = EffectOf(child)[b]
  BY <1>1 DEF EffectOf
<1> QED BY <1>2, EffectType

\* A step that WorkScope does not see.
LEMMA Unseen ==
  ASSUME PhaseOf(status') = PhaseOf(status), UNCHANGED cancelRequested,
         EffectOf(child') = EffectOf(child)
  PROVE  UNCHANGED Scope!vars
BY DEF Scope!vars, PhaseOf, EffectOf

LEMMA EffectStarts ==
  ASSUME NEW a \in Acts, child \in [Acts -> {"absent"} \cup TaskOpen \cup Terminal],
         StartChild(a)
  PROVE  EffectOf(child') = EffectOf(child)
<1>1. \A b \in Acts : \/ child'[b] = child[b]
                      \/ child[b] = "absent" /\ child'[b] = "pending"
  BY DEF StartChild
<1>2. ASSUME NEW b \in Acts PROVE EffectOf(child')[b] = EffectOf(child)[b]
  <2>1. CASE child'[b] = child[b]
    BY <2>1 DEF EffectOf
  <2>2. CASE child[b] = "absent" /\ child'[b] = "pending"
    BY <2>2, EffectOfOne DEF EffectOf, Terminal
  <2> QED BY <1>1, <2>1, <2>2
<1> QED BY <1>2, EffectType

LEMMA ScopeInit == Init => Scope!Init
BY DEF Init, Scope!Init, Open, Terminal

LEMMA ScopeStep == IInv /\ IInv' /\ [Next]_vars => [Scope!Next]_Scope!vars
<1> SUFFICES ASSUME IInv, IInv', [Next]_vars PROVE [Scope!Next]_Scope!vars
  OBVIOUS
<1> USE DEF IInv, Inv
<1>0. child \in [Acts -> {"absent"} \cup TaskOpen \cup Terminal]
      /\ status \in Open \cup Terminal
  BY DEF TypeOK
<1>a. \A a \in Acts : a \in permit \/ child[a] = "running" => status \in Open
  BY <1>0 DEF EndInv, Quiet, TaskOpen
<1>1. CASE Cancel
  <2>1. status \in Open /\ cancelRequested' = TRUE /\ UNCHANGED <<status, child>>
    BY <1>1 DEF Cancel, tasks
  <2>2. Scope!Revoke
    BY <2>1 DEF Scope!Revoke
  <2> QED BY <2>2 DEF Scope!Next
<1>b. \A a \in Acts : Authorise(a) \/ Carry(a) => UNCHANGED <<status, cancelRequested>>
  BY DEF Authorise, Carry, Begin, EndTask, Note, TaskOnly, row
<1>c. \A a \in Acts : Life!Permit(a) \/ Life!Abandon(a) \/ Life!Cancel({a}) => child' = child
  BY DEF Life!Permit, Life!Abandon, Life!Cancel
<1>2. ASSUME NEW a \in Acts, Begin(a) PROVE [Scope!Next]_Scope!vars
  <2>1. CASE Life!Begin(a)
    <3>1. /\ child[a] = "pending" /\ child' = [child EXCEPT ![a] = "running"]
          /\ status \in Open /\ UNCHANGED <<status, cancelRequested>>
      BY <2>1, <1>2, <1>a, <1>b DEF Carry, Life!Begin, Life!Move
    <3>2. EffectOf(child)[a] = "none" /\ EffectOf(child')[a] = "active"
      BY <1>0, <3>1, EffectOfOne
    <3>3. EffectOf(child') = [EffectOf(child) EXCEPT ![a] = "active"]
      BY <1>0, <3>1, <3>2, EffectChanges
    <3>4. Scope!Begin(a)
      BY <3>1, <3>2, <3>3 DEF Scope!Begin, EffectOf
    <3> QED BY <3>4 DEF Scope!Next
  <2>2. CASE Life!Abandon(a)
    BY <2>2, <1>2, <1>b, <1>c, Unseen DEF Carry
  <2> QED BY <1>2, <2>1, <2>2 DEF Begin
<1>3. ASSUME NEW a \in Acts, EndTask(a) PROVE Scope!Next
  <2>1. PICK s \in Terminal \cup {"pending"} :
          /\ child[a] = "running" /\ child' = [child EXCEPT ![a] = s]
          /\ s = "pending" => a \in Idempotent
    <3>1. CASE Life!Repeat(a)
      BY <3>1 DEF Life!Repeat, Life!Move
    <3>2. CASE \E t \in Terminal : Life!End(a, t)
      <4>1. PICK t \in Terminal : Life!End(a, t)
        BY <3>2
      <4>2. child[a] = "running" /\ child' = [child EXCEPT ![a] = t] /\ t # "pending"
        BY <4>1 DEF Life!End, Life!Move, Terminal
      <4> QED BY <4>2
    <3> QED BY <1>3, <3>1, <3>2 DEF EndTask
  <2>2. UNCHANGED <<status, cancelRequested>>
    BY <1>3, <1>b DEF Carry
  <2>3. child'[a] = s /\ EffectOf(child)[a] = "active"
    BY <1>0, <2>1, EffectOfOne
  <2>4. EffectOf(child') = [EffectOf(child) EXCEPT ![a] = EffectOf(child')[a]]
    BY <1>0, <2>1, EffectChanges
  <2>5. CASE s \in Terminal
    <3>1. EffectOf(child')[a] = "over"
      BY <2>3, <2>5, EffectOfOne
    <3>2. Scope!End(a)
      BY <2>2, <2>3, <2>4, <3>1 DEF Scope!End, EffectOf
    <3> QED BY <3>2 DEF Scope!Next
  <2>6. CASE s = "pending"
    <3>1. EffectOf(child')[a] = "none"
      BY <2>3, <2>6, EffectOfOne
    <3>2. Scope!Again(a)
      BY <2>1, <2>2, <2>3, <2>4, <2>6, <3>1 DEF Scope!Again, EffectOf
    <3> QED BY <3>2 DEF Scope!Next
  <2> QED BY <2>5, <2>6
<1>15. ASSUME NEW a \in Acts, Note(a) PROVE [Scope!Next]_Scope!vars
  <2>1. child' = child /\ UNCHANGED <<status, cancelRequested>>
    BY <1>15, <1>b, <1>c DEF Note, Carry
  <2> QED BY <2>1, Unseen
<1>4. ASSUME NEW a \in Acts, Authorise(a) PROVE [Scope!Next]_Scope!vars
  <2>1. UNCHANGED <<status, cancelRequested>>
    BY <1>4, <1>b
  <2>2. CASE Life!Permit(a)
    BY <1>c, <2>1, <2>2, Unseen
  <2>3. CASE Life!Refuse(a) \/ Life!Reject(a)
    <3>1. PICK s \in Terminal : child[a] = "pending" /\ child' = [child EXCEPT ![a] = s]
      BY <2>3 DEF Life!Refuse, Life!Reject, Life!Move, Terminal
    <3>2. EffectOf(child)[a] = "none" /\ EffectOf(child')[a] = "over"
      <4>1. child[a] \in {"absent", "pending"} /\ child'[a] \in Terminal
        BY <1>0, <3>1
      <4> QED BY <4>1, EffectOfOne
    <3>3. EffectOf(child') = [EffectOf(child) EXCEPT ![a] = "over"]
      BY <1>0, <3>1, <3>2, EffectChanges
    <3>4. Scope!Drop(a)
      BY <2>1, <3>2, <3>3 DEF Scope!Drop, EffectOf
    <3> QED BY <3>4 DEF Scope!Next
  <2> QED BY <1>4, <2>2, <2>3 DEF Authorise
<1>5. CASE StartTask
  <2>1. StartChild(at) /\ at \in Acts /\ UNCHANGED <<status, cancelRequested>>
    BY <1>5 DEF StartTask, LoopInv, Advancing, row
  <2> QED BY <1>0, <2>1, EffectStarts, Unseen
<1>6. ASSUME NEW a \in Acts, StrayCall(a) PROVE [Scope!Next]_Scope!vars
  <2>1. (StartChild(a) \/ UNCHANGED child) /\ UNCHANGED <<status, cancelRequested>>
    BY <1>6 DEF StrayCall, row
  <2>2. EffectOf(child') = EffectOf(child)
    BY <1>0, <2>1, EffectStarts
  <2> QED BY <2>1, <2>2, Unseen
<1>7. CASE Stop \/ Finish
  <2>1. /\ UNCHANGED <<child, cancelRequested>> /\ status \in Open
        /\ status' = "cancelled" => cancelRequested
        /\ status' = "succeeded" => ~cancelRequested
    <3>1. CASE Stop
      <4>1. /\ UNCHANGED <<child, cancelRequested>>
            /\ status' \in {"waiting", "cancelled", "failed"}
            /\ status' = "cancelled" => "cancel" \in seen
            /\ pc = "visit"
        BY <3>1 DEF Stop, Visited, tasks
      <4> QED BY <4>1 DEF EndInv, CopyInv
    <3>2. CASE Finish
      <4>1. /\ UNCHANGED <<child, cancelRequested>> /\ pc = "finish"
            /\ status' \in {status, outcome}
            /\ status' # status => ~cancelRequested
        BY <3>2 DEF Finish, UnlessCancelled, tasks
      <4> QED BY <4>1 DEF CopyInv, LoopInv, Settled, Open
    <3> QED BY <1>7, <3>1, <3>2
  <2>2. CASE status' \in Open
    <3>1. PhaseOf(status') = PhaseOf(status)
      BY <2>1, <2>2 DEF PhaseOf
    <3> QED BY <2>1, <3>1, Unseen
  <2>3. CASE status' \in Terminal
    <3>1. \A a \in Acts : child[a] # "running"
      BY <2>1, <2>3 DEF EndInv, Quiet, TaskOpen
    <3>2. \A a \in Acts : EffectOf(child)[a] # "active"
      BY <1>0, <3>1, EffectOfOne DEF TaskOpen
    <3>3. Scope!Close(status')
      BY <2>1, <2>3, <3>2 DEF Scope!Close, EffectOf, Open, Terminal
    <3> QED BY <2>3, <3>3 DEF Scope!Next, Terminal
  <2> QED BY <2>2, <2>3 DEF TypeOK
<1>8. CASE /\ UNCHANGED <<child, cancelRequested>>
           /\ status' = status \/ (status \in Open /\ status' \in Open)
  <2>1. PhaseOf(status') = PhaseOf(status)
    BY <1>8 DEF PhaseOf
  <2> QED BY <1>8, <2>1, Unseen
<1>9. ASSUME NEW a \in Acts, Submit(a)
      PROVE  UNCHANGED <<status, cancelRequested, child>>
  BY <1>9 DEF Submit, row, tasks
<1>10. ASSUME NEW x \in Waits, Accept(x)
       PROVE  UNCHANGED <<status, cancelRequested, child>>
  BY <1>10 DEF Accept, row, tasks
<1>11. CASE AdvanceTokens \/ Postpone \/ Wait
  <2>1. /\ UNCHANGED <<child, cancelRequested>> /\ pc # "idle"
        /\ status' \in {"waiting", status}
    BY <1>11 DEF AdvanceTokens, Postpone, Wait, Visited, tasks
  <2>2. status \in Open /\ status' \in Open
    BY <2>1 DEF CopyInv, Open
  <2> QED BY <1>8, <2>1, <2>2
<1>12. CASE Expire \/ Enter \/ Throw \/ LoseSession
  BY <1>8, <1>12 DEF Expire, Enter, Throw, LoseSession, row, tasks
<1>13. CASE StopNext \/ Pick \/ Look \/ Link \/ Ask \/ Save \/ Swept \/ Complete
  BY <1>8, <1>13 DEF StopNext, Pick, Look, Link, Ask, Save, Swept, Complete, row, tasks
<1>14. CASE UNCHANGED vars
  BY <1>8, <1>14 DEF vars, row, tasks
<1> QED BY <1>1, <1>2, <1>3, <1>4, <1>5, <1>6, <1>7, <1>8, <1>9, <1>10, <1>11, <1>12,
           <1>13, <1>14, <1>15 DEF Next, Advance, Carry

\* A run keeps the promise of WorkScope: an action begins only while the run is
\* open, and once unless it can be repeated, the outcome is final, comes when no action is being
\* carried out, and is not success after the cancellation was accepted.
THEOREM RunImplementsScope == Spec => ImplementsScope
<1>1. Spec => Scope!Init /\ [][Scope!Next]_Scope!vars
  BY ScopeInit, ScopeStep, Invariance, PTL DEF Spec
<1> QED BY <1>1 DEF ImplementsScope, Scope!Spec
-----------------------------------------------------------------------------
(* How a call of process() comes to its end *)

AdvancesOne(place) == place \in {"look", "start", "link", "ask", "save", "visit"}

\* The parts of the call: the token moves, the loop over the activities that are told
\* to stop, the main loop, and what completes the run.
Part(place, loop) ==
  CASE place = "tokens" -> 1
    [] AdvancesOne(place) /\ loop # "run" -> 2
    [] AdvancesOne(place) /\ loop = "run" -> 3
    [] place = "complete" -> 4
    [] place = "finish" -> 5

\* The awaits for one activity; at the last the loop takes the next one.
Await(place) ==
  CASE place = "look" -> 1 [] place = "start" -> 2 [] place = "link" -> 3
    [] place = "ask" -> 4 [] place = "save" -> 5 [] place = "visit" -> 6

\* A later part, or fewer activities left in the loop, or a later await for the one
\* being advanced.
Nearer ==
  /\ pc # "idle"
  /\ \/ pc' = "idle"
     \/ Part(pc, phase) < Part(pc', phase')
     \/ /\ AdvancesOne(pc) /\ AdvancesOne(pc')
        /\ Part(pc, phase) = Part(pc', phase')
        /\ \/ todo' \subseteq todo /\ todo' # todo
           \/ todo' = todo /\ Await(pc) < Await(pc')

CallStep == Advance \/ Throw \/ LoseSession

LEMMA PartNears ==
  ASSUME AdvanceTokens \/ StopNext \/ Pick \/ Look \/ StartTask \/ Link \/ Ask \/ Save
  PROVE  Nearer
<1>. USE DEF Nearer, Part, Await, AdvancesOne, Goto
<1>1. CASE AdvanceTokens
  BY <1>1 DEF AdvanceTokens
<1>2. CASE StopNext
  <2>1. PICK a \in todo : todo' = todo \ {a}
    BY <1>2 DEF StopNext
  <2>2. pc = "visit" /\ pc' \in {"ask", "save"} /\ phase' = phase
    BY <1>2 DEF StopNext
  <2>. QED BY <2>1, <2>2
<1>3. CASE Pick
  <2>1. PICK a \in todo : todo' = {} \/ todo' = todo \ {a}
    BY <1>3 DEF Pick
  <2>2. pc = "visit" /\ pc' \in {"visit", "look"} /\ phase' = phase
    BY <1>3 DEF Pick
  <2>. QED BY <2>1, <2>2
<1>4. CASE Look
  BY <1>4 DEF Look
<1>5. CASE StartTask \/ Link
  BY <1>5 DEF StartTask, Link
<1>6. CASE Ask \/ Save
  BY <1>6 DEF Ask, Save
<1>. QED BY <1>1, <1>2, <1>3, <1>4, <1>5, <1>6

LEMMA EndNears ==
  ASSUME Stop \/ Swept \/ Postpone \/ Complete \/ Finish \/ Wait \/ Throw \/ LoseSession
  PROVE  Nearer
<1>. USE DEF Nearer, Part, Await, AdvancesOne, Goto, Visited, Release
<1>1. CASE Stop \/ Postpone \/ Finish \/ Wait
  BY <1>1 DEF Stop, Postpone, Finish, Wait
<1>2. CASE Swept
  BY <1>2 DEF Swept
<1>3. CASE Complete
  BY <1>3 DEF Complete
<1>4. CASE Throw \/ LoseSession
  BY <1>4 DEF Throw, LoseSession
<1>. QED BY <1>1, <1>2, <1>3, <1>4

\* Requests, the task runs and calls that outlived their worker do not reach into the
\* memory of the worker that holds the lock.
LEMMA OthersKeepLocals ==
  ASSUME [Next]_vars, ~CallStep
  PROVE  Enter \/ UNCHANGED locals
<1>1. CASE Cancel \/ Expire \/ (\E x \in Waits : Accept(x)) \/ UNCHANGED vars
  BY <1>1 DEF Cancel, Expire, Accept, vars
<1>2. ASSUME NEW a \in Acts, Submit(a) \/ Authorise(a) \/ Carry(a) \/ StrayCall(a)
      PROVE  UNCHANGED locals
  BY <1>2 DEF Submit, Authorise, Carry, Begin, EndTask, Note, TaskOnly, StrayCall
<1>. QED BY <1>1, <1>2 DEF Next, CallStep

\* Each step of process(), failures and a lost session included, brings it nearer to its
\* end and to the release of the lock: past one of the activities it has listed, or to a
\* later part of its code; process() comes to no activity twice in one loop. Nothing
\* that happens meanwhile gives it more to do. StopEnds and ResultsConsumed need besides
\* that steps are taken, and that few of them fail.
THEOREM AdvanceWindsDown ==
  Spec => [][IF CallStep THEN Nearer ELSE pc # "idle" => UNCHANGED locals]_vars
<1>1. CallStep => Nearer
  BY PartNears, EndNears DEF CallStep, Advance
<1>2. [Next]_vars => [IF CallStep THEN Nearer ELSE pc # "idle" => UNCHANGED locals]_vars
  BY <1>1, OthersKeepLocals DEF Enter
<1>. QED BY <1>2, PTL DEF Spec

-----------------------------------------------------------------------------
(* What TaskExecution takes for granted of the runs that an activity names *)

\* The worker never writes of an activity it has dealt with that it was never begun.
SaveInv == pc = "save" => copy.act[at] # "pending"

LEMMA SetActOne ==
  ASSUME copy \in Books, NEW a \in Acts, NEW s, SetAct(a, s)
  PROVE  copy'.act[a] = s
BY DEF SetAct, Books

LEMMA SaveInvStep == IInv /\ SaveInv /\ [Next]_vars => SaveInv'
<1> SUFFICES ASSUME IInv, SaveInv, [Next]_vars PROVE SaveInv'
  OBVIOUS
<1> USE DEF SaveInv
<1>0. copy \in Books
  BY DEF IInv, TypeOK
<1>1. CASE StopNext
  <2>1. PICK a \in todo : at' = a /\ (pc' = "ask" \/ SetAct(a, "cancelled"))
    BY <1>1 DEF StopNext, Goto
  <2>2. a \in Acts
    BY DEF IInv, TypeOK
  <2>3. SetAct(a, "cancelled") => copy'.act[a] = "cancelled"
    BY <1>0, <2>2, SetActOne
  <2> QED BY <2>1, <2>3
<1>2. CASE Look \/ Ask
  <2>0. at \in Acts /\ at' = at
    BY <1>2 DEF Look, Ask, IInv, Inv, LoopInv, Advancing
  <2>1. ASSUME NEW s \in ActStatus \ {"pending"}, SetAct(at, s) PROVE SaveInv'
    <3>1. copy'.act[at] = s
      BY <1>0, <2>0, <2>1, SetActOne
    <3> QED BY <2>0, <2>1, <3>1
  <2>2. CASE Look
    <3>1. pc' \in {"ask", "start"} \/ SetAct(at, "cancelled") \/ SetAct(at, "waiting")
      BY <2>2 DEF Look, Goto
    <3> QED BY <2>1, <3>1 DEF ActStatus
  <2>3. CASE Ask
    <3>1. at \in copy.linked
      BY <2>3 DEF Ask, IInv, Inv, CopyInv
    <3>2. child[at] \in TaskOpen \cup Terminal
      BY <2>0, <3>1 DEF IInv, Inv, BookOK, TypeOK
    <3>3. Answer \in ActStatus \ {"pending"}
      BY <3>2 DEF Answer, TaskOpen, Terminal, ActStatus
    <3> QED BY <2>1, <2>3, <3>3 DEF Ask
  <2> QED BY <1>2, <2>2, <2>3
<1>3. CASE Advance /\ ~(StopNext \/ Look \/ Ask)
  <2>1. pc' # "save"
    BY <1>3 DEF Advance, AdvanceTokens, Pick, StartTask, Link, Save, Stop, Swept, Postpone,
                Complete, Finish, Wait, Visited, Release, Goto
  <2> QED BY <2>1
<1>4. CASE Throw \/ LoseSession \/ Enter
  <2>1. pc' # "save"
    BY <1>4 DEF Throw, LoseSession, Enter, Release, Goto
  <2> QED BY <2>1
<1>5. CASE UNCHANGED locals
  BY <1>5 DEF locals
<1> QED BY <1>1, <1>2, <1>3, <1>4, <1>5, OthersKeepLocals DEF CallStep

\* Nobody takes the name of a task run out of its activity.
LEMMA LinkStays ==
  ASSUME IInv, [Next]_vars, NEW a \in book.linked
  PROVE  a \in book'.linked
<1> USE DEF IInv, Inv
<1>0. book \in Books /\ copy \in Books /\ a \in Acts
  BY DEF TypeOK, Books
<1>1. CASE (\E x \in Waits : Accept(x)) \/ (\E b \in Acts : Submit(b)) \/ Stop
  BY <1>0, <1>1 DEF Accept, Submit, Stop, Books
<1>2. CASE Link \/ Save
  <2>1. SaveAct /\ pc \in {"link", "save"}
    BY <1>2 DEF Link, Save
  <2>2. at \in Acts
    BY <2>1 DEF LoopInv, Advancing
  <2>3. a = at => a \in copy.linked
    BY <1>0, <2>1 DEF CopyInv
  <2> QED BY <1>0, <2>1, <2>2, <2>3, SaveActFields
<1>3. CASE AdvanceTokens
  <2>1. PICK cut \in SUBSET Nodes, new \in SUBSET Nodes, e \in {"waiting", "succeeded", "failed"} :
          book' = Moved(copy, cut, new, e)
    BY <1>3 DEF AdvanceTokens, Moves, Live
  <2>2. IsMoved(copy, cut, new, e, book')
    BY <1>0, <2>1, MovedFields
  <2>3. a \in copy.linked
    BY <1>0, <1>3 DEF AdvanceTokens, CopyInv
  <2> QED BY <2>2, <2>3 DEF IsMoved
<1>4. CASE book' = book
  BY <1>4
<1> QED BY <1>1, <1>2, <1>3, <1>4, BookChanges

\* An activity that waits for a run that goes on waits for it still.
LEMMA WaitingStays ==
  ASSUME IInv, SaveInv, [Next]_vars, NEW a \in book.linked,
         child[a] \in TaskOpen, book.act[a] = "waiting"
  PROVE  book'.act[a] = "waiting"
<1> USE DEF IInv, Inv
<1>0. book \in Books /\ copy \in Books /\ a \in Acts
  BY DEF TypeOK, Books
<1>1. CASE (\E x \in Waits : Accept(x)) \/ Stop
  BY <1>0, <1>1 DEF Accept, Stop, Books
<1>2. CASE \E b \in Acts : Submit(b)
  <2>1. PICK b \in Acts : Submit(b)
    BY <1>2
  <2>2. KindOf[a] = "action"
    BY <1>0 DEF BookOK
  <2> QED BY <1>0, <2>1, <2>2 DEF Submit, Books
<1>3. CASE Link \/ Save
  <2>1. SaveAct /\ pc \in {"link", "save"}
    BY <1>3 DEF Link, Save
  <2>2. at \in Acts
    BY <2>1 DEF LoopInv, Advancing
  <2>3. a = at => copy.act[a] = "waiting"
    <3>1. CASE pc = "link"
      BY <1>0, <3>1 DEF CopyInv
    <3>2. CASE pc = "save" /\ a = at
      <4>1. a \in copy.linked
        BY <1>0, <3>2 DEF CopyInv
      <4>2. copy.act[a] \in ActOpen
        BY <1>0, <4>1 DEF BookOK
      <4> QED BY <3>2, <4>2 DEF SaveInv, ActOpen
    <3> QED BY <2>1, <3>1, <3>2
  <2> QED BY <1>0, <2>1, <2>2, <2>3, SaveActFields DEF Books
<1>4. CASE AdvanceTokens
  <2>1. PICK cut \in SUBSET Nodes, new \in SUBSET Nodes, e \in {"waiting", "succeeded", "failed"} :
          /\ book' = Moved(copy, cut, new, e)
          /\ new \subseteq {n \in Nodes : copy.token[n] = "none"}
    BY <1>4 DEF AdvanceTokens, Moves, Live
  <2>2. IsMoved(copy, cut, new, e, book')
    BY <1>0, <2>1, MovedFields
  <2>3. copy.act[a] = "waiting"
    BY <1>0, <1>4 DEF AdvanceTokens, CopyInv
  <2>4. copy.token[a] # "none"
    BY <1>0, <2>3 DEF BookOK
  <2> QED BY <1>0, <2>1, <2>2, <2>3, <2>4 DEF IsMoved
<1>5. CASE book' = book
  BY <1>5
<1> QED BY <1>1, <1>2, <1>3, <1>4, <1>5, BookChanges

\* What a task run has come to is never changed.
LEMMA FinalStays ==
  ASSUME IInv, [Next]_vars, NEW a \in Acts, child[a] \in Terminal
  PROVE  child'[a] = child[a]
<1> USE DEF IInv, Inv
<1>1. CASE \E b \in Acts : Authorise(b) \/ Carry(b) \/ StrayCall(b)
  <2>1. TaskMoves
    BY <1>1, TaskSteps
  <2> QED BY <2>1 DEF TaskMoves, Terminal, TaskOpen
<1>2. CASE StartTask
  BY <1>2 DEF StartTask, StartChild, TypeOK, Terminal
<1>3. CASE Cancel \/ Expire \/ (\E x \in Waits : Accept(x)) \/ (\E b \in Acts : Submit(b))
  BY <1>3 DEF Cancel, Expire, Accept, Submit, tasks
<1>4. CASE Enter \/ Throw \/ LoseSession \/ UNCHANGED vars
  BY <1>4 DEF Enter, Throw, LoseSession, tasks, vars
<1>5. CASE Advance /\ ~StartTask
  BY <1>5 DEF Advance, AdvanceTokens, StopNext, Pick, Look, Link, Ask, Save, Stop, Swept,
              Postpone, Complete, Finish, Wait, tasks
<1> QED BY <1>1, <1>2, <1>3, <1>4, <1>5 DEF Next

\* A task run that has ended is not open again.
LEMMA ChildStays ==
  ASSUME IInv, [Next]_vars, NEW a \in book.linked, child'[a] \in TaskOpen
  PROVE  child[a] \in TaskOpen
<1> USE DEF IInv, Inv
<1>0. a \in Acts /\ child \in [Acts -> {"absent"} \cup TaskOpen \cup Terminal]
  BY DEF TypeOK, Books
<1>1. child[a] # "absent"
  BY <1>0 DEF BookOK
<1>2. ASSUME child[a] \in Terminal PROVE FALSE
  <2>1. child'[a] = child[a]
    BY <1>0, <1>2, FinalStays
  <2> QED BY <1>2, <2>1 DEF Terminal, TaskOpen
<1> QED BY <1>0, <1>1, <1>2

\* The activity that names an open task run is not delivered, and its run is open.
LinkedOpen ==
  \A a \in book.linked :
    child[a] \in TaskOpen => status \in Open /\ a \notin book.delivered

LEMMA LinkedOpenHolds == IInv => LinkedOpen
<1> SUFFICES ASSUME IInv, NEW a \in book.linked, child[a] \in TaskOpen
             PROVE  status \in Open /\ a \notin book.delivered
  BY DEF LinkedOpen
<1> USE DEF IInv, Inv
<1>0. a \in Acts
  BY DEF TypeOK, Books
<1>1. book.act[a] \in ActOpen
  BY <1>0 DEF BookOK
<1>2. a \notin book.delivered
  BY <1>0, <1>1 DEF BookOK, ActOpen, Settled
<1>3. status \in Open
  BY <1>0 DEF TypeOK, EndInv, Quiet
<1> QED BY <1>2, <1>3

\* A task run that pendingActionIds() lists is listed until it has ended, whatever
\* becomes of its workflow run, and it is named for good. It is on this that
\* TaskExecution relies for the fairness of the queue.
THEOREM ListedUntilOver ==
  Spec => [][\A a \in Acts :
               /\ a \in book.linked => a \in book'.linked
               /\ Listed(a) /\ child'[a] \in TaskOpen => Listed(a)']_vars
<1> DEFINE Stays == \A a \in Acts :
                      /\ a \in book.linked => a \in book'.linked
                      /\ Listed(a) /\ child'[a] \in TaskOpen => Listed(a)'
<1>1. ASSUME IInv, LinkedOpen', SaveInv, [Next]_vars PROVE Stays
  <2> SUFFICES ASSUME NEW a \in Acts
               PROVE  /\ a \in book.linked => a \in book'.linked
                      /\ Listed(a) /\ child'[a] \in TaskOpen => Listed(a)'
    OBVIOUS
  <2>1. a \in book.linked => a \in book'.linked
    BY <1>1, LinkStays
  <2>2. ASSUME Listed(a), child'[a] \in TaskOpen PROVE Listed(a)'
    <3>1. child[a] \in TaskOpen
      BY <1>1, <2>2, ChildStays DEF Listed
    <3>2. book'.act[a] = "waiting"
      BY <1>1, <2>2, <3>1, WaitingStays DEF Listed
    <3>3. a \in book'.linked
      BY <2>1, <2>2 DEF Listed
    <3>4. status' \in Open /\ a \notin book'.delivered
      BY <1>1, <2>2, <3>3 DEF LinkedOpen
    <3> QED BY <3>2, <3>3, <3>4 DEF Listed
  <2> QED BY <2>1, <2>2
<1>2. IInv /\ LinkedOpen' /\ SaveInv /\ [Next]_vars => [Stays]_vars
  BY <1>1
<1>3. Init => SaveInv
  BY DEF Init, SaveInv
<1> HIDE DEF Stays
<1>4. Spec => [][Stays]_vars
  BY <1>2, <1>3, SaveInvStep, LinkedOpenHolds, Invariance, PTL DEF Spec
<1> QED BY <1>4 DEF Stays
=============================================================================
