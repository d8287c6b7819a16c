------------------------ MODULE SocketService_proofs ------------------------
(***************************************************************************)
(* SocketLifecycle implements SocketService: every step of the socket is a *)
(* step of its service, or leaves what scripts know as it is.              *)
(***************************************************************************)
EXTENDS SocketLifecycle_proofs

(* Beyond SocketInv: which event the handler in hand has said, and that     *)
(* only a connection that scripts have heard of is read.                    *)
TurnInv ==
  /\ cont = "none" => event = "none"
  /\ cont = "thenClose" => event \in {"none", "error"}
  /\ ReadsOut > 0 \/ cont \in {"afterConnect", "afterData", "thenClose"} =>
       "connect" \in said

ServiceStep == [Service!Next]_Service!vars

------------------------------------------------------------------------------
(* What the calls are that have no answer yet.                             *)

LEMMA AskedIs ==
  Asked = [c \in {"connect", "write"} |-> IF c = "connect" THEN Connects ELSE WritesOut]
BY DEF Asked, Connects, WritesOut

LEMMA AskedSame ==
  ASSUME Connects' = Connects, WritesOut' = WritesOut
  PROVE  Asked' = Asked
BY AskedIs DEF Connects, WritesOut, Asked

LEMMA AskedMore ==
  ASSUME NEW c \in {"connect", "write"},
         Connects' = Connects + One(c = "connect"), WritesOut' = WritesOut + One(c = "write"),
         TypeOK
  PROVE  Asked' = [Asked EXCEPT ![c] = @ + 1]
<1>1. Connects \in Nat /\ WritesOut \in Nat
  BY Counts DEF CountsAreNat
<1>2. Asked' = [d \in {"connect", "write"} |-> IF d = "connect" THEN Connects' ELSE WritesOut']
  BY DEF Asked, Connects, WritesOut
<1> QED
  BY <1>1, <1>2, AskedIs DEF One

LEMMA AskedLess ==
  ASSUME NEW c \in {"connect", "write"},
         Connects' = Connects - One(c = "connect"), WritesOut' = WritesOut - One(c = "write"),
         TypeOK
  PROVE  Asked' = [Asked EXCEPT ![c] = @ - 1]
<1>1. Connects \in Nat /\ WritesOut \in Nat
  BY Counts DEF CountsAreNat
<1>2. Asked' = [d \in {"connect", "write"} |-> IF d = "connect" THEN Connects' ELSE WritesOut']
  BY DEF Asked, Connects, WritesOut
<1> QED
  BY <1>1, <1>2, AskedIs DEF One

(* A handler's operation is one of those outstanding.                       *)
LEMMA TakenWasOut ==
  ASSUME TypeOK, NEW k \in Kinds, NEW r \in Results, Take(k, r)
  PROVE  /\ Outstanding(k) > 0
         /\ k \in {"connect", "write"} => Asked[k] > 0
<1>1. ops[k][r] > 0
  BY DEF Take
<1>2. /\ ops[k].pending \in Nat /\ ops[k].ok \in Nat
      /\ ops[k].error \in Nat /\ ops[k].aborted \in Nat
  BY SlotTypes
<1>3. Outstanding(k) > 0
  BY <1>1, <1>2 DEF Outstanding, Results
<1> QED
  BY <1>3 DEF Asked

(* A handler answers one call, or none if it is a read's.                   *)
LEMMA HandlerAnswers ==
  ASSUME TypeOK, NEW k \in Kinds, NEW r \in Results, Take(k, r)
  PROVE  /\ k = "read" => Asked' = Asked /\ ReadsOut > 0
         /\ k \in {"connect", "write"} => Service!Answer(k)
         /\ ReadsOut' > 0 => ReadsOut > 0
<1>1. /\ Connects' = Connects - One(k = "connect")
      /\ ReadsOut' = ReadsOut - One(k = "read")
      /\ WritesOut' = WritesOut - One(k = "write")
  BY Taken
<1>2. Connects \in Nat /\ ReadsOut \in Nat /\ WritesOut \in Nat
  BY Counts DEF CountsAreNat
<1>3. CASE k = "read"
  <2>1. Connects' = Connects /\ WritesOut' = WritesOut
    BY <1>1, <1>2, <1>3 DEF One
  <2>2. ReadsOut > 0
    BY <1>3, TakenWasOut DEF ReadsOut
  <2> QED BY <1>3, <2>1, <2>2, AskedSame
<1>4. CASE k \in {"connect", "write"}
  <2>1. Asked' = [Asked EXCEPT ![k] = @ - 1]
    BY <1>1, <1>4, AskedLess
  <2>2. Asked[k] > 0
    BY <1>4, TakenWasOut
  <2>3. ReadsOut' = ReadsOut
    BY <1>1, <1>2, <1>4 DEF One
  <2> QED BY <1>4, <2>1, <2>2, <2>3 DEF Service!Answer
<1> QED
  BY <1>3, <1>4 DEF Kinds

------------------------------------------------------------------------------
(* Steps that scripts learn nothing from.                                  *)

LEMMA Unnoticed ==
  ASSUME TurnInv, CountsKept, UNCHANGED <<said, event, cont, finalized, Reconnected>>
  PROVE  TurnInv' /\ ServiceStep
<1>1. Asked' = Asked /\ ReadsOut' = ReadsOut
  BY AskedSame DEF CountsKept
<1>2. Speaking' = Speaking
  BY DEF Speaking
<1> QED
  BY <1>1, <1>2 DEF TurnInv, ServiceStep, Service!vars

LEMMA QuietStep ==
  ASSUME SocketInv, TurnInv,
         \/ ConnectBadAddress \/ Close \/ Drop \/ (\E e \in Events : On(e))
         \/ Network \/ ListenerReturns \/ Destroy \/ Drained \/ Cleanup \/ CleanupOfDeleted
         \/ UNCHANGED vars
  PROVE  TurnInv' /\ ServiceStep
<1>1. TypeOK /\ Reading
  BY DEF SocketInv
<1>2. UNCHANGED <<said, event, cont, finalized, Reconnected>>
  <2>1. UNCHANGED <<said, event, cont, finalized>>
    BY DEF ConnectBadAddress, Close, Drop, On, Network, Complete, ListenerReturns, Destroy,
           Drained, Cleanup, CleanupOfDeleted, Call, object, control, vars
  <2>2. used' = used \/ (\E x \in {"connect", "badHost", "close", "drop", "replace"} :
                          used' \in {used \union {x}, used \union {"connect", "badHost"}})
    BY DEF ConnectBadAddress, Close, Drop, On, Network, Complete, ListenerReturns, Destroy,
           Drained, Cleanup, CleanupOfDeleted, Call, Risk, vars
  <2> QED BY <2>1, <2>2 DEF Reconnected
<1>3. CASE ConnectBadAddress \/ Drop \/ (\E e \in Events : On(e)) \/ ListenerReturns
           \/ Drained \/ CleanupOfDeleted \/ UNCHANGED vars
  <2>1. ops' = ops
    BY <1>3 DEF ConnectBadAddress, Drop, On, ListenerReturns, Drained, CleanupOfDeleted, vars
  <2> QED BY <1>1, <1>2, <2>1, OpsKept, Unnoticed
<1>4. CASE Close
  BY <1>1, <1>2, <1>4, Cancelled, Unnoticed DEF Close
<1>5. CASE Network
  <2>1. PICK k \in Kinds, r \in Results : Complete(k, r)
    BY <1>5 DEF Network
  <2>2. /\ ops' \in [Kinds -> OpsType]
        /\ Connects' = Connects /\ ReadsOut' = ReadsOut /\ WritesOut' = WritesOut
    BY <1>1, <2>1, Finished DEF Complete
  <2>3. Asked' = Asked
    BY <2>2, AskedSame
  <2>4. Speaking' = Speaking
    BY <1>2 DEF Speaking
  <2> QED BY <1>2, <2>2, <2>3, <2>4 DEF TurnInv, ServiceStep, Service!vars
<1>6. CASE Destroy
  <2>1. CASE registered
    BY <1>1, <1>2, <1>6, <2>1, Cancelled, Unnoticed DEF Destroy
  <2>2. CASE ~registered
    BY <1>1, <1>2, <1>6, <2>2, OpsKept, Unnoticed DEF Destroy
  <2> QED BY <2>1, <2>2
<1>7. CASE Cleanup
  BY <1>1, <1>2, <1>7, AbortedAll, Unnoticed DEF Cleanup, Delete
<1> QED
  BY <1>3, <1>4, <1>5, <1>6, <1>7

------------------------------------------------------------------------------
(* Calls and collection.                                                   *)

(* connect() and write() ask; the script that calls holds the object, so it *)
(* was not collected.                                                       *)
LEMMA AskStep ==
  ASSUME SocketInv, TurnInv, Connect \/ Write
  PROVE  TurnInv' /\ ServiceStep
<1>1. TypeOK /\ held /\ ~finalized
  BY DEF SocketInv, Control, Connect, AskConnect, Write, AskWrite, Call
<1>2. UNCHANGED <<said, event, cont, finalized>>
  BY DEF Connect, AskConnect, Write, AskWrite, Call, object, control
<1>3. Speaking' = Speaking
  BY <1>2 DEF Speaking
<1>4. PICK c \in {"connect", "write"}, s \in {"pending", "ok", "error"} :
        Start(c, s) /\ (c = "connect" => Connect) /\ (c = "write" => Write)
  BY DEF Connect, AskConnect, Write, AskWrite
<1>5. c \in Kinds
  BY DEF Kinds
<1>6. /\ Connects' = Connects + One(c = "connect")
      /\ ReadsOut' = ReadsOut + One(c = "read")
      /\ WritesOut' = WritesOut + One(c = "write")
  BY <1>1, <1>4, <1>5, Started
<1>7. ReadsOut' = ReadsOut
  BY <1>1, <1>6, Counts DEF CountsAreNat, One
<1>8. Asked' = [Asked EXCEPT ![c] = @ + 1]
  BY <1>1, <1>6, AskedMore
<1>10. Reconnected' \in {Reconnected, Reconnected \/ (c = "connect" /\ Service!MayBeLinked)}
  <2>1. CASE c = "write"
    BY <1>4, <2>1 DEF Write, AskWrite, Call, Reconnected
  <2>2. CASE c = "connect" /\ ~link
    BY <1>4, <2>2 DEF Connect, AskConnect, Call, Risk, Reconnected
  <2>3. CASE c = "connect" /\ link
    <3>1. Reconnected'
      BY <1>4, <2>3 DEF Connect, AskConnect, Call, Risk, Reconnected
    <3>2. ConnectsDone > 0 \/ "connect" \in said
      BY <2>3 DEF SocketInv, Reading
    <3>3. ConnectsDone > 0 => Asked["connect"] > 0
      BY <1>1, AskedIs, Counts DEF CountsAreNat
    <3> QED BY <2>3, <3>1, <3>2, <3>3 DEF Service!MayBeLinked
  <2> QED BY <2>1, <2>2, <2>3
<1>9. Service!Ask(c)
  BY <1>1, <1>2, <1>3, <1>8, <1>10 DEF Service!Ask
<1> QED
  BY <1>2, <1>7, <1>9 DEF TurnInv, ServiceStep, Service!Next, Service!AskedCalls

LEMMA FinalizeRefines ==
  ASSUME SocketInv, TurnInv, Finalize \/ (OthersTurn /\ finalized' # finalized)
  PROVE  TurnInv' /\ ServiceStep
<1>1. TypeOK /\ Reading
  BY DEF SocketInv
<1>2. CountsKept
  BY <1>1, Cancelled, AbortedAll DEF Finalize, OthersTurn, Finalizer, Delete
<1>3. Asked' = Asked /\ ReadsOut' = ReadsOut
  BY <1>2, AskedSame DEF CountsKept
<1>4. /\ ~finalized /\ finalized' = TRUE
      /\ UNCHANGED <<said, event, cont, Reconnected>>
  BY DEF Finalize, OthersTurn, Finalizer, Garbage, Risk, Reconnected, control
<1>5. Speaking' = Speaking
  BY <1>4 DEF Speaking
<1>6. Service!Collect
  BY <1>1, <1>3, <1>4, <1>5 DEF Service!Collect, TypeOK
<1> QED
  BY <1>3, <1>4, <1>6 DEF TurnInv, ServiceStep, Service!Next

LEMMA OthersTurnRefines ==
  ASSUME SocketInv, TurnInv, OthersTurn
  PROVE  TurnInv' /\ ServiceStep
<1>1. CASE finalized' = finalized
  <2>1. TypeOK /\ pins \in Nat
    BY Counts DEF SocketInv, CountsAreNat
  <2>2. ops' = ops
    BY <1>1, <2>1 DEF OthersTurn, Finalizer, TypeOK
  <2>3. UNCHANGED <<said, event, cont, Reconnected>>
    BY DEF OthersTurn, Risk, Reconnected, control
  <2> QED BY <1>1, <2>1, <2>2, <2>3, OpsKept, Unnoticed
<1> QED
  BY <1>1, FinalizeRefines

------------------------------------------------------------------------------
(* Handlers.                                                               *)

(* A handler begins a turn: nothing is being said.                          *)
LEMMA TurnBegins ==
  ASSUME SocketInv, TurnInv, NEW k \in Kinds, NEW r \in Results, Take(k, r)
  PROVE  TypeOK /\ cont = "none" /\ event = "none" /\ Speaking = "none"
BY DEF SocketInv, Control, TurnInv, Take, Speaking

(* ConnectOk never meets a finalized object that still exists: no operation *)
(* of such a one is outstanding (Pinning).                                  *)
LEMMA ConnectOkRefines ==
  ASSUME SocketInv, TurnInv, ConnectOk
  PROVE  TurnInv' /\ ServiceStep
<1>1. Take("connect", "ok") /\ "connect" \in Kinds /\ "ok" \in Results
  BY DEF ConnectOk, Handler, Kinds, Results
<1>2. TypeOK /\ cont = "none" /\ event = "none" /\ Speaking = "none"
  BY <1>1, TurnBegins
<1>3. /\ cont' = "afterConnect" /\ event' = "connect"
      /\ said' = said \union {"connect"} /\ finalized' = finalized
      /\ Reconnected' = Reconnected
      /\ alive /\ fault = "none" /\ phase \in {"running", "draining"}
  BY DEF ConnectOk, Handler, Emit, Take, Reconnected
<1>4. ~finalized
  <2>1. finalized => Owed = 0
    BY <1>3 DEF SocketInv, Pinning
  <2>2. Owed > 0
    <3>1. Connects > 0
      BY <1>1, <1>2, TakenWasOut DEF Connects
    <3>2. Connects \in Nat /\ ReadsOut \in Nat /\ WritesOut \in Nat
      BY <1>2, Counts DEF CountsAreNat
    <3> QED BY <3>1, <3>2 DEF Owed, One
  <2> QED BY <2>1, <2>2
<1>5. Service!Answer("connect")
  BY <1>1, <1>2, HandlerAnswers
<1>6. Speaking' = "connect"
  BY <1>3 DEF Speaking
<1>7. Service!Connected
  BY <1>2, <1>3, <1>4, <1>5, <1>6 DEF Service!Connected, Service!Say
<1> QED
  BY <1>3, <1>7 DEF TurnInv, ServiceStep, Service!Next

(* A connect or a write that fails says so, unless the object is lost.      *)
LEMMA FailRefines ==
  ASSUME SocketInv, TurnInv, NEW r \in Results, ConnectFails(r) \/ WriteFails(r)
  PROVE  TurnInv' /\ ServiceStep
<1>1. PICK c \in {"connect", "write"} : Handler(c, r) /\ HandleError("end")
  BY DEF ConnectFails, WriteFails
<1>2. Take(c, r) /\ c \in Kinds
  BY <1>1 DEF Handler, Kinds
<1>3. TypeOK /\ cont = "none" /\ event = "none" /\ Speaking = "none"
  BY <1>2, TurnBegins
<1>4. /\ cont' = "end" /\ finalized' = finalized /\ Reconnected' = Reconnected
      /\ finalized => event' = "none" /\ said' = said
      /\ ~finalized => event' = "error" /\ said' = said \union {"error"}
  BY <1>1 DEF Handler, Take, HandleError, Emit, GoOn, Reconnected
<1>5. Service!Answer(c) /\ (ReadsOut' > 0 => ReadsOut > 0)
  BY <1>2, <1>3, HandlerAnswers
<1>6. TurnInv'
  BY <1>4, <1>5 DEF TurnInv
<1>7. Speaking' = event'
  BY <1>4 DEF Speaking
<1>8. CASE finalized
  <2>1. Service!Silently(c)
    BY <1>3, <1>4, <1>5, <1>7, <1>8 DEF Service!Silently
  <2> QED BY <1>6, <2>1 DEF ServiceStep, Service!Next, Service!AskedCalls
<1>9. CASE ~finalized
  <2>1. Service!Failed(c)
    BY <1>3, <1>4, <1>5, <1>7, <1>9 DEF Service!Failed, Service!Say
  <2> QED BY <1>6, <2>1 DEF ServiceStep, Service!Next, Service!AskedCalls
<1> QED
  BY <1>8, <1>9

LEMMA WriteOkRefines ==
  ASSUME SocketInv, TurnInv, WriteOk
  PROVE  TurnInv' /\ ServiceStep
<1>1. Take("write", "ok") /\ "write" \in Kinds /\ "ok" \in Results
  BY DEF WriteOk, Handler, Kinds, Results
<1>2. TypeOK
  BY DEF SocketInv
<1>3. UNCHANGED <<said, event, cont, finalized, Reconnected>>
  BY DEF WriteOk, Handler, Take, Reconnected, control
<1>4. Service!Answer("write") /\ (ReadsOut' > 0 => ReadsOut > 0)
  BY <1>1, <1>2, HandlerAnswers
<1>5. Speaking' = Speaking
  BY <1>3 DEF Speaking
<1>6. Service!Silently("write")
  BY <1>3, <1>4, <1>5 DEF Service!Silently
<1> QED
  BY <1>3, <1>4, <1>6 DEF TurnInv, ServiceStep, Service!Next, Service!AskedCalls

(* The handler of a deleted socket: its object was finalized.               *)
LEMMA StaleRefines ==
  ASSUME SocketInv, TurnInv, NEW k \in Kinds, NEW r \in Results, StaleHandler(k, r)
  PROVE  TurnInv' /\ ServiceStep
<1>1. Take(k, r) /\ TypeOK
  BY DEF StaleHandler, SocketInv
<1>2. UNCHANGED <<said, event, cont, finalized, Reconnected>> /\ finalized
  BY DEF StaleHandler, Take, Reconnected, control, object, SocketInv, Control
<1>3. /\ k = "read" => Asked' = Asked
      /\ k \in {"connect", "write"} => Service!Answer(k)
      /\ ReadsOut' > 0 => ReadsOut > 0
  BY <1>1, HandlerAnswers
<1>4. TurnInv'
  BY <1>2, <1>3 DEF TurnInv
<1>5. Speaking' = Speaking
  BY <1>2 DEF Speaking
<1>6. CASE k = "read"
  BY <1>2, <1>3, <1>4, <1>5, <1>6 DEF ServiceStep, Service!vars
<1>7. CASE k \in {"connect", "write"}
  <2>1. Service!Silently(k)
    BY <1>2, <1>3, <1>5, <1>7 DEF Service!Silently
  <2> QED BY <1>4, <1>7, <2>1 DEF ServiceStep, Service!Next, Service!AskedCalls
<1> QED
  BY <1>6, <1>7 DEF Kinds

(* While a read is outstanding or in hand, the stream has begun and has not *)
(* been closed.                                                             *)
LEMMA ReadMeansStreaming ==
  ASSUME SocketInv, TurnInv, ReadsOut > 0 \/ cont \in {"afterData", "thenClose"}
  PROVE  Service!Streaming
<1>1. ReadsOut \in Nat
  BY Counts DEF CountsAreNat, SocketInv
<1>2. ReadsInHand # 0
  BY <1>1 DEF ReadsInHand, One
<1> QED
  BY <1>2 DEF SocketInv, Reading, OneStream, TurnInv, Service!Streaming

LEMMA ReadRefines ==
  ASSUME SocketInv, TurnInv, NEW r \in Results, ReadOk \/ ReadFails(r)
  PROVE  TurnInv' /\ ServiceStep
<1>1. PICK q \in Results : Handler("read", q)
  BY DEF ReadOk, ReadFails, Results
<1>2. Take("read", q) /\ "read" \in Kinds
  BY <1>1 DEF Handler, Kinds
<1>3. TypeOK /\ cont = "none" /\ event = "none" /\ Speaking = "none"
  BY <1>2, TurnBegins
<1>4. Asked' = Asked /\ ReadsOut > 0
  BY <1>2, <1>3, HandlerAnswers
<1>5. Service!Streaming
  BY <1>4, ReadMeansStreaming
<1>6. /\ finalized' = finalized /\ cont' \in {"afterData", "thenClose"}
      /\ Reconnected' = Reconnected
  BY <1>1 DEF Handler, Take, ReadOk, ReadFails, HandleError, Emit, GoOn, Reconnected
<1>7. CASE event' = "none" /\ said' = said
  <2>1. Speaking' = Speaking
    BY <1>3, <1>7 DEF Speaking
  <2> QED BY <1>3, <1>4, <1>5, <1>6, <1>7, <2>1
          DEF TurnInv, ServiceStep, Service!vars, Service!Streaming
<1>8. CASE ReadOk /\ ~finalized
  <2>1. /\ event' = "data" /\ said' = said \union {"data"}
        /\ cont' = "afterData"
    BY <1>8 DEF ReadOk, Emit
  <2>2. Speaking' = "data"
    BY <2>1 DEF Speaking
  <2>3. Service!Data
    BY <1>3, <1>4, <1>5, <1>6, <1>8, <2>1, <2>2 DEF Service!Data, Service!Say
  <2> QED BY <1>5, <2>1, <2>3 DEF TurnInv, ServiceStep, Service!Next, Service!Streaming
<1>9. CASE ReadFails(r) /\ r # "aborted" /\ ~finalized
  <2>1. /\ event' = "error" /\ said' = said \union {"error"}
        /\ cont' = "thenClose"
    BY <1>9 DEF ReadFails, HandleError, Emit
  <2>2. Speaking' = "failure"
    BY <2>1 DEF Speaking
  <2>3. Service!StreamFails
    BY <1>3, <1>4, <1>5, <1>6, <1>9, <2>1, <2>2 DEF Service!StreamFails, Service!Say
  <2> QED BY <1>5, <2>1, <2>3 DEF TurnInv, ServiceStep, Service!Next, Service!Streaming
<1>10. (ReadOk /\ finalized) \/ (ReadFails(r) /\ (r = "aborted" \/ finalized)) =>
         event' = "none" /\ said' = said
  BY DEF ReadOk, ReadFails, HandleError, GoOn
<1> QED
  BY <1>7, <1>8, <1>9, <1>10

(* "close" ends the stream, alone or after the error of the same turn.      *)
LEMMA HandleCloseRefines ==
  ASSUME SocketInv, TurnInv, HandleClose
  PROVE  TurnInv' /\ ServiceStep
<1>1. /\ cont = "thenClose" /\ cont' = "afterClose" /\ ops' = ops
      /\ finalized' = finalized /\ Reconnected' = Reconnected /\ TypeOK
  BY DEF HandleClose, At, Emit, GoOn, SocketInv, Reconnected
<1>2. Asked' = Asked /\ ReadsOut' = ReadsOut
  BY <1>1, OpsKept, AskedSame DEF CountsKept
<1>3. Service!Streaming /\ event \in {"none", "error"}
  BY <1>1, ReadMeansStreaming DEF TurnInv
<1>4. Speaking \in {"none", "failure"} /\ Speaking' = event'
  BY <1>1, <1>3 DEF Speaking
<1>5. CASE finalized
  <2>1. event' = "none" /\ said' = said
    BY <1>5 DEF HandleClose, GoOn
  <2>2. TurnInv'
    BY <1>1, <1>2, <2>1 DEF TurnInv
  <2>3. CASE Speaking = "none"
    BY <1>1, <1>2, <1>4, <2>1, <2>2, <2>3 DEF ServiceStep, Service!vars
  <2>4. CASE Speaking = "failure"
    <3>1. Service!TurnEnds
      BY <1>1, <1>2, <1>4, <1>5, <2>1, <2>4 DEF Service!TurnEnds
    <3> QED BY <2>2, <3>1 DEF ServiceStep, Service!Next
  <2> QED BY <1>4, <2>3, <2>4
<1>6. CASE ~finalized
  <2>1. event' = "close" /\ said' = said \union {"close"}
    BY <1>6 DEF HandleClose, Emit
  <2>2. Service!StreamEnds
    BY <1>1, <1>2, <1>3, <1>4, <1>6, <2>1 DEF Service!StreamEnds, Service!Say
  <2> QED BY <1>1, <1>2, <2>1, <2>2 DEF TurnInv, ServiceStep, Service!Next
<1> QED
  BY <1>5, <1>6

(* A handler that returns ends the turn, if it has said anything.           *)
LEMMA HandlerEndsRefines ==
  ASSUME SocketInv, TurnInv, ReadOn \/ AfterClose \/ AfterError
  PROVE  TurnInv' /\ ServiceStep
<1>1. /\ TypeOK /\ cont # "thenClose"
      /\ cont' = "none" /\ event' = "none" /\ said' = said /\ finalized' = finalized
      /\ Reconnected' = Reconnected
  BY DEF SocketInv, ReadOn, AfterClose, AfterError, At, HandlerEnds, object, Reconnected
<1>2. Asked' = Asked /\ (ReadsOut' > 0 => ReadsOut > 0 \/ ReadOn)
  <2>1. CASE ops' = ops
    BY <1>1, <2>1, OpsKept, AskedSame DEF CountsKept
  <2>2. CASE ops' = Aborted
    BY <1>1, <2>2, AbortedAll, AskedSame DEF CountsKept
  <2>3. CASE ReadOn /\ ops' # ops
    <3>1. PICK s \in {"pending", "error"} : Start("read", s)
      BY <2>3 DEF ReadOn
    <3>2. Connects' = Connects + One(FALSE) /\ WritesOut' = WritesOut + One(FALSE)
      BY <1>1, <3>1, Started DEF Kinds
    <3>3. Connects' = Connects /\ WritesOut' = WritesOut
      BY <1>1, <3>2, Counts DEF CountsAreNat, One
    <3> QED BY <2>3, <3>3, AskedSame
  <2> QED BY <2>1, <2>2, <2>3 DEF AfterClose, AfterError, Delete
<1>3. TurnInv'
  BY <1>1, <1>2 DEF TurnInv, ReadOn, At
<1>4. Speaking' = "none" /\ Speaking # "failure"
  BY <1>1 DEF Speaking, TypeOK
<1>5. CASE Speaking = "none"
  BY <1>1, <1>2, <1>3, <1>4, <1>5 DEF ServiceStep, Service!vars
<1>6. CASE Speaking # "none"
  <2>1. Service!TurnEnds
    BY <1>1, <1>2, <1>4, <1>6 DEF Service!TurnEnds
  <2> QED BY <1>3, <2>1 DEF ServiceStep, Service!Next
<1> QED
  BY <1>5, <1>6

------------------------------------------------------------------------------
(* Together.                                                               *)

LEMMA StepRefines == SocketInv /\ TurnInv /\ [Next]_vars => TurnInv' /\ ServiceStep
<1> SUFFICES ASSUME SocketInv, TurnInv, [Next]_vars PROVE TurnInv' /\ ServiceStep
  OBVIOUS
<1>1. CASE Script
  BY <1>1, AskStep, QuietStep, FinalizeRefines DEF Script
<1>2. CASE HandlerStep
  <2>1. "ok" \in Results
    BY DEF Results
  <2> QED BY <1>2, <2>1, ConnectOkRefines, FailRefines, WriteOkRefines, StaleRefines,
             ReadRefines, HandleCloseRefines, HandlerEndsRefines, QuietStep DEF HandlerStep
<1>3. CASE Network \/ Teardown \/ UNCHANGED vars
  BY <1>3, QuietStep, OthersTurnRefines DEF Teardown
<1> QED
  BY <1>1, <1>2, <1>3 DEF Next

(* A socket keeps the promises of SocketService, for any events and bounds: *)
(* whatever scripts call inside which listener and whenever the object is   *)
(* collected, each connect() is answered once, data comes after "connect"   *)
(* and, unless an established link was connected again, before "close", and *)
(* a stream that fails says "error" and then "close".                       *)
THEOREM SocketImplementsService == Spec => ImplementsSocketService
<1>1. Init => TurnInv /\ Service!Init
  <2> SUFFICES ASSUME Init PROVE TurnInv /\ Service!Init
    OBVIOUS
  <2>1. \A k \in Kinds : Outstanding(k) = 0
    BY DEF Init, Outstanding
  <2>2. ReadsOut = 0 /\ Asked = [c \in {"connect", "write"} |-> 0]
    BY <2>1 DEF ReadsOut, Asked, Kinds
  <2> QED BY <2>2 DEF Init, TurnInv, Speaking, Reconnected, Service!Init, Service!AskedCalls
<1>2. SocketInv /\ TurnInv /\ [Next]_vars => TurnInv' /\ [Service!Next]_Service!vars
  BY StepRefines DEF ServiceStep
<1> QED
  BY <1>1, <1>2, Invariant, PTL DEF Spec, ImplementsSocketService, Service!Spec
=============================================================================
