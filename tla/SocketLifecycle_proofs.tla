----------------------- MODULE SocketLifecycle_proofs -----------------------
(***************************************************************************)
(* Proofs about SocketLifecycle, for any set of events and any bounds.     *)
(*                                                                         *)
(* The invariant counts: the operations outstanding of each kind, and the  *)
(* handler that is being run, which still owes what its operation did.     *)
(***************************************************************************)
EXTENDS SocketLifecycle, TLAPS

ConnectsPending == ops["connect"].pending
ConnectsDone    == ops["connect"].ok
Connects        == Outstanding("connect")
ReadsOut        == Outstanding("read")
WritesOut       == Outstanding("write")
NonePending     == \A k \in Kinds : ops[k].pending = 0

One(cond) == IF cond THEN 1 ELSE 0

(* The reads that are outstanding or being handled.                         *)
ReadsInHand == ReadsOut + One(cont \in {"afterData", "thenClose"})

(* The right to start the next read: a connection that was just made has    *)
(* it, then the read, then the read's handler.                              *)
Tokens == ConnectsDone + ReadsOut + One(cont \in {"afterConnect", "afterData"})

(* What is outstanding, and what is being handled before its unpin.         *)
Owed == WritesOut + Connects + ReadsOut
          + One(cont \in {"afterConnect", "afterData", "thenClose"})

CountsAreNat ==
  /\ ConnectsPending \in Nat /\ ConnectsDone \in Nat
  /\ Connects \in Nat /\ ReadsOut \in Nat /\ WritesOut \in Nat
  /\ ConnectsDone <= Connects /\ pins \in Nat
  /\ NonePending => ConnectsPending = 0

(* A step that starts, completes and handles nothing.                       *)
CountsKept ==
  /\ ops' \in [Kinds -> OpsType]
  /\ Connects' = Connects /\ ReadsOut' = ReadsOut /\ WritesOut' = WritesOut
  /\ ConnectsDone' = ConnectsDone

(* Where a handler is, and what scripts have done to the object.            *)
Control ==
  /\ pc = "idle" <=> cont = "none"
  /\ phase \in {"cleanup", "gone"} => pc = "idle"
  /\ ~alive => finalized \/ phase = "gone"
  /\ registered /\ phase # "cleanup" => alive
  /\ finalized => ~held /\ pins = 0
  /\ held \/ "drop" \in used \/ "lent" \in used
  /\ "close" \in used => closed
  /\ WritesOut > 0 => "write" \in used

(* Reads, as long as no link is connected twice.  Once reading_ is FALSE it *)
(* stays so.                                                                *)
OneStream ==
  /\ link => ConnectsPending = 0
  /\ reading => Tokens <= 1
  /\ reading /\ ~link => Tokens = 0
  /\ ReadsInHand <= 1
  /\ cont = "thenClose" => ~reading
  /\ "close" \in said => ReadsInHand = 0 /\ ~reading

Reading ==
  /\ ~open => NonePending
  /\ ConnectsPending <= 1
  /\ open => alive
  /\ link => open /\ (ConnectsDone > 0 \/ "connect" \in said)
  /\ ~Reconnected => OneStream

(* Pins.                                                                    *)
Pinning ==
  fault = "none" /\ phase # "gone" =>
    /\ "close" \notin used => pins >= Owed
    /\ finalized /\ alive => ~closed /\ Owed = 0

(* The last conjunct takes nothing but the others to preserve.              *)
SocketInv == TypeOK /\ Control /\ Reading /\ Pinning /\ KeptSocketsAreSafe

------------------------------------------------------------------------------
(* Counting.                                                               *)

Slots == {"pending", "ok", "error", "aborted"}

LEMMA OpsAreFunctions == OpsType = [Slots -> Nat]
BY DEF OpsType, Slots

LEMMA Counts == TypeOK => CountsAreNat
<1> SUFFICES ASSUME TypeOK PROVE CountsAreNat
  OBVIOUS
<1>1. ops \in [Kinds -> [Slots -> Nat]]
  BY OpsAreFunctions DEF TypeOK
<1>2. \A k \in Kinds : /\ ops[k].pending \in Nat /\ ops[k].ok \in Nat
                       /\ ops[k].error \in Nat /\ ops[k].aborted \in Nat
  BY <1>1 DEF Slots
<1> QED
  BY <1>2, BoundsAssumption
     DEF TypeOK, Kinds, ConnectsPending, ConnectsDone, Connects, ReadsOut, WritesOut,
         Outstanding, NonePending, CountsAreNat

LEMMA SlotTypes ==
  ASSUME TypeOK, NEW k \in Kinds
  PROVE  /\ ops[k].pending \in Nat /\ ops[k].ok \in Nat
         /\ ops[k].error \in Nat /\ ops[k].aborted \in Nat
BY DEF TypeOK, OpsType

(* One slot of one kind goes up or down.                                    *)
Slot(k, s, n) == ops' = [ops EXCEPT ![k][s] = n]

LEMMA OneSlot ==
  ASSUME TypeOK, NEW k \in Kinds, NEW s \in Slots, NEW n \in Nat, Slot(k, s, n)
  PROVE  /\ ops' \in [Kinds -> OpsType]
         /\ \A j \in Kinds \ {k} : ops'[j] = ops[j]
         /\ \A t \in Slots \ {s} : ops'[k][t] = ops[k][t]
         /\ ops'[k][s] = n
BY OpsAreFunctions DEF TypeOK, Slot

(* The sums, of slots that are all numbers.                                 *)
LEMMA Sums ==
  ASSUME TypeOK, ops' \in [Kinds -> OpsType], NEW k \in Kinds, NEW s \in Slots,
         \A j \in Kinds \ {k} : ops'[j] = ops[j],
         \A t \in Slots \ {s} : ops'[k][t] = ops[k][t]
  PROVE  /\ \A j \in Kinds \ {k} : Outstanding(j)' = Outstanding(j)
         /\ Outstanding(k)' = Outstanding(k) + ops'[k][s] - ops[k][s]
<1>1. \A j \in Kinds, t \in Slots : ops[j][t] \in Nat /\ ops'[j][t] \in Nat
  BY OpsAreFunctions DEF TypeOK
<1>2. ASSUME NEW j \in Kinds \ {k} PROVE Outstanding(j)' = Outstanding(j)
  BY DEF Outstanding
<1>3. CASE s = "pending"
  <2>1. /\ ops'[k].ok = ops[k].ok
        /\ ops'[k].error = ops[k].error
        /\ ops'[k].aborted = ops[k].aborted
    BY <1>3 DEF Slots
  <2> QED BY <1>1, <1>2, <1>3, <2>1 DEF Outstanding, Slots
<1>4. CASE s = "ok"
  <2>1. /\ ops'[k].pending = ops[k].pending
        /\ ops'[k].error = ops[k].error
        /\ ops'[k].aborted = ops[k].aborted
    BY <1>4 DEF Slots
  <2> QED BY <1>1, <1>2, <1>4, <2>1 DEF Outstanding, Slots
<1>5. CASE s = "error"
  <2>1. /\ ops'[k].pending = ops[k].pending
        /\ ops'[k].ok = ops[k].ok
        /\ ops'[k].aborted = ops[k].aborted
    BY <1>5 DEF Slots
  <2> QED BY <1>1, <1>2, <1>5, <2>1 DEF Outstanding, Slots
<1>6. CASE s = "aborted"
  <2>1. /\ ops'[k].pending = ops[k].pending
        /\ ops'[k].ok = ops[k].ok
        /\ ops'[k].error = ops[k].error
    BY <1>6 DEF Slots
  <2> QED BY <1>1, <1>2, <1>6, <2>1 DEF Outstanding, Slots
<1> QED
  BY <1>2, <1>3, <1>4, <1>5, <1>6 DEF Slots

LEMMA Started ==
  ASSUME TypeOK, NEW k \in Kinds, NEW s \in {"pending", "ok", "error"}, Start(k, s)
  PROVE  /\ ops' \in [Kinds -> OpsType]
         /\ Connects' = Connects + One(k = "connect")
         /\ ReadsOut' = ReadsOut + One(k = "read")
         /\ WritesOut' = WritesOut + One(k = "write")
         /\ ConnectsDone' = ConnectsDone + One(k = "connect" /\ s = "ok")
         /\ ConnectsPending' = ConnectsPending + One(k = "connect" /\ s = "pending")
         /\ s # "pending" /\ NonePending => NonePending'
<1>1. Slot(k, s, ops[k][s] + 1)
  BY DEF Start, Slot
<1>2. s \in Slots /\ ops[k][s] \in Nat /\ ops[k][s] + 1 \in Nat
  BY OpsAreFunctions DEF TypeOK, Slots
<1>3. /\ ops' \in [Kinds -> OpsType]
      /\ \A j \in Kinds \ {k} : ops'[j] = ops[j]
      /\ \A t \in Slots \ {s} : ops'[k][t] = ops[k][t]
      /\ ops'[k][s] = ops[k][s] + 1
  BY <1>1, <1>2, OneSlot
<1>4. /\ \A j \in Kinds \ {k} : Outstanding(j)' = Outstanding(j)
      /\ Outstanding(k)' = Outstanding(k) + 1
  <2>1. Outstanding(k)' = Outstanding(k) + ops'[k][s] - ops[k][s]
    BY <1>2, <1>3, Sums
  <2>2. Outstanding(k) \in Nat
    BY Counts DEF CountsAreNat, Kinds, Connects, ReadsOut, WritesOut
  <2>3. \A j \in Kinds \ {k} : Outstanding(j)' = Outstanding(j)
    BY <1>2, <1>3, Sums
  <2> QED BY <1>2, <1>3, <2>1, <2>2, <2>3
<1>5. /\ Connects' = Connects + One(k = "connect")
      /\ ReadsOut' = ReadsOut + One(k = "read")
      /\ WritesOut' = WritesOut + One(k = "write")
  BY <1>4, Counts DEF CountsAreNat, Connects, ReadsOut, WritesOut, Kinds, One
<1>6. /\ ConnectsDone' = ConnectsDone + One(k = "connect" /\ s = "ok")
      /\ ConnectsPending' = ConnectsPending + One(k = "connect" /\ s = "pending")
  BY <1>3, Counts DEF CountsAreNat, Slots, ConnectsDone, ConnectsPending, Kinds, One
<1>7. s # "pending" /\ NonePending => NonePending'
  BY <1>3 DEF NonePending, Slots
<1> QED
  BY <1>3, <1>5, <1>6, <1>7

LEMMA Taken ==
  ASSUME TypeOK, NEW k \in Kinds, NEW r \in Results, Take(k, r)
  PROVE  /\ ops' \in [Kinds -> OpsType]
         /\ Connects' = Connects - One(k = "connect")
         /\ ReadsOut' = ReadsOut - One(k = "read")
         /\ WritesOut' = WritesOut - One(k = "write")
         /\ ConnectsDone' = ConnectsDone - One(k = "connect" /\ r = "ok")
         /\ ConnectsPending' = ConnectsPending
         /\ NonePending => NonePending'
<1>1. ops' = [ops EXCEPT ![k][r] = ops[k][r] - 1] /\ ops[k][r] > 0
  BY DEF Take
<1>2. r \in Slots /\ ops[k][r] \in Nat /\ ops[k][r] - 1 \in Nat
  <2>1. r \in Slots /\ ops[k][r] \in Nat
    BY OpsAreFunctions DEF TypeOK, Slots, Results
  <2> QED BY <1>1, <2>1
<1>3. /\ ops' \in [Kinds -> OpsType]
      /\ \A j \in Kinds \ {k} : ops'[j] = ops[j]
      /\ \A t \in Slots \ {r} : ops'[k][t] = ops[k][t]
      /\ ops'[k][r] = ops[k][r] - 1
  <2>1. PICK n \in Nat : n = ops[k][r] - 1
    BY <1>2
  <2>2. /\ ops' \in [Kinds -> OpsType]
        /\ \A j \in Kinds \ {k} : ops'[j] = ops[j]
        /\ \A t \in Slots \ {r} : ops'[k][t] = ops[k][t]
        /\ ops'[k][r] = n
    <3>1. ops' = [ops EXCEPT ![k][r] = n]
      BY <1>1, <2>1
    <3> QED BY <1>2, <3>1, OpsAreFunctions DEF TypeOK
  <2> QED BY <2>1, <2>2
<1>4. /\ \A j \in Kinds \ {k} : Outstanding(j)' = Outstanding(j)
      /\ Outstanding(k)' = Outstanding(k) - 1
  <2>1. Outstanding(k)' = Outstanding(k) + ops'[k][r] - ops[k][r]
    BY <1>2, <1>3, Sums
  <2>2. Outstanding(k) \in Nat
    BY Counts DEF CountsAreNat, Kinds, Connects, ReadsOut, WritesOut
  <2>3. \A j \in Kinds \ {k} : Outstanding(j)' = Outstanding(j)
    BY <1>2, <1>3, Sums
  <2> QED BY <1>2, <1>3, <2>1, <2>2, <2>3
<1>5. /\ Connects' = Connects - One(k = "connect")
      /\ ReadsOut' = ReadsOut - One(k = "read")
      /\ WritesOut' = WritesOut - One(k = "write")
  BY <1>4, Counts DEF CountsAreNat, Connects, ReadsOut, WritesOut, Kinds, One
<1>6. /\ ConnectsDone' = ConnectsDone - One(k = "connect" /\ r = "ok")
      /\ ConnectsPending' = ConnectsPending
  BY <1>3, Counts
        DEF CountsAreNat, Slots, Results, ConnectsDone, ConnectsPending, Kinds, One
<1>7. NonePending => NonePending'
  BY <1>3 DEF NonePending, Slots, Results
<1> QED
  BY <1>3, <1>5, <1>6, <1>7

LEMMA Finished ==
  ASSUME TypeOK, NEW k \in Kinds, NEW r \in {"ok", "error"}, ops[k].pending > 0,
         ops' = [ops EXCEPT ![k].pending = @ - 1, ![k][r] = @ + 1]
  PROVE  /\ ops' \in [Kinds -> OpsType]
         /\ Connects' = Connects /\ ReadsOut' = ReadsOut /\ WritesOut' = WritesOut
         /\ ConnectsDone' = ConnectsDone + One(k = "connect" /\ r = "ok")
         /\ ConnectsPending' = ConnectsPending - One(k = "connect")
         /\ ~NonePending
<1>1. ops \in [Kinds -> [Slots -> Nat]]
  BY OpsAreFunctions DEF TypeOK
<1>2. \A j \in Kinds, t \in Slots : ops[j][t] \in Nat
  BY <1>1
<1>3. ops[k].pending - 1 \in Nat /\ ops[k][r] + 1 \in Nat
  BY <1>2 DEF Slots
<1>4. /\ \A j \in Kinds \ {k} : ops'[j] = ops[j]
      /\ ops'[k].pending = ops[k].pending - 1
      /\ ops'[k].ok = ops[k].ok + One(r = "ok")
      /\ ops'[k].error = ops[k].error + One(r = "error")
      /\ ops'[k].aborted = ops[k].aborted
  <2>1. CASE r = "ok" BY <1>1, <2>1 DEF Slots, One
  <2>2. CASE r = "error" BY <1>1, <2>2 DEF Slots, One
  <2> QED BY <2>1, <2>2
<1>5. ops' \in [Kinds -> OpsType]
  <2>1. ops' \in [Kinds -> [Slots -> Nat]]
    BY <1>1, <1>3 DEF Slots
  <2> QED BY <2>1, OpsAreFunctions
<1>6. \A j \in Kinds : Outstanding(j)' = Outstanding(j)
  <2>1. Outstanding(k)' = Outstanding(k)
    <3>1. /\ ops[k].pending \in Nat /\ ops[k].ok \in Nat /\ ops[k].error \in Nat
          /\ ops[k].aborted \in Nat
      BY <1>2 DEF Slots
    <3> QED BY <1>4, <3>1 DEF Outstanding, One
  <2> QED BY <1>4, <2>1 DEF Outstanding
<1>7. /\ ConnectsDone' = ConnectsDone + One(k = "connect" /\ r = "ok")
      /\ ConnectsPending' = ConnectsPending - One(k = "connect")
  <2>1. CASE k = "connect" BY <1>4, <2>1 DEF ConnectsDone, ConnectsPending, One
  <2>2. CASE k # "connect"
    <3>1. ConnectsDone' = ConnectsDone /\ ConnectsPending' = ConnectsPending
      BY <1>4, <2>2 DEF ConnectsDone, ConnectsPending, Kinds
    <3>2. ConnectsDone \in Nat /\ ConnectsPending \in Nat
      BY Counts DEF CountsAreNat
    <3> QED BY <2>2, <3>1, <3>2 DEF One
  <2> QED BY <2>1, <2>2
<1>8. ~NonePending
  BY DEF NonePending
<1> QED
  BY <1>5, <1>6, <1>7, <1>8 DEF Connects, ReadsOut, WritesOut, Kinds

LEMMA AbortedCounts ==
  ASSUME ops \in [Kinds -> OpsType], ops' = Aborted
  PROVE  /\ ops' \in [Kinds -> OpsType]
         /\ \A k \in Kinds : Outstanding(k)' = Outstanding(k)
<1>1. ASSUME NEW k \in Kinds
      PROVE  ops'[k] \in OpsType /\ Outstanding(k)' = Outstanding(k)
  <2>1. /\ ops[k] \in OpsType
        /\ ops'[k] = [ops[k] EXCEPT !.pending = 0, !.aborted = @ + ops[k].pending]
    BY Zenon DEF Aborted
  <2>2. /\ ops[k].pending \in Nat /\ ops[k].ok \in Nat /\ ops[k].error \in Nat
        /\ ops[k].aborted \in Nat
    BY <2>1 DEF OpsType
  <2>3. ops'[k] = [pending |-> 0, ok |-> ops[k].ok, error |-> ops[k].error,
                   aborted |-> ops[k].aborted + ops[k].pending]
    BY <2>1 DEF OpsType
  <2>4. ops'[k] \in OpsType
    BY <2>2, <2>3 DEF OpsType
  <2>5. Outstanding(k)' = Outstanding(k)
    BY <2>2, <2>3 DEF Outstanding
  <2> QED BY <2>4, <2>5
<1> QED
  BY <1>1, Zenon DEF Aborted

LEMMA AbortedAll ==
  ASSUME TypeOK, ops' = Aborted
  PROVE  /\ CountsKept
         /\ ConnectsPending' = 0
         /\ NonePending'
<1>1. ops \in [Kinds -> OpsType]
  BY DEF TypeOK
<1>2. /\ ops' \in [Kinds -> OpsType]
      /\ \A k \in Kinds : Outstanding(k)' = Outstanding(k)
  BY <1>1, AbortedCounts
<1>3. \A k \in Kinds : ops'[k].pending = 0 /\ ops'[k].ok = ops[k].ok
  BY <1>1, Zenon DEF OpsType, Aborted
<1>4. "connect" \in Kinds /\ "read" \in Kinds /\ "write" \in Kinds
  BY DEF Kinds
<1>5. Connects' = Connects /\ ReadsOut' = ReadsOut /\ WritesOut' = WritesOut
  BY <1>2, <1>4 DEF Connects, ReadsOut, WritesOut
<1> QED
  BY <1>2, <1>3, <1>4, <1>5 DEF ConnectsDone, ConnectsPending, NonePending, CountsKept

LEMMA Cancelled ==
  ASSUME TypeOK, Reading, CancelAll
  PROVE  /\ CountsKept
         /\ ConnectsPending' = 0
         /\ NonePending'
<1>1. CASE open
  BY <1>1, AbortedAll DEF CancelAll
<1>2. CASE ~open
  <2>1. ops' = ops /\ NonePending
    BY <1>2 DEF CancelAll, Reading
  <2> QED BY <2>1, Counts
        DEF CountsAreNat, TypeOK, Connects, ReadsOut, WritesOut, ConnectsDone,
                              ConnectsPending, NonePending, Outstanding, CountsKept
<1> QED BY <1>1, <1>2

LEMMA OpsKept ==
  ASSUME TypeOK, ops' = ops
  PROVE  /\ CountsKept
         /\ ConnectsPending' = ConnectsPending
         /\ NonePending' = NonePending
BY DEF TypeOK, Connects, ReadsOut, WritesOut, ConnectsDone, ConnectsPending, NonePending,
       Outstanding, CountsKept

------------------------------------------------------------------------------
(* Steps.                                                                  *)

LEMMA InitInv == Init => SocketInv
<1> SUFFICES ASSUME Init PROVE SocketInv
  OBVIOUS
<1>1. \A k \in Kinds : ops[k] = [pending |-> 0, ok |-> 0, error |-> 0, aborted |-> 0]
  BY DEF Init
<1>2. ops \in [Kinds -> OpsType]
  BY DEF Init, OpsType
<1>3. TypeOK
  <2>1. pins \in 0..MaxPins
    BY BoundsAssumption DEF Init
  <2> QED BY <1>2, <2>1 DEF Init, TypeOK, PCs, Conts, Phases, Faults
<1>4. /\ ConnectsPending = 0 /\ ConnectsDone = 0 /\ Connects = 0
      /\ ReadsOut = 0 /\ WritesOut = 0 /\ NonePending
  BY <1>1 DEF ConnectsPending, ConnectsDone, Connects, ReadsOut, WritesOut, NonePending,
              Outstanding, Kinds
<1> QED
  BY <1>3, <1>4 DEF Init, SocketInv, Control, Reading, OneStream, Reconnected, Pinning,
                    KeptSocketsAreSafe, Careful,
                    ReadsInHand, Tokens, Owed, One

LEMMA ConnectStep ==
  ASSUME SocketInv, Connect
  PROVE  SocketInv'
<1> USE BoundsAssumption, EventsAssumption
    DEF SocketInv, TypeOK, Control, Reading, OneStream, Reconnected, Pinning,
        KeptSocketsAreSafe, Careful, Calls, Risks, ReadsInHand, Tokens, Owed, One, PCs,
        Conts, Phases, Faults, object, transport, control, JsMayRun, Call, TransportClosed,
        CountsAreNat, CountsKept
<1>1. CountsAreNat
  BY Counts
<1>2. PICK s \in {"pending", "error"} :
             /\ s = IF ops["connect"].pending > 0 THEN "error" ELSE "pending"
             /\ Start("connect", s)
  BY DEF Connect, AskConnect
<1>3. /\ ops' \in [Kinds -> OpsType]
      /\ Connects' = Connects + 1 /\ ReadsOut' = ReadsOut /\ WritesOut' = WritesOut
      /\ ConnectsDone' = ConnectsDone
      /\ ConnectsPending' = ConnectsPending + One(s = "pending")
  BY <1>1, <1>2, Started DEF Kinds
<1>4. /\ s = "pending" => ConnectsPending = 0
      /\ ~Reconnected' => ~link
  BY <1>1, <1>2 DEF ConnectsPending, Connect, AskConnect, Risk
<1>5. TypeOK' BY <1>1, <1>3, <1>4 DEF Connect, AskConnect, Risk, Pin
<1>6. Control' BY <1>1, <1>3, <1>4 DEF Connect, AskConnect, Risk, Pin
<1>7. Reading' BY <1>1, <1>3, <1>4 DEF Connect, AskConnect, Risk, Pin
<1>8. Pinning' BY <1>1, <1>3, <1>4 DEF Connect, AskConnect, Risk, Pin
<1>9. KeptSocketsAreSafe' BY <1>1, <1>3, <1>4 DEF Connect, AskConnect, Risk, Pin
<1> QED BY <1>5, <1>6, <1>7, <1>8, <1>9

LEMMA ConnectBadAddressStep ==
  ASSUME SocketInv, ConnectBadAddress
  PROVE  SocketInv'
<1> USE BoundsAssumption, EventsAssumption
    DEF SocketInv, TypeOK, Control, Reading, OneStream, Reconnected, Pinning,
        KeptSocketsAreSafe, Careful, Calls, Risks, ReadsInHand, Tokens, Owed, One, PCs,
        Conts, Phases, Faults, object, transport, control, JsMayRun, Call, TransportClosed,
        CountsAreNat, CountsKept
<1>1. CountsAreNat
  BY Counts
<1>2. /\ CountsKept
      /\ ConnectsPending' = ConnectsPending
      /\ NonePending' = NonePending
  BY OpsKept DEF ConnectBadAddress
<1>3. TypeOK' BY <1>1, <1>2 DEF ConnectBadAddress, Pin
<1>4. Control' BY <1>1, <1>2 DEF ConnectBadAddress, Pin
<1>5. Reading' BY <1>1, <1>2 DEF ConnectBadAddress, Pin
<1>6. Pinning' BY <1>1, <1>2 DEF ConnectBadAddress, Pin
<1>7. KeptSocketsAreSafe' BY <1>1, <1>2 DEF ConnectBadAddress, Pin
<1> QED BY <1>3, <1>4, <1>5, <1>6, <1>7

LEMMA WriteStep ==
  ASSUME SocketInv, Write
  PROVE  SocketInv'
<1> USE BoundsAssumption, EventsAssumption
    DEF SocketInv, TypeOK, Control, Reading, OneStream, Reconnected, Pinning,
        KeptSocketsAreSafe, Careful, Calls, Risks, ReadsInHand, Tokens, Owed, One, PCs,
        Conts, Phases, Faults, object, transport, control, JsMayRun, Call, TransportClosed,
        CountsAreNat, CountsKept
<1>1. CountsAreNat
  BY Counts
<1>2. PICK s \in {"pending", "ok", "error"} : (s = "pending" => open) /\ Start("write", s)
  BY DEF Write, AskWrite
<1>3. /\ ops' \in [Kinds -> OpsType]
      /\ Connects' = Connects /\ ReadsOut' = ReadsOut /\ WritesOut' = WritesOut + 1
      /\ ConnectsDone' = ConnectsDone /\ ConnectsPending' = ConnectsPending
      /\ ~open /\ NonePending => NonePending'
  BY <1>1, <1>2, Started DEF Kinds, One
<1>4. TypeOK' BY <1>1, <1>3 DEF Write, AskWrite, Pin
<1>5. Control' BY <1>1, <1>3 DEF Write, AskWrite, Pin
<1>6. Reading' BY <1>1, <1>3 DEF Write, AskWrite, Pin
<1>7. Pinning' BY <1>1, <1>3 DEF Write, AskWrite, Pin
<1>8. KeptSocketsAreSafe' BY <1>1, <1>3 DEF Write, AskWrite, Pin
<1> QED BY <1>4, <1>5, <1>6, <1>7, <1>8

LEMMA OnStep ==
  ASSUME SocketInv, NEW e \in Events, On(e)
  PROVE  SocketInv'
<1> USE BoundsAssumption, EventsAssumption
    DEF SocketInv, TypeOK, Control, Reading, OneStream, Reconnected, Pinning,
        KeptSocketsAreSafe, Careful, Calls, Risks, ReadsInHand, Tokens, Owed, One, PCs,
        Conts, Phases, Faults, object, transport, control, JsMayRun, Call, TransportClosed,
        CountsAreNat, CountsKept
<1>1. CountsAreNat
  BY Counts
<1>2. /\ CountsKept
      /\ ConnectsPending' = ConnectsPending
      /\ NonePending' = NonePending
  BY OpsKept DEF On
<1>3. TypeOK' BY <1>1, <1>2 DEF On, Pin, SetListener, FreesRunning, Running, Risk
<1>4. Control' BY <1>1, <1>2 DEF On, Pin, SetListener, FreesRunning, Running, Risk
<1>5. Reading' BY <1>1, <1>2 DEF On, Pin, SetListener, FreesRunning, Running, Risk
<1>6. Pinning' BY <1>1, <1>2 DEF On, Pin, SetListener, FreesRunning, Running, Risk
<1>7. KeptSocketsAreSafe' BY <1>1, <1>2 DEF On, Pin, SetListener, FreesRunning, Running, Risk
<1> QED BY <1>3, <1>4, <1>5, <1>6, <1>7

LEMMA CloseStep ==
  ASSUME SocketInv, Close
  PROVE  SocketInv'
<1> USE BoundsAssumption, EventsAssumption
    DEF SocketInv, TypeOK, Control, Reading, OneStream, Reconnected, Pinning,
        KeptSocketsAreSafe, Careful, Calls, Risks, ReadsInHand, Tokens, Owed, One, PCs,
        Conts, Phases, Faults, object, transport, control, JsMayRun, Call, TransportClosed,
        CountsAreNat, CountsKept
<1>1. CountsAreNat
  BY Counts
<1>2. /\ CountsKept
      /\ ConnectsPending' = 0
      /\ NonePending'
  BY Cancelled DEF Close
<1>3. TypeOK'
  <2>1. pins' \in 0..MaxPins /\ used' \subseteq Calls \union Risks
    BY DEF Close, ForceRelease
  <2> QED BY <1>1, <1>2, <2>1 DEF Close, ForceRelease
<1>4. Control' BY <1>1, <1>2 DEF Close, ForceRelease
<1>5. Reading' BY <1>1, <1>2 DEF Close, ForceRelease
<1>6. Pinning' BY <1>1, <1>2 DEF Close, ForceRelease
<1>7. KeptSocketsAreSafe' BY <1>1, <1>2 DEF Close, ForceRelease
<1> QED BY <1>3, <1>4, <1>5, <1>6, <1>7

LEMMA DropStep ==
  ASSUME SocketInv, Drop
  PROVE  SocketInv'
<1> USE BoundsAssumption, EventsAssumption
    DEF SocketInv, TypeOK, Control, Reading, OneStream, Reconnected, Pinning,
        KeptSocketsAreSafe, Careful, Calls, Risks, ReadsInHand, Tokens, Owed, One, PCs,
        Conts, Phases, Faults, object, transport, control, JsMayRun, Call, TransportClosed,
        CountsAreNat, CountsKept
<1>1. CountsAreNat
  BY Counts
<1>2. /\ CountsKept
      /\ ConnectsPending' = ConnectsPending
      /\ NonePending' = NonePending
  BY OpsKept DEF Drop
<1>3. TypeOK'
  <2>1. /\ held' \in BOOLEAN /\ used' \subseteq Calls \union Risks
        /\ UNCHANGED <<pins, listeners, finalized, closed, alive, registered, open, link,
                       connected, reading, pc, cont, event, phase, fault, said>>
    BY DEF Drop
  <2> QED BY <1>1, <1>2, <2>1
<1>4. Control' BY <1>1, <1>2 DEF Drop
<1>5. Reading' BY <1>1, <1>2 DEF Drop
<1>6. Pinning' BY <1>1, <1>2 DEF Drop
<1>7. KeptSocketsAreSafe' BY <1>1, <1>2 DEF Drop
<1> QED BY <1>3, <1>4, <1>5, <1>6, <1>7

LEMMA FinalizeStep ==
  ASSUME SocketInv, Finalize
  PROVE  SocketInv'
<1> USE BoundsAssumption, EventsAssumption
    DEF SocketInv, TypeOK, Control, Reading, OneStream, Reconnected, Pinning,
        KeptSocketsAreSafe, Careful, Calls, Risks, ReadsInHand, Tokens, Owed, One, PCs,
        Conts, Phases, Faults, object, transport, control, JsMayRun, Call, TransportClosed,
        CountsAreNat, CountsKept
<1>1. CountsAreNat
  BY Counts
<1>2. /\ CountsKept
      /\ ConnectsPending' = 0
      /\ NonePending'
  BY Cancelled, AbortedAll DEF Finalize, Finalizer, Delete
<1>3. TypeOK'
  <2>1. ops' \in [Kinds -> OpsType]
    BY <1>2
  <2>2. /\ UNCHANGED <<held, pins, closed, pc, cont, event, phase, used, said>>
        /\ fault' \in Faults
        /\ finalized' = TRUE /\ listeners' = {}
        /\ {alive', registered'} \subseteq BOOLEAN
        /\ {open', link', connected', reading'} \subseteq BOOLEAN
    BY DEF Finalize, Finalizer, FreesRunning, Garbage, FreeListeners, Delete, Unregister
  <2> QED BY <2>1, <2>2
<1>4. Control' BY <1>1, <1>2
      DEF Finalize, Finalizer, FreesRunning, Garbage, FreeListeners, Delete, Unregister
<1>5. Reading' BY <1>1, <1>2
      DEF Finalize, Finalizer, FreesRunning, Garbage, FreeListeners, Delete, Unregister
<1>6. Pinning' BY <1>1, <1>2
      DEF Finalize, Finalizer, FreesRunning, Garbage, FreeListeners, Delete, Unregister
<1>7. KeptSocketsAreSafe' BY <1>1, <1>2
      DEF Finalize, Finalizer, FreesRunning, Garbage, FreeListeners, Delete, Unregister
<1> QED BY <1>3, <1>4, <1>5, <1>6, <1>7

LEMMA CompleteStep ==
  ASSUME SocketInv, NEW k \in Kinds, NEW r \in Results, Complete(k, r)
  PROVE  SocketInv'
<1> USE BoundsAssumption, EventsAssumption
    DEF SocketInv, TypeOK, Control, Reading, OneStream, Reconnected, Pinning,
        KeptSocketsAreSafe, Careful, Calls, Risks, ReadsInHand, Tokens, Owed, One, PCs,
        Conts, Phases, Faults, object, transport, control, JsMayRun, Call, TransportClosed,
        CountsAreNat, CountsKept
<1>1. CountsAreNat
  BY Counts
<1>2. /\ ops' \in [Kinds -> OpsType]
      /\ Connects' = Connects /\ ReadsOut' = ReadsOut /\ WritesOut' = WritesOut
      /\ ConnectsDone' = ConnectsDone + One(k = "connect" /\ r = "ok")
      /\ ConnectsPending' = ConnectsPending - One(k = "connect")
      /\ ~NonePending
  BY Finished, Zenon DEF Complete
<1>3. k = "connect" => ConnectsPending > 0
  BY DEF Complete, ConnectsPending
<1>4. TypeOK'
  <2>1. /\ link' \in BOOLEAN
        /\ UNCHANGED <<held, pins, listeners, finalized, closed, alive, registered, open,
                       connected, reading, pc, cont, event, phase, fault, used, said>>
    BY DEF Complete
  <2> QED BY <1>1, <1>2, <1>3, <2>1
<1>5. Control' BY <1>1, <1>2, <1>3 DEF Complete
<1>6. Reading'
  <2>1. /\ open' = open /\ alive' = alive /\ open
        /\ UNCHANGED <<reading, cont, said, used>>
        /\ link' = (link \/ (k = "connect" /\ r = "ok"))
    BY <1>2 DEF Complete
  <2>2. link' => ConnectsDone' > 0 \/ "connect" \in said'
    BY <1>1, <1>2, <2>1
  <2>3. ~Reconnected' => OneStream'
    BY <1>1, <1>2, <1>3, <2>1
  <2> QED BY <1>1, <1>2, <2>1, <2>2, <2>3
<1>7. Pinning' BY <1>1, <1>2, <1>3 DEF Complete
<1>8. KeptSocketsAreSafe' BY <1>1, <1>2, <1>3 DEF Complete
<1> QED BY <1>4, <1>5, <1>6, <1>7, <1>8

LEMMA ConnectOkStep ==
  ASSUME SocketInv, ConnectOk
  PROVE  SocketInv'
<1> USE BoundsAssumption, EventsAssumption
    DEF SocketInv, TypeOK, Control, Reading, OneStream, Reconnected, Pinning,
        KeptSocketsAreSafe, Careful, Calls, Risks, ReadsInHand, Tokens, Owed, One, PCs,
        Conts, Phases, Faults, object, transport, control, JsMayRun, Call, TransportClosed,
        CountsAreNat, CountsKept
<1>1. CountsAreNat
  BY Counts
<1>2. /\ ops' \in [Kinds -> OpsType]
      /\ Connects' = Connects - 1 /\ ReadsOut' = ReadsOut /\ WritesOut' = WritesOut
      /\ ConnectsDone' = ConnectsDone - 1 /\ ConnectsPending' = ConnectsPending
      /\ NonePending => NonePending'
  BY <1>1, Taken DEF ConnectOk, Handler, Kinds, Results
<1>3. Connects > 0 /\ ConnectsDone > 0
  <2>1. ops["connect"]["ok"] > 0
    BY DEF ConnectOk, Handler, Take
  <2>2. /\ ops["connect"].pending \in Nat /\ ops["connect"].ok \in Nat
        /\ ops["connect"].error \in Nat /\ ops["connect"].aborted \in Nat
    BY SlotTypes DEF Kinds
  <2> QED BY <2>1, <2>2 DEF Connects, ConnectsDone, Outstanding, Results
<1>4. TypeOK' BY <1>1, <1>2, <1>3 DEF ConnectOk, Handler, Take, Emit
<1>5. Control' BY <1>1, <1>2, <1>3 DEF ConnectOk, Handler, Take, Emit
<1>6. Reading' BY <1>1, <1>2, <1>3 DEF ConnectOk, Handler, Take, Emit
<1>7. Pinning' BY <1>1, <1>2, <1>3 DEF ConnectOk, Handler, Take, Emit
<1>8. KeptSocketsAreSafe' BY <1>1, <1>2, <1>3 DEF ConnectOk, Handler, Take, Emit
<1> QED BY <1>4, <1>5, <1>6, <1>7, <1>8

LEMMA ConnectFailsStep ==
  ASSUME SocketInv, NEW r \in Results, ConnectFails(r)
  PROVE  SocketInv'
<1> USE BoundsAssumption, EventsAssumption
    DEF SocketInv, TypeOK, Control, Reading, OneStream, Reconnected, Pinning,
        KeptSocketsAreSafe, Careful, Calls, Risks, ReadsInHand, Tokens, Owed, One, PCs,
        Conts, Phases, Faults, object, transport, control, JsMayRun, Call, TransportClosed,
        CountsAreNat, CountsKept
<1>1. CountsAreNat
  BY Counts
<1>2. /\ ops' \in [Kinds -> OpsType]
      /\ Connects' = Connects - 1 /\ ReadsOut' = ReadsOut /\ WritesOut' = WritesOut
      /\ ConnectsDone' = ConnectsDone /\ ConnectsPending' = ConnectsPending
      /\ NonePending => NonePending'
  BY <1>1, Taken DEF ConnectFails, Handler, Kinds, Results
<1>3. Connects > 0
  <2>1. ops["connect"][r] > 0
    BY DEF ConnectFails, Handler, Take
  <2>2. /\ ops["connect"].pending \in Nat /\ ops["connect"].ok \in Nat
        /\ ops["connect"].error \in Nat /\ ops["connect"].aborted \in Nat
    BY SlotTypes DEF Kinds
  <2> QED BY <2>1, <2>2 DEF Connects, Outstanding, Results
<1>4. TypeOK' BY <1>1, <1>2, <1>3 DEF ConnectFails, Handler, Take, Emit, GoOn, HandleError
<1>5. Control' BY <1>1, <1>2, <1>3 DEF ConnectFails, Handler, Take, Emit, GoOn, HandleError
<1>6. Reading' BY <1>1, <1>2, <1>3 DEF ConnectFails, Handler, Take, Emit, GoOn, HandleError
<1>7. Pinning' BY <1>1, <1>2, <1>3 DEF ConnectFails, Handler, Take, Emit, GoOn, HandleError
<1>8. KeptSocketsAreSafe' BY <1>1, <1>2, <1>3
      DEF ConnectFails, Handler, Take, Emit, GoOn, HandleError
<1> QED BY <1>4, <1>5, <1>6, <1>7, <1>8

LEMMA ReadOkStep ==
  ASSUME SocketInv, ReadOk
  PROVE  SocketInv'
<1> USE BoundsAssumption, EventsAssumption
    DEF SocketInv, TypeOK, Control, Reading, OneStream, Reconnected, Pinning,
        KeptSocketsAreSafe, Careful, Calls, Risks, ReadsInHand, Tokens, Owed, One, PCs,
        Conts, Phases, Faults, object, transport, control, JsMayRun, Call, TransportClosed,
        CountsAreNat, CountsKept
<1>1. CountsAreNat
  BY Counts
<1>2. /\ ops' \in [Kinds -> OpsType]
      /\ Connects' = Connects /\ ReadsOut' = ReadsOut - 1 /\ WritesOut' = WritesOut
      /\ ConnectsDone' = ConnectsDone /\ ConnectsPending' = ConnectsPending
      /\ NonePending => NonePending'
  BY <1>1, Taken DEF ReadOk, Handler, Kinds, Results
<1>3. ReadsOut > 0
  <2>1. ops["read"]["ok"] > 0
    BY DEF ReadOk, Handler, Take
  <2>2. /\ ops["read"].pending \in Nat /\ ops["read"].ok \in Nat
        /\ ops["read"].error \in Nat /\ ops["read"].aborted \in Nat
    BY SlotTypes DEF Kinds
  <2> QED BY <2>1, <2>2 DEF ReadsOut, Outstanding, Results
<1>4. TypeOK' BY <1>1, <1>2, <1>3 DEF ReadOk, Handler, Take, Emit, GoOn
<1>5. Control' BY <1>1, <1>2, <1>3 DEF ReadOk, Handler, Take, Emit, GoOn
<1>6. Reading' BY <1>1, <1>2, <1>3 DEF ReadOk, Handler, Take, Emit, GoOn
<1>7. Pinning' BY <1>1, <1>2, <1>3 DEF ReadOk, Handler, Take, Emit, GoOn
<1>8. KeptSocketsAreSafe' BY <1>1, <1>2, <1>3 DEF ReadOk, Handler, Take, Emit, GoOn
<1> QED BY <1>4, <1>5, <1>6, <1>7, <1>8

LEMMA ReadFailsStep ==
  ASSUME SocketInv, NEW r \in Results, ReadFails(r)
  PROVE  SocketInv'
<1> USE BoundsAssumption, EventsAssumption
    DEF SocketInv, TypeOK, Control, Reading, OneStream, Reconnected, Pinning,
        KeptSocketsAreSafe, Careful, Calls, Risks, ReadsInHand, Tokens, Owed, One, PCs,
        Conts, Phases, Faults, object, transport, control, JsMayRun, Call, TransportClosed,
        CountsAreNat, CountsKept
<1>1. CountsAreNat
  BY Counts
<1>2. /\ ops' \in [Kinds -> OpsType]
      /\ Connects' = Connects /\ ReadsOut' = ReadsOut - 1 /\ WritesOut' = WritesOut
      /\ ConnectsDone' = ConnectsDone /\ ConnectsPending' = ConnectsPending
      /\ NonePending => NonePending'
  BY <1>1, Taken DEF ReadFails, Handler, Kinds, Results
<1>3. ReadsOut > 0
  <2>1. ops["read"][r] > 0
    BY DEF ReadFails, Handler, Take
  <2>2. /\ ops["read"].pending \in Nat /\ ops["read"].ok \in Nat
        /\ ops["read"].error \in Nat /\ ops["read"].aborted \in Nat
    BY SlotTypes DEF Kinds
  <2> QED BY <2>1, <2>2 DEF ReadsOut, Outstanding, Results
<1>4. TypeOK' BY <1>1, <1>2, <1>3 DEF ReadFails, Handler, Take, Emit, GoOn, HandleError
<1>5. Control' BY <1>1, <1>2, <1>3 DEF ReadFails, Handler, Take, Emit, GoOn, HandleError
<1>6. Reading' BY <1>1, <1>2, <1>3 DEF ReadFails, Handler, Take, Emit, GoOn, HandleError
<1>7. Pinning' BY <1>1, <1>2, <1>3 DEF ReadFails, Handler, Take, Emit, GoOn, HandleError
<1>8. KeptSocketsAreSafe' BY <1>1, <1>2, <1>3
      DEF ReadFails, Handler, Take, Emit, GoOn, HandleError
<1> QED BY <1>4, <1>5, <1>6, <1>7, <1>8

LEMMA WriteOkStep ==
  ASSUME SocketInv, WriteOk
  PROVE  SocketInv'
<1> USE BoundsAssumption, EventsAssumption
    DEF SocketInv, TypeOK, Control, Reading, OneStream, Reconnected, Pinning,
        KeptSocketsAreSafe, Careful, Calls, Risks, ReadsInHand, Tokens, Owed, One, PCs,
        Conts, Phases, Faults, object, transport, control, JsMayRun, Call, TransportClosed,
        CountsAreNat, CountsKept
<1>1. CountsAreNat
  BY Counts
<1>2. /\ ops' \in [Kinds -> OpsType]
      /\ Connects' = Connects /\ ReadsOut' = ReadsOut /\ WritesOut' = WritesOut - 1
      /\ ConnectsDone' = ConnectsDone /\ ConnectsPending' = ConnectsPending
      /\ NonePending => NonePending'
  BY <1>1, Taken DEF WriteOk, Handler, Kinds, Results
<1>3. WritesOut > 0
  <2>1. ops["write"]["ok"] > 0
    BY DEF WriteOk, Handler, Take
  <2>2. /\ ops["write"].pending \in Nat /\ ops["write"].ok \in Nat
        /\ ops["write"].error \in Nat /\ ops["write"].aborted \in Nat
    BY SlotTypes DEF Kinds
  <2> QED BY <2>1, <2>2 DEF WritesOut, Outstanding, Results
<1>4. TypeOK' BY <1>1, <1>2, <1>3 DEF WriteOk, Handler, Take, Unpin
<1>5. Control' BY <1>1, <1>2, <1>3 DEF WriteOk, Handler, Take, Unpin
<1>6. Reading' BY <1>1, <1>2, <1>3 DEF WriteOk, Handler, Take, Unpin
<1>7. Pinning' BY <1>1, <1>2, <1>3 DEF WriteOk, Handler, Take, Unpin
<1>8. KeptSocketsAreSafe' BY <1>1, <1>2, <1>3 DEF WriteOk, Handler, Take, Unpin
<1> QED BY <1>4, <1>5, <1>6, <1>7, <1>8

LEMMA WriteFailsStep ==
  ASSUME SocketInv, NEW r \in Results, WriteFails(r)
  PROVE  SocketInv'
<1> USE BoundsAssumption, EventsAssumption
    DEF SocketInv, TypeOK, Control, Reading, OneStream, Reconnected, Pinning,
        KeptSocketsAreSafe, Careful, Calls, Risks, ReadsInHand, Tokens, Owed, One, PCs,
        Conts, Phases, Faults, object, transport, control, JsMayRun, Call, TransportClosed,
        CountsAreNat, CountsKept
<1>1. CountsAreNat
  BY Counts
<1>2. /\ ops' \in [Kinds -> OpsType]
      /\ Connects' = Connects /\ ReadsOut' = ReadsOut /\ WritesOut' = WritesOut - 1
      /\ ConnectsDone' = ConnectsDone /\ ConnectsPending' = ConnectsPending
      /\ NonePending => NonePending'
  BY <1>1, Taken DEF WriteFails, Handler, Kinds, Results
<1>3. WritesOut > 0
  <2>1. ops["write"][r] > 0
    BY DEF WriteFails, Handler, Take
  <2>2. /\ ops["write"].pending \in Nat /\ ops["write"].ok \in Nat
        /\ ops["write"].error \in Nat /\ ops["write"].aborted \in Nat
    BY SlotTypes DEF Kinds
  <2> QED BY <2>1, <2>2 DEF WritesOut, Outstanding, Results
<1>4. TypeOK'
  <2>1. /\ pc' \in PCs /\ cont' \in Conts
        /\ event' \in {"none", "connect", "data", "error", "close"}
        /\ said' \subseteq {"connect", "data", "error", "close"}
    BY DEF WriteFails, HandleError, Emit, GoOn
  <2>2. UNCHANGED <<held, pins, listeners, finalized, closed, alive, registered, open, link,
                    connected, reading, phase, fault, used>>
    BY DEF WriteFails, Handler, Take
  <2>3. ops' \in [Kinds -> OpsType]
    BY <1>2
  <2> HIDE DEF PCs, Conts, Phases, Faults, Calls, Risks
  <2> QED BY <2>1, <2>2, <2>3
<1>5. Control' BY <1>1, <1>2, <1>3 DEF WriteFails, Handler, Take, Emit, GoOn, HandleError
<1>6. Reading' BY <1>1, <1>2, <1>3 DEF WriteFails, Handler, Take, Emit, GoOn, HandleError
<1>7. Pinning' BY <1>1, <1>2, <1>3 DEF WriteFails, Handler, Take, Emit, GoOn, HandleError
<1>8. KeptSocketsAreSafe' BY <1>1, <1>2, <1>3
      DEF WriteFails, Handler, Take, Emit, GoOn, HandleError
<1> QED BY <1>4, <1>5, <1>6, <1>7, <1>8

LEMMA StaleHandlerStep ==
  ASSUME SocketInv, NEW k \in Kinds, NEW r \in Results, StaleHandler(k, r)
  PROVE  SocketInv'
<1> USE BoundsAssumption, EventsAssumption
    DEF SocketInv, TypeOK, Control, Reading, OneStream, Reconnected, Pinning,
        KeptSocketsAreSafe, Careful, Calls, Risks, ReadsInHand, Tokens, Owed, One, PCs,
        Conts, Phases, Faults, object, transport, control, JsMayRun, Call, TransportClosed,
        CountsAreNat, CountsKept
<1>1. CountsAreNat
  BY Counts
<1>2. PICK c \in {0, 1}, d \in {0, 1}, e \in {0, 1}, w \in {0, 1} :
        /\ ops' \in [Kinds -> OpsType]
        /\ Connects' = Connects - c /\ Connects >= c
        /\ ReadsOut' = ReadsOut - e /\ ReadsOut >= e
        /\ WritesOut' = WritesOut - w /\ WritesOut >= w
        /\ ConnectsDone' = ConnectsDone - d /\ ConnectsDone >= d
        /\ ConnectsPending' = ConnectsPending
        /\ NonePending => NonePending'
  <2>1. /\ ops' \in [Kinds -> OpsType]
        /\ Connects' = Connects - One(k = "connect")
        /\ ReadsOut' = ReadsOut - One(k = "read")
        /\ WritesOut' = WritesOut - One(k = "write")
        /\ ConnectsDone' = ConnectsDone - One(k = "connect" /\ r = "ok")
        /\ ConnectsPending' = ConnectsPending
        /\ NonePending => NonePending'
    BY Taken DEF StaleHandler
  <2>2. /\ k = "connect" => Connects > 0
        /\ k = "read" => ReadsOut > 0
        /\ k = "write" => WritesOut > 0
        /\ k = "connect" /\ r = "ok" => ConnectsDone > 0
    <3>1. ops[k][r] > 0
      BY DEF StaleHandler, Take
    <3>2. /\ ops[k].pending \in Nat /\ ops[k].ok \in Nat
          /\ ops[k].error \in Nat /\ ops[k].aborted \in Nat
      BY SlotTypes
    <3> QED BY <3>1, <3>2
          DEF Connects, ReadsOut, WritesOut, ConnectsDone, Outstanding, Results
  <2>3. /\ One(k = "connect") \in {0, 1} /\ One(k = "read") \in {0, 1}
        /\ One(k = "write") \in {0, 1} /\ One(k = "connect" /\ r = "ok") \in {0, 1}
        /\ Connects >= One(k = "connect") /\ ReadsOut >= One(k = "read")
        /\ WritesOut >= One(k = "write") /\ ConnectsDone >= One(k = "connect" /\ r = "ok")
    BY <1>1, <2>2 DEF One
  <2> HIDE DEF One
  <2> QED BY <2>1, <2>3
<1>3. UNCHANGED <<open, link, reading, cont, said, alive, used>> /\ ~alive
  BY DEF StaleHandler, Take
<1>4. TypeOK' BY <1>1, <1>2, <1>3 DEF StaleHandler, Take
<1>5. Control' BY <1>1, <1>2, <1>3 DEF StaleHandler, Take
<1>6. Reading' BY <1>1, <1>2, <1>3 DEF StaleHandler, Take
<1>7. Pinning' BY <1>1, <1>2, <1>3 DEF StaleHandler, Take
<1>8. KeptSocketsAreSafe' BY <1>1, <1>2, <1>3 DEF StaleHandler, Take
<1> QED BY <1>4, <1>5, <1>6, <1>7, <1>8

LEMMA ListenerReturnsStep ==
  ASSUME SocketInv, ListenerReturns
  PROVE  SocketInv'
<1> USE BoundsAssumption, EventsAssumption
    DEF SocketInv, TypeOK, Control, Reading, OneStream, Reconnected, Pinning,
        KeptSocketsAreSafe, Careful, Calls, Risks, ReadsInHand, Tokens, Owed, One, PCs,
        Conts, Phases, Faults, object, transport, control, JsMayRun, Call, TransportClosed,
        CountsAreNat, CountsKept
<1>1. CountsAreNat
  BY Counts
<1>2. /\ CountsKept
      /\ ConnectsPending' = ConnectsPending
      /\ NonePending' = NonePending
  BY OpsKept DEF ListenerReturns
<1>3. TypeOK' BY <1>1, <1>2 DEF ListenerReturns
<1>4. Control' BY <1>1, <1>2 DEF ListenerReturns
<1>5. Reading' BY <1>1, <1>2 DEF ListenerReturns
<1>6. Pinning' BY <1>1, <1>2 DEF ListenerReturns
<1>7. KeptSocketsAreSafe' BY <1>1, <1>2 DEF ListenerReturns
<1> QED BY <1>3, <1>4, <1>5, <1>6, <1>7

LEMMA ReadOnStep ==
  ASSUME SocketInv, ReadOn
  PROVE  SocketInv'
<1> USE BoundsAssumption, EventsAssumption
    DEF SocketInv, TypeOK, Control, Reading, OneStream, Reconnected, Pinning,
        KeptSocketsAreSafe, Careful, Calls, Risks, ReadsInHand, Tokens, Owed, One, PCs,
        Conts, Phases, Faults, object, transport, control, JsMayRun, Call, TransportClosed,
        CountsAreNat, CountsKept
<1>1. CountsAreNat
  BY Counts
<1>2. CASE reading /\ connected
  <2>1. PICK s \in {"pending", "error"} : (s = "pending" => open) /\ Start("read", s)
    BY <1>2 DEF ReadOn
  <2>2. /\ ops' \in [Kinds -> OpsType]
        /\ Connects' = Connects /\ ReadsOut' = ReadsOut + 1 /\ WritesOut' = WritesOut
        /\ ConnectsDone' = ConnectsDone /\ ConnectsPending' = ConnectsPending
        /\ ~open /\ NonePending => NonePending'
    BY <1>1, <2>1, Started DEF Kinds
  <2> QED BY <1>1, <1>2, <2>2 DEF ReadOn, At, HandlerEnds
<1>3. CASE ~(reading /\ connected)
  <2>1. ops' = ops BY <1>3 DEF ReadOn
  <2>2. /\ CountsKept
        /\ ConnectsPending' = ConnectsPending
        /\ NonePending' = NonePending
    BY <2>1, OpsKept
  <2> QED BY <1>1, <1>3, <2>2 DEF ReadOn, At, HandlerEnds
<1> QED BY <1>2, <1>3

LEMMA HandleCloseStep ==
  ASSUME SocketInv, HandleClose
  PROVE  SocketInv'
<1> USE BoundsAssumption, EventsAssumption
    DEF SocketInv, TypeOK, Control, Reading, OneStream, Reconnected, Pinning,
        KeptSocketsAreSafe, Careful, Calls, Risks, ReadsInHand, Tokens, Owed, One, PCs,
        Conts, Phases, Faults, object, transport, control, JsMayRun, Call, TransportClosed,
        CountsAreNat, CountsKept
<1>1. CountsAreNat
  BY Counts
<1>2. /\ CountsKept
      /\ ConnectsPending' = ConnectsPending
      /\ NonePending' = NonePending
  BY OpsKept DEF HandleClose
<1>3. TypeOK'
  <2>1. /\ pins' \in 0..MaxPins /\ fault' \in Faults
        /\ pc' \in PCs /\ cont' \in Conts /\ said' \subseteq {"connect", "data", "error", "close"}
        /\ event' \in {"none", "connect", "data", "error", "close"} /\ closed' \in BOOLEAN
        /\ UNCHANGED <<held, listeners, finalized, alive, registered, open, link, connected,
                       reading, phase, used>>
    <3>1. pins' \in 0..MaxPins /\ fault' \in Faults
      BY <1>1 DEF HandleClose, Unpin
    <3>2. /\ pc' \in PCs /\ cont' \in Conts /\ closed' \in BOOLEAN
          /\ event' \in {"none", "connect", "data", "error", "close"}
      BY DEF HandleClose, Emit, GoOn
    <3>3. said' \subseteq {"connect", "data", "error", "close"}
      BY DEF HandleClose, Emit, GoOn
    <3> QED BY <3>1, <3>2, <3>3 DEF HandleClose
  <2> QED BY <1>1, <1>2, <2>1
<1>4. Control' BY <1>1, <1>2 DEF HandleClose, At, Unpin, Emit, GoOn
<1>5. Reading' BY <1>1, <1>2 DEF HandleClose, At, Unpin, Emit, GoOn
<1>6. Pinning' BY <1>1, <1>2 DEF HandleClose, At, Unpin, Emit, GoOn
<1>7. KeptSocketsAreSafe' BY <1>1, <1>2 DEF HandleClose, At, Unpin, Emit, GoOn
<1> QED BY <1>3, <1>4, <1>5, <1>6, <1>7

LEMMA AfterErrorStep ==
  ASSUME SocketInv, AfterError
  PROVE  SocketInv'
<1> USE BoundsAssumption, EventsAssumption
    DEF SocketInv, TypeOK, Control, Reading, OneStream, Reconnected, Pinning,
        KeptSocketsAreSafe, Careful, Calls, Risks, ReadsInHand, Tokens, Owed, One, PCs,
        Conts, Phases, Faults, object, transport, control, JsMayRun, Call, TransportClosed,
        CountsAreNat, CountsKept
<1>1. CountsAreNat
  BY Counts
<1>2. /\ CountsKept
      /\ ConnectsPending' = ConnectsPending
      /\ NonePending' = NonePending
  BY OpsKept DEF AfterError
<1>3. TypeOK' BY <1>1, <1>2 DEF AfterError, At, HandlerEnds
<1>4. Control' BY <1>1, <1>2 DEF AfterError, At, HandlerEnds
<1>5. Reading' BY <1>1, <1>2 DEF AfterError, At, HandlerEnds
<1>6. Pinning' BY <1>1, <1>2 DEF AfterError, At, HandlerEnds
<1>7. KeptSocketsAreSafe' BY <1>1, <1>2 DEF AfterError, At, HandlerEnds
<1> QED BY <1>3, <1>4, <1>5, <1>6, <1>7

LEMMA AfterCloseStep ==
  ASSUME SocketInv, AfterClose
  PROVE  SocketInv'
<1> USE BoundsAssumption, EventsAssumption
    DEF SocketInv, TypeOK, Control, Reading, OneStream, Reconnected, Pinning,
        KeptSocketsAreSafe, Careful, Calls, Risks, ReadsInHand, Tokens, Owed, One, PCs,
        Conts, Phases, Faults, object, transport, control, JsMayRun, Call, TransportClosed,
        CountsAreNat, CountsKept
<1>1. CountsAreNat
  BY Counts
<1>2. /\ CountsKept
      /\ finalized => ConnectsPending' = 0 /\ NonePending'
      /\ ~finalized => ConnectsPending' = ConnectsPending /\ NonePending' = NonePending
  BY OpsKept, AbortedAll DEF AfterClose, Delete
<1>3. TypeOK' BY <1>1, <1>2 DEF AfterClose, At, HandlerEnds, Delete, Unregister
<1>4. Control' BY <1>1, <1>2 DEF AfterClose, At, HandlerEnds, Delete, Unregister
<1>5. Reading' BY <1>1, <1>2 DEF AfterClose, At, HandlerEnds, Delete, Unregister
<1>6. Pinning' BY <1>1, <1>2 DEF AfterClose, At, HandlerEnds, Delete, Unregister
<1>7. KeptSocketsAreSafe' BY <1>1, <1>2 DEF AfterClose, At, HandlerEnds, Delete, Unregister
<1> QED BY <1>3, <1>4, <1>5, <1>6, <1>7

LEMMA DestroyStep ==
  ASSUME SocketInv, Destroy
  PROVE  SocketInv'
<1> USE BoundsAssumption, EventsAssumption
    DEF SocketInv, TypeOK, Control, Reading, OneStream, Reconnected, Pinning,
        KeptSocketsAreSafe, Careful, Calls, Risks, ReadsInHand, Tokens, Owed, One, PCs,
        Conts, Phases, Faults, object, transport, control, JsMayRun, Call, TransportClosed,
        CountsAreNat, CountsKept
<1>1. CountsAreNat
  BY Counts
<1>2. /\ CountsKept
      /\ ConnectsPending' <= ConnectsPending /\ ConnectsPending' \in Nat
      /\ NonePending => NonePending'
  BY <1>1, OpsKept, Cancelled DEF Destroy
<1>3. TypeOK' BY <1>1, <1>2 DEF Destroy
<1>4. Control' BY <1>1, <1>2 DEF Destroy
<1>5. Reading' BY <1>1, <1>2 DEF Destroy
<1>6. Pinning' BY <1>1, <1>2 DEF Destroy
<1>7. KeptSocketsAreSafe' BY <1>1, <1>2 DEF Destroy
<1> QED BY <1>3, <1>4, <1>5, <1>6, <1>7

LEMMA DrainedStep ==
  ASSUME SocketInv, Drained
  PROVE  SocketInv'
<1> USE BoundsAssumption, EventsAssumption
    DEF SocketInv, TypeOK, Control, Reading, OneStream, Reconnected, Pinning,
        KeptSocketsAreSafe, Careful, Calls, Risks, ReadsInHand, Tokens, Owed, One, PCs,
        Conts, Phases, Faults, object, transport, control, JsMayRun, Call, TransportClosed,
        CountsAreNat, CountsKept
<1>1. CountsAreNat
  BY Counts
<1>2. /\ CountsKept
      /\ ConnectsPending' = ConnectsPending
      /\ NonePending' = NonePending
  BY OpsKept DEF Drained
<1>3. TypeOK' BY <1>1, <1>2 DEF Drained
<1>4. Control' BY <1>1, <1>2 DEF Drained
<1>5. Reading' BY <1>1, <1>2 DEF Drained
<1>6. Pinning' BY <1>1, <1>2 DEF Drained
<1>7. KeptSocketsAreSafe' BY <1>1, <1>2 DEF Drained
<1> QED BY <1>3, <1>4, <1>5, <1>6, <1>7

LEMMA TypeKept ==
  ASSUME TypeOK, held' = FALSE, used' \subseteq Calls \union Risks,
         ops' \in [Kinds -> OpsType], listeners' \subseteq Events,
         {finalized', alive', registered'} \subseteq BOOLEAN,
         {open', link', connected', reading'} \subseteq BOOLEAN,
         UNCHANGED <<pins, closed, pc, cont, event, phase, fault, said>>
  PROVE  TypeOK'
BY DEF TypeOK

LEMMA OthersTurnStep ==
  ASSUME SocketInv, OthersTurn
  PROVE  SocketInv'
<1> USE BoundsAssumption, EventsAssumption
    DEF SocketInv, TypeOK, Control, Reading, OneStream, Reconnected, Pinning,
        KeptSocketsAreSafe, Careful, Calls, Risks, ReadsInHand, Tokens, Owed, One, PCs, Conts, Phases, Faults,
        object, transport, control, JsMayRun, TransportClosed, CountsAreNat, CountsKept
<1>1. CountsAreNat
  BY Counts
<1>2. /\ held' = FALSE
      /\ used' \subseteq used \union {"lent"} /\ used \subseteq used'
      /\ "drop" \in used' \/ "lent" \in used'
      /\ UNCHANGED <<pins, closed, pc, cont, event, phase, fault, said>>
  BY DEF OthersTurn, Risk, Garbage
<1>3. CASE pins = 0 /\ ~finalized
  <2>1. Finalizer
    BY <1>3 DEF OthersTurn
  <2>2. /\ CountsKept
        /\ ConnectsPending' = 0
        /\ NonePending'
    BY <2>1, Cancelled, AbortedAll DEF Finalizer, Delete
  <2>3. /\ finalized' = TRUE /\ listeners' = {}
        /\ {alive', registered'} \subseteq BOOLEAN
        /\ {open', link', connected', reading'} \subseteq BOOLEAN
        /\ open' => open /\ alive' = alive /\ ~closed
        /\ link' => link /\ open'
        /\ reading' => reading
        /\ ~alive' \/ ~closed
        /\ reading' => link' = link
    BY <2>1 DEF Finalizer, FreeListeners, Delete, Unregister
  <2>4. phase = "cleanup"
    BY DEF OthersTurn
  <2>5. TypeOK'
    <3>1. used' \subseteq Calls \union Risks
      BY <1>2
    <3>2. ops' \in [Kinds -> OpsType] /\ listeners' \subseteq Events
      BY <2>2, <2>3
    <3>3. {finalized', alive', registered'} \subseteq BOOLEAN
      BY <2>3
    <3> HIDE DEF TypeOK, Calls, Risks
    <3> QED BY <1>2, <2>3, <3>1, <3>2, <3>3, TypeKept DEF SocketInv
  <2>6. Control' BY <1>1, <1>2, <1>3, <2>2, <2>3, <2>4
  <2>7. Reading' BY <1>1, <1>2, <2>2, <2>3
  <2>8. Pinning' BY <1>1, <1>2, <1>3, <2>2, <2>3
  <2>9. KeptSocketsAreSafe' BY <1>2
  <2> QED BY <2>5, <2>6, <2>7, <2>8, <2>9
<1>4. CASE ~(pins = 0 /\ ~finalized)
  <2>1. UNCHANGED <<listeners, finalized, alive, registered, ops, transport>>
    BY <1>4 DEF OthersTurn
  <2>2. /\ CountsKept
        /\ ConnectsPending' = ConnectsPending
        /\ NonePending' = NonePending
    BY <2>1, OpsKept
  <2>3. phase = "cleanup"
    BY DEF OthersTurn
  <2>5. TypeOK'
    <3>1. used' \subseteq Calls \union Risks
      BY <1>2
    <3>2. ops' \in [Kinds -> OpsType]
      BY <2>2
    <3>3. /\ listeners' \subseteq Events
          /\ {finalized', alive', registered'} \subseteq BOOLEAN
          /\ {open', link', connected', reading'} \subseteq BOOLEAN
      BY <2>1
    <3> HIDE DEF TypeOK, Calls, Risks
    <3> QED BY <1>2, <3>1, <3>2, <3>3, TypeKept DEF SocketInv
  <2>6. Control' BY <1>1, <1>2, <2>1, <2>2, <2>3
  <2>7. Reading' BY <1>1, <1>2, <2>1, <2>2
  <2>8. Pinning' BY <1>1, <1>2, <2>1, <2>2
  <2>9. KeptSocketsAreSafe' BY <1>2
  <2> QED BY <2>5, <2>6, <2>7, <2>8, <2>9
<1> QED BY <1>3, <1>4

LEMMA CleanupStep ==
  ASSUME SocketInv, Cleanup
  PROVE  SocketInv'
<1> USE BoundsAssumption, EventsAssumption
    DEF SocketInv, TypeOK, Control, Reading, OneStream, Reconnected, Pinning,
        KeptSocketsAreSafe, Careful, Calls, Risks, ReadsInHand, Tokens, Owed, One, PCs,
        Conts, Phases, Faults, object, transport, control, JsMayRun, Call, TransportClosed,
        CountsAreNat, CountsKept
<1>1. CountsAreNat
  BY Counts
<1>2. /\ CountsKept
      /\ ConnectsPending' = 0 /\ NonePending'
  BY AbortedAll DEF Cleanup, Delete
<1>3. TypeOK'
  <2>1. /\ pins' \in 0..MaxPins /\ listeners' \subseteq Events /\ fault' \in Faults
        /\ alive' \in BOOLEAN /\ registered' \in BOOLEAN /\ open' \in BOOLEAN
        /\ link' \in BOOLEAN /\ connected' \in BOOLEAN /\ reading' \in BOOLEAN
        /\ phase' \in Phases
        /\ UNCHANGED <<held, finalized, closed, pc, cont, event, used, said>>
    <3>1. pins' \in 0..MaxPins
      BY DEF Cleanup, ForceRelease
    <3>2. listeners' \subseteq Events /\ fault' \in Faults /\ phase' \in Phases
      BY DEF Cleanup, FreeListeners
    <3>3. /\ alive' \in BOOLEAN /\ registered' \in BOOLEAN /\ open' \in BOOLEAN
          /\ link' \in BOOLEAN /\ connected' \in BOOLEAN /\ reading' \in BOOLEAN
      BY DEF Cleanup, Delete
    <3> QED BY <3>1, <3>2, <3>3 DEF Cleanup
  <2> QED BY <1>1, <1>2, <2>1
<1>4. Control' BY <1>1, <1>2 DEF Cleanup, Delete, FreeListeners, ForceRelease
<1>5. Reading' BY <1>1, <1>2 DEF Cleanup, Delete, FreeListeners, ForceRelease
<1>6. Pinning' BY <1>1, <1>2 DEF Cleanup, Delete, FreeListeners, ForceRelease
<1>7. KeptSocketsAreSafe' BY <1>1, <1>2
      DEF Cleanup, Delete, FreeListeners, ForceRelease
<1> QED BY <1>3, <1>4, <1>5, <1>6, <1>7

LEMMA CleanupOfDeletedStep ==
  ASSUME SocketInv, CleanupOfDeleted
  PROVE  SocketInv'
<1> USE BoundsAssumption, EventsAssumption
    DEF SocketInv, TypeOK, Control, Reading, OneStream, Reconnected, Pinning,
        KeptSocketsAreSafe, Careful, Calls, Risks, ReadsInHand, Tokens, Owed, One, PCs, Conts, Phases, Faults,
        object, transport, control, JsMayRun, TransportClosed, CountsAreNat, CountsKept
<1>1. CountsAreNat
  BY Counts
<1>2. /\ CountsKept
      /\ ConnectsPending' = ConnectsPending
      /\ NonePending' = NonePending
  BY OpsKept DEF CleanupOfDeleted
<1>3. TypeOK' BY <1>1, <1>2 DEF CleanupOfDeleted
<1>4. Control' BY <1>1, <1>2 DEF CleanupOfDeleted
<1>5. Reading' BY <1>1, <1>2 DEF CleanupOfDeleted
<1>6. Pinning' BY <1>1, <1>2 DEF CleanupOfDeleted
<1>7. KeptSocketsAreSafe' BY <1>1, <1>2 DEF CleanupOfDeleted
<1> QED BY <1>3, <1>4, <1>5, <1>6, <1>7

LEMMA StutterStep ==
  ASSUME SocketInv, UNCHANGED vars
  PROVE  SocketInv'
BY DEF vars, object, transport, control, SocketInv, TypeOK, Control, Reading, Pinning,
       OneStream, Reconnected, KeptSocketsAreSafe, Careful, ReadsInHand, Tokens, Owed,
       ConnectsPending, ConnectsDone, Connects, ReadsOut, WritesOut, NonePending, Outstanding

LEMMA NextInv == SocketInv /\ [Next]_vars => SocketInv'
<1> SUFFICES ASSUME SocketInv, [Next]_vars PROVE SocketInv'
  OBVIOUS
<1>1. CASE Script
  BY <1>1, ConnectStep, ConnectBadAddressStep, WriteStep, CloseStep, DropStep, FinalizeStep,
     OnStep DEF Script
<1>2. CASE HandlerStep
  BY <1>2, ConnectOkStep, ReadOkStep, WriteOkStep, ConnectFailsStep, ReadFailsStep,
     WriteFailsStep, StaleHandlerStep, ListenerReturnsStep, ReadOnStep, HandleCloseStep,
     AfterCloseStep, AfterErrorStep DEF HandlerStep
<1>3. CASE Network
  BY <1>3, CompleteStep DEF Network
<1>4. CASE Teardown
  BY <1>4, DestroyStep, DrainedStep, OthersTurnStep, CleanupStep, CleanupOfDeletedStep
     DEF Teardown
<1>5. CASE UNCHANGED vars
  BY <1>5, StutterStep
<1> QED
  BY <1>1, <1>2, <1>3, <1>4, <1>5 DEF Next

THEOREM Invariant == Spec => []SocketInv
BY InitInv, NextInv, PTL DEF Spec

------------------------------------------------------------------------------
(* What follows.                                                           *)

(* Every variable keeps its type, and no counter of operations or pins goes *)
(* below zero, although unpin and the handlers only ever subtract.          *)
THEOREM Types == Spec => []TypeOK
BY Invariant, PTL DEF SocketInv

(* At most one read is outstanding on the one buffer, as long as scripts do *)
(* not connect a link that is established, since the right to start a read  *)
(* is handed on from the connection to the read to its handler.             *)
THEOREM SingleRead == Spec => []OneRead
<1>1. SocketInv => OneRead
  BY Counts DEF CountsAreNat, SocketInv, Reading, OneStream, ReadsInHand, One, OneRead,
               ReadsOut
<1> QED
  BY <1>1, Invariant, PTL

(* Until scripts call close(), outstanding operations are covered by pins.  *)
THEOREM OperationsPinned == Spec => []PinsCoverOps
<1>1. SocketInv => PinsCoverOps
  <2> SUFFICES ASSUME SocketInv, "close" \notin used, phase = "running", fault = "none",
                      ~NoOps
               PROVE  pins > 0 /\ ~finalized /\ alive
    BY DEF PinsCoverOps
  <2>1. pins \in Nat /\ Connects \in Nat /\ ReadsOut \in Nat /\ WritesOut \in Nat
    BY Counts DEF CountsAreNat, SocketInv
  <2>2. Connects # 0 \/ ReadsOut # 0 \/ WritesOut # 0
    BY DEF NoOps, Kinds, Connects, ReadsOut, WritesOut
  <2>3. pins >= Owed
    BY DEF SocketInv, Pinning
  <2>4. pins > 0
    BY <2>1, <2>2, <2>3 DEF Owed, One
  <2> QED
    BY <2>4 DEF SocketInv, Control
<1> QED
  BY <1>1, Invariant, PTL

(* A script that keeps its socket, also from being held by another socket   *)
(* alone, replaces no listener inside itself, gives addresses to connect    *)
(* and does not both write and close, meets no use of what was freed, no    *)
(* double release, no failed assert and no exception.                       *)
THEOREM KeptSafe == Spec => []KeptSocketsAreSafe
BY Invariant, PTL DEF SocketInv

(* Nothing follows "close": neither data nor a second "close", unless       *)
(* scripts have connected a link that was established.                      *)
THEOREM NothingAfterClose == Spec => CloseIsLast
<1>1. SocketInv /\ [Next]_vars =>
        [event' \in {"data", "close"} /\ event' # event /\ ~Reconnected =>
           "close" \notin said]_vars
  <2> SUFFICES ASSUME SocketInv, Next, event' \in {"data", "close"}, event' # event,
                      ~Reconnected
               PROVE  "close" \notin said
    OBVIOUS
  <2>1. ReadOk \/ HandleClose
    BY
          DEF Next, Script, HandlerStep, Network, Teardown, Connect, AskConnect, ConnectBadAddress, Write,
           AskWrite, Close, Drop, Finalize, On, Call, control, ConnectOk, WriteOk, ConnectFails, ReadFails,
           WriteFails, StaleHandler, ListenerReturns, ReadOn, AfterClose, AfterError,
           HandlerEnds, HandleError, Emit, GoOn, Complete, Destroy, Drained, OthersTurn,
           Cleanup, CleanupOfDeleted
  <2>2. ReadsInHand > 0
    <3>1. CASE ReadOk
      <4>1. ops["read"]["ok"] > 0
        BY <3>1 DEF ReadOk, Handler, Take
      <4>2. /\ ops["read"].pending \in Nat /\ ops["read"].ok \in Nat
            /\ ops["read"].error \in Nat /\ ops["read"].aborted \in Nat
        BY SlotTypes DEF Kinds, SocketInv
      <4> QED BY <4>1, <4>2 DEF ReadsInHand, ReadsOut, Outstanding, One
    <3>2. CASE HandleClose
      <4>1. cont = "thenClose" /\ ReadsOut \in Nat
        BY <3>2, Counts DEF CountsAreNat, HandleClose, At, SocketInv
      <4> QED BY <4>1 DEF ReadsInHand, One
    <3> QED BY <2>1, <3>1, <3>2
  <2> QED
    BY <2>2 DEF SocketInv, Reading, OneStream
<1> QED
  BY <1>1, Invariant, PTL DEF Spec, CloseIsLast

(* No listener of a finalized object is called: while its operations are    *)
(* outstanding it is pinned or, after close(), deleted with its finalizer.  *)
THEOREM SilentAfterFinalizer == Spec => FinalizedIsSilent
<1>1. SocketInv /\ [Next]_vars => [said' # said => ~finalized]_vars
  <2> SUFFICES ASSUME SocketInv, Next, said' # said PROVE ~finalized
    OBVIOUS
  <2>1. ConnectOk \/ ~finalized
    BY
          DEF Next, Script, HandlerStep, Network, Teardown, Connect, AskConnect, ConnectBadAddress, Write,
           AskWrite, Close, Drop, Finalize, On, Call, ReadOk, HandleClose, WriteOk, ConnectFails, ReadFails,
           WriteFails, StaleHandler, ListenerReturns, ReadOn, AfterClose, AfterError,
           HandlerEnds, HandleError, Emit, GoOn, Complete, Destroy, Drained, OthersTurn,
           Cleanup, CleanupOfDeleted
  <2>2. ConnectOk => ~finalized
    <3> SUFFICES ASSUME ConnectOk PROVE Owed # 0 /\ fault = "none" /\ phase # "gone" /\ alive
      BY DEF SocketInv, Pinning
    <3>1. /\ ops["connect"]["ok"] > 0
          /\ fault = "none" /\ phase # "gone" /\ alive
      BY DEF ConnectOk, Handler, Take
    <3>2. /\ ops["connect"].pending \in Nat /\ ops["connect"].ok \in Nat
          /\ ops["connect"].error \in Nat /\ ops["connect"].aborted \in Nat
      BY SlotTypes DEF Kinds, SocketInv
    <3>3. Connects > 0
      BY <3>1, <3>2 DEF Connects, Outstanding
    <3>4. Connects \in Nat /\ ReadsOut \in Nat /\ WritesOut \in Nat
      BY Counts DEF CountsAreNat, SocketInv
    <3> QED BY <3>1, <3>3, <3>4 DEF Owed, One
  <2> QED BY <2>1, <2>2
<1> QED
  BY <1>1, Invariant, PTL DEF Spec, FinalizedIsSilent
=============================================================================
