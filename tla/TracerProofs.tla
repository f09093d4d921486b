--------------------------- MODULE TracerProofs ---------------------------
(* Theorems of Tracer, for any set of processes, any sizes of the tables    *)
(* and of the ring buffer.                                                  *)
EXTENDS Tracer, SlotTableTheorems, SequenceTheorems

----------------------------------------------------------------------------
\* The inductive invariant.  TypeOK and the properties of Tracer do not carry
\* themselves: that an event names a session of its process rests on what the
\* tables hold when it is sent, and that rests on how processes descend.

\* Every pid of the process tree was handed out, threads share the kin of
\* their process, shells are their own kin and have one thread.
ProcessesOK ==
  /\ \A p \in Pid : Running(p) =>
       /\ p \in born /\ tgid[p] \in born
       /\ kin[p] = kin[tgid[p]]
       /\ tgid[p] \in ShellPid => p = tgid[p]
  /\ \A p \in born : kin[p] \subseteq born
  /\ \A p \in born \cap ShellPid : p \in kin[p]

\* A traced process is accounted to a shell it descends from, itself excluded.
ChildrenKin ==
  \A i \in 0 .. MaxChildren - 1 : children[i].child # NoPid =>
    /\ children[i].child \in born
    /\ children[i].shell \in kin[children[i].child] \ {children[i].child}

\* A traced shell has the indicator it was registered under.
ShellsGranted ==
  \A i \in 0 .. MaxShells - 1 : shells[i].pid # NoPid =>
    /\ shells[i].pid \in born \cap ShellPid
    /\ <<shells[i].pid, shells[i].indicator>> \in granted

\* What the properties ask of an event, with the pids it mentions born, which
\* is what keeps it true while the process tree grows.
EventOK(e) ==
  /\ e.type = "kill" => e.pid \in born /\ NoForeignMarker(e)
  /\ e.type = "child" => e.child \in born /\ NoForeignStart(e)
  /\ e.type = "write" => e.writer \in born /\ NoForeignOutput(e)
  /\ e.type = "exit" => /\ e.pid \in born /\ ~Running(e.pid)
                        /\ <<e.pid, e.indicator>> \in granted

RingOK == \A i \in 1 .. Len(ring) : EventOK(ring[i])

\* A registration in progress is that of a shell, and its event is still at
\* the head of the ring.
RegistrationOK ==
  reg.phase # "idle" =>
    /\ reg.pid \in born \cap ShellPid
    /\ reg.indicator \in Indicator
    /\ ring # <<>>

IInv ==
  /\ TypeOK
  /\ ProcessesOK
  /\ ChildrenWellFormed
  /\ ChildrenKin
  /\ ShellsGranted
  /\ RingOK
  /\ RegistrationOK
  /\ RegistrationNeverClobbers

----------------------------------------------------------------------------
\* The columns of pids.

LEMMA KeysType ==
  ASSUME TypeOK
  PROVE  /\ DOMAIN ChildKeys = 0 .. MaxChildren - 1
         /\ \A i \in 0 .. MaxChildren - 1 : ChildKeys[i] = children[i].child
         /\ ChildKeys = [i \in 0 .. MaxChildren - 1 |-> ChildKeys[i]]
         /\ DOMAIN ShellKeys = 0 .. MaxShells - 1
         /\ \A i \in 0 .. MaxShells - 1 : ShellKeys[i] = shells[i].pid
         /\ ShellKeys = [i \in 0 .. MaxShells - 1 |-> ShellKeys[i]]
         /\ MaxChildren \in Nat /\ MaxShells \in Nat
  BY SizeAssumption DEF ChildKeys, ShellKeys

LEMMA EmptyEntries ==
  NoShell \in Shell /\ NoChild \in Child /\ NoRegistration \in Registration
<1>1. 0 \in 0 .. MaxShells
  BY SizeAssumption
<1> QED
  BY <1>1 DEF Shell, NoShell, Child, NoChild, Registration, NoRegistration

\* What a child found in the table tells.
LEMMA FoundChild ==
  ASSUME TypeOK, ChildrenKin, NEW p, Finds(ChildKeys, p)
  PROVE  /\ p \in born
         /\ children[FirstHit(ChildKeys, p)] \in Child
         /\ children[FirstHit(ChildKeys, p)].shell \in kin[p] \ {p}
         /\ children[LastHit(ChildKeys, p)] \in Child
         /\ children[LastHit(ChildKeys, p)].shell \in kin[p] \ {p}
<1>1. /\ FirstHit(ChildKeys, p) \in 0 .. MaxChildren - 1
      /\ ChildKeys[FirstHit(ChildKeys, p)] = p
      /\ LastHit(ChildKeys, p) \in 0 .. MaxChildren - 1
      /\ ChildKeys[LastHit(ChildKeys, p)] = p
      /\ p # NoPid
  BY KeysType, HitSlot
<1> QED
  BY <1>1, KeysType DEF ChildrenKin, TypeOK

\* What a shell found in the table tells.
LEMMA FoundShell ==
  ASSUME TypeOK, ShellsGranted, NEW p, Finds(ShellKeys, p)
  PROVE  /\ p \in born \cap ShellPid
         /\ FirstHit(ShellKeys, p) \in 0 .. MaxShells - 1
         /\ LastHit(ShellKeys, p) \in 0 .. MaxShells - 1
         /\ shells[FirstHit(ShellKeys, p)] \in Shell
         /\ <<p, shells[FirstHit(ShellKeys, p)].indicator>> \in granted
         /\ shells[LastHit(ShellKeys, p)] \in Shell
         /\ <<p, shells[LastHit(ShellKeys, p)].indicator>> \in granted
<1>1. /\ FirstHit(ShellKeys, p) \in 0 .. MaxShells - 1
      /\ ShellKeys[FirstHit(ShellKeys, p)] = p
      /\ LastHit(ShellKeys, p) \in 0 .. MaxShells - 1
      /\ ShellKeys[LastHit(ShellKeys, p)] = p
      /\ p # NoPid
  BY KeysType, HitSlot
<1> QED
  BY <1>1, KeysType DEF ShellsGranted, TypeOK

\* A removal from `children` keeps its type, its shape and its kin.
LEMMA ChildRemoval ==
  ASSUME TypeOK, ChildrenWellFormed, NEW p, CanRemove(ChildKeys, p),
         children' = SwapOut(children, ChildKeys, p, NoChild)
  PROVE  /\ children' \in [0 .. MaxChildren - 1 -> Child]
         /\ ChildrenWellFormed'
         /\ \A i \in 0 .. MaxChildren - 1 :
              children'[i] \in {NoChild} \cup {children[j] : j \in 0 .. MaxChildren - 1}
<1> DEFINE n == MaxChildren
<1>1. /\ FirstFree(ChildKeys) - 1 \in 0 .. n - 1
      /\ LastHit(ChildKeys, p) \in 0 .. n - 1
  BY KeysType, RemovalSlots
<1>2. children \in [0 .. n - 1 -> Child]
  BY DEF TypeOK
<1>3. children' \in [0 .. n - 1 -> Child]
  BY <1>1, <1>2, EmptyEntries DEF SwapOut
<1>4. \A i \in 0 .. n - 1 :
        children'[i] \in {NoChild} \cup {children[j] : j \in 0 .. n - 1}
  BY <1>2, KeysType, SwapOutEntries
<1>5. ChildKeys' = SwapOut(ChildKeys, ChildKeys, p, NoPid)
  <2> DEFINE last == FirstFree(ChildKeys) - 1
             h == LastHit(ChildKeys, p)
  <2>1. \A i \in 0 .. n - 1 :
          children'[i] = IF i = last THEN NoChild
                         ELSE IF i = h THEN children[last] ELSE children[i]
    BY <1>1, <1>2 DEF SwapOut
  <2>2. ChildKeys' = [i \in 0 .. n - 1 |-> children'[i].child]
    BY DEF ChildKeys
  <2>3. SwapOut(ChildKeys, ChildKeys, p, NoPid) =
          [i \in 0 .. n - 1 |-> IF i = last THEN NoPid
                                ELSE IF i = h THEN ChildKeys[last] ELSE ChildKeys[i]]
    BY <1>1, KeysType DEF SwapOut
  <2>4. NoChild.child = NoPid
    BY DEF NoChild
  <2> HIDE DEF last, h
  <2>5. \A i \in 0 .. n - 1 :
          children'[i].child = IF i = last THEN NoPid
                               ELSE IF i = h THEN ChildKeys[last] ELSE ChildKeys[i]
    BY <1>1, <2>1, <2>4, KeysType DEF last, h
  <2> QED
    BY <2>2, <2>3, <2>5
<1>6. ChildrenWellFormed'
  BY <1>5, KeysType, SwapOutWellFormed DEF ChildrenWellFormed
<1> QED
  BY <1>3, <1>4, <1>6

\* A removal from `shells` keeps its type, makes up no entry and fills no
\* empty slot.
LEMMA ShellRemoval ==
  ASSUME TypeOK, NEW p, CanRemove(ShellKeys, p),
         shells' = SwapOut(shells, ShellKeys, p, NoShell)
  PROVE  /\ shells' \in [0 .. MaxShells - 1 -> Shell]
         /\ \A i \in 0 .. MaxShells - 1 :
              shells'[i] \in {NoShell} \cup {shells[j] : j \in 0 .. MaxShells - 1}
         /\ \A i \in 0 .. MaxShells - 1 :
              shells[i].pid = NoPid => shells'[i].pid = NoPid
<1>1. /\ FirstFree(ShellKeys) - 1 \in 0 .. MaxShells - 1
      /\ LastHit(ShellKeys, p) \in 0 .. MaxShells - 1
  BY KeysType, RemovalSlots
<1>2. shells \in [0 .. MaxShells - 1 -> Shell]
  BY DEF TypeOK
<1>3. shells' \in [0 .. MaxShells - 1 -> Shell]
  BY <1>1, <1>2, EmptyEntries DEF SwapOut
<1>4. \A i \in 0 .. MaxShells - 1 :
        shells'[i] \in {NoShell} \cup {shells[j] : j \in 0 .. MaxShells - 1}
  BY <1>2, KeysType, SwapOutEntries
<1>5. ASSUME NEW i \in 0 .. MaxShells - 1, shells[i].pid = NoPid
      PROVE  shells'[i].pid = NoPid
  <2>1. i # LastHit(ShellKeys, p) /\ i # FirstFree(ShellKeys) - 1
    BY <1>5, KeysType, SwapOutFree
  <2> QED
    BY <1>2, <1>5, <2>1 DEF SwapOut
<1> QED
  BY <1>3, <1>4, <1>5

\* Sending adds at most the event sent, within the capacity of the ring.
LEMMA SubmitKeepsRing ==
  ASSUME TypeOK, NEW e \in Event, Submit(e)
  PROVE  /\ ring' \in Seq(Event) /\ Len(ring') <= RingCapacity
         /\ \A i \in 1 .. Len(ring') :
              \/ ring'[i] = e
              \/ \E j \in 1 .. Len(ring) : ring'[i] = ring[j]
         /\ ring # <<>> => ring' # <<>>
<1>1. ring \in Seq(Event) /\ Len(ring) <= RingCapacity /\ RingCapacity \in Nat
  BY SizeAssumption DEF TypeOK
<1>2. CASE Len(ring) < RingCapacity
  BY <1>1, <1>2 DEF Submit
<1>3. CASE ~ (Len(ring) < RingCapacity)
  BY <1>1, <1>3 DEF Submit
<1> QED
  BY <1>2, <1>3

\* So what holds of every event holds after sending one it holds of.
LEMMA SubmitKeepsRingOK ==
  ASSUME TypeOK, RingOK, NEW e \in Event, Submit(e), EventOK(e)',
         \A f : EventOK(f) => EventOK(f)'
  PROVE  RingOK'
<1> SUFFICES ASSUME NEW i \in 1 .. Len(ring') PROVE EventOK(ring[i])'
  BY DEF RingOK
<1>1. CASE ring'[i] = e
  BY <1>1
<1>2. ASSUME NEW j \in 1 .. Len(ring), ring'[i] = ring[j] PROVE EventOK(ring[i])'
  BY <1>2 DEF RingOK
<1> QED
  BY <1>1, <1>2, SubmitKeepsRing

\* Releasing the oldest event keeps the others.
LEMMA ReleaseKeepsRing ==
  ASSUME TypeOK, ring # <<>>, ring' = Tail(ring)
  PROVE  /\ ring' \in Seq(Event) /\ Len(ring') <= RingCapacity
         /\ \A i \in 1 .. Len(ring') : \E j \in 1 .. Len(ring) : ring'[i] = ring[j]
<1>1. ring \in Seq(Event) /\ Len(ring) <= RingCapacity /\ RingCapacity \in Nat
  BY SizeAssumption DEF TypeOK
<1>2. /\ Tail(ring) \in Seq(Event) /\ Len(Tail(ring)) = Len(ring) - 1
      /\ \A i \in 1 .. Len(Tail(ring)) : Tail(ring)[i] = ring[i + 1]
      /\ Len(ring) \in Nat
  BY <1>1, HeadTailProperties
<1>3. \A i \in 1 .. Len(ring') : i + 1 \in 1 .. Len(ring)
  BY <1>2
<1> QED
  BY <1>1, <1>2, <1>3

\* An event stays right as long as the past is not rewritten: kin and grants of
\* the pids handed out are kept, and what has exited stays so.
LEMMA EventStaysOK ==
  ASSUME NEW e, EventOK(e),
         born \subseteq born', granted \subseteq granted',
         \A p \in born : kin'[p] = kin[p],
         \A p \in born : ~Running(p) => ~Running(p)'
  PROVE  EventOK(e)'
<1>1. CASE e.type = "kill"
  BY <1>1 DEF EventOK, NoForeignMarker
<1>2. CASE e.type = "child"
  BY <1>2 DEF EventOK, NoForeignStart
<1>3. CASE e.type = "write"
  BY <1>3 DEF EventOK, NoForeignOutput, Within
<1>4. CASE e.type = "exit"
  BY <1>4 DEF EventOK
<1> QED
  BY <1>1, <1>2, <1>3, <1>4 DEF EventOK

\* The same for every event in the ring at once.
LEMMA EventsStayOK ==
  ASSUME born \subseteq born', granted \subseteq granted',
         \A p \in born : kin'[p] = kin[p],
         \A p \in born : ~Running(p) => ~Running(p)'
  PROVE  \A e : EventOK(e) => EventOK(e)'
  BY EventStaysOK

----------------------------------------------------------------------------
\* Init and the steps.

LEMMA InitIInv == Init => IInv
<1> SUFFICES ASSUME Init PROVE IInv
  OBVIOUS
<1>1. TypeOK
  <2>1. NoShells \in [0 .. MaxShells - 1 -> Shell]
    BY EmptyEntries DEF NoShells
  <2>2. NoChildren \in [0 .. MaxChildren - 1 -> Child]
    BY EmptyEntries DEF NoChildren
  <2>3. <<>> \in Seq(Event) /\ Len(<<>>) <= RingCapacity
    BY SizeAssumption
  <2> QED
    BY <2>1, <2>2, <2>3, EmptyEntries, PidAssumption DEF Init, TypeOK
<1>2. ProcessesOK
  BY PidAssumption DEF Init, ProcessesOK, Running
<1>3. ChildrenWellFormed
  BY DEF Init, ChildrenWellFormed, Compact, Distinct, ChildKeys, NoChildren, NoChild
<1>4. ChildrenKin /\ ShellsGranted
  BY DEF Init, ChildrenKin, ShellsGranted, NoChildren, NoChild, NoShells, NoShell
<1>5. RingOK
  BY DEF Init, RingOK
<1>6. RegistrationOK /\ RegistrationNeverClobbers
  BY DEF Init, RegistrationOK, RegistrationNeverClobbers, NoRegistration
<1> QED
  BY <1>1, <1>2, <1>3, <1>4, <1>5, <1>6 DEF IInv

\* The shell a fork is accounted to is kin of the forking process.
LEMMA ForkOwnerKin ==
  ASSUME IInv, NEW p \in born, ForkOwner(p) # NoPid
  PROVE  ForkOwner(p) \in kin[p] /\ ForkOwner(p) \in Pid
<1> USE DEF IInv
<1>0. kin[p] \subseteq Pid
  BY PidAssumption DEF TypeOK
<1>1. CASE Finds(ShellKeys, p)
  BY <1>0, <1>1, FoundShell DEF ForkOwner, ProcessesOK
<1>2. CASE ~Finds(ShellKeys, p) /\ Finds(ChildKeys, p)
  BY <1>0, <1>2, FoundChild DEF ForkOwner
<1> QED
  BY <1>1, <1>2 DEF ForkOwner

LEMMA CloneKeepsIInv ==
  ASSUME IInv, NEW t \in Pid, NEW c \in Pid, NEW leader \in {c, tgid[t]},
         Clone(t, c, leader)
  PROVE  IInv'
<1> USE DEF IInv
<1> DEFINE p == tgid[t]
<1>1. /\ p \in born /\ p # NoPid /\ p \in Pid /\ c # p
      /\ c \notin born /\ leader \in Pid /\ kin[t] = kin[p]
  BY DEF Clone, TypeOK, ProcessesOK, Running
<1>2. /\ born' = born \cup {c} /\ granted' = granted
      /\ shells' = shells /\ reg' = reg /\ loaded' = loaded
      /\ kin' = [kin EXCEPT ![c] = kin[p] \cup ({c} \cap ShellPid)]
      /\ tgid' = [tgid EXCEPT ![c] = leader]
  BY DEF Clone, nhidVars
<1>3. /\ \A q \in born : kin'[q] = kin[q] /\ tgid'[q] = tgid[q]
      /\ kin'[c] = kin[p] \cup ({c} \cap ShellPid) /\ tgid'[c] = leader
      /\ born \subseteq Pid
  BY <1>1, <1>2 DEF TypeOK
<1>4. \A f : EventOK(f) => EventOK(f)'
  <2>1. \A q \in born : ~Running(q) => ~Running(q)'
    BY <1>3 DEF Running
  <2> QED
    BY <1>2, <1>3, <2>1, EventsStayOK
<1>5. /\ tgid' \in [Pid -> Pid \cup {NoPid}] /\ born' \subseteq Pid
      /\ kin' \in [Pid -> SUBSET ShellPid]
  BY <1>1, <1>2 DEF TypeOK
<1>6. ProcessesOK'
  <2>1. ASSUME NEW q \in Pid, Running(q)'
        PROVE  /\ q \in born' /\ tgid'[q] \in born'
               /\ kin'[q] = kin'[tgid'[q]]
               /\ tgid'[q] \in ShellPid => q = tgid'[q]
    <3>1. CASE q = c
      <4>1. CASE leader = c
        BY <1>2, <1>3, <3>1, <4>1
      <4>2. CASE leader = p /\ {leader, c} \cap ShellPid = {}
        BY <1>1, <1>2, <1>3, <3>1, <4>2
      <4> QED
        BY <4>1, <4>2 DEF Clone
    <3>2. CASE q # c
      BY <1>2, <1>3, <2>1, <3>2 DEF ProcessesOK, Running, TypeOK
    <3> QED
      BY <3>1, <3>2
  <2>2. \A q \in born' : kin'[q] \subseteq born'
    BY <1>1, <1>2, <1>3 DEF ProcessesOK
  <2>3. \A q \in born' \cap ShellPid : q \in kin'[q]
    BY <1>2, <1>3 DEF ProcessesOK
  <2> QED
    BY <2>1, <2>2, <2>3 DEF ProcessesOK
<1>7. ShellsGranted' /\ RegistrationNeverClobbers'
  BY <1>2 DEF ShellsGranted, RegistrationNeverClobbers
<1>8. CASE loaded /\ ForkOwner(p) # NoPid /\ ~IsFull(ChildKeys)
  <2> DEFINE free == FirstFree(ChildKeys)
             owner == ForkOwner(p)
             event == [type |-> "child", shell |-> owner, child |-> c]
  <2>1. /\ children' = [children EXCEPT ![free] = [child |-> c, shell |-> owner]]
        /\ Submit(event)
    BY <1>8 DEF Clone, ForkTracepoint
  <2>2. owner \in kin[p] /\ owner \in Pid
    BY <1>1, <1>8, ForkOwnerKin
  <2>3. free \in 0 .. MaxChildren - 1
    BY <1>8, KeysType, FirstFreeSlot
  <2>4. owner \in kin'[c] \ {c}
    BY <1>1, <1>3, <2>2 DEF ProcessesOK
  <2> HIDE DEF owner, free
  <2>5. children' \in [0 .. MaxChildren - 1 -> Child]
    BY <2>1, <2>2 DEF TypeOK, Child
  <2>6. ChildrenKin'
    BY <1>2, <1>3, <2>1, <2>3, <2>4 DEF ChildrenKin, TypeOK
  <2>7. ChildrenWellFormed'
    <3>1. ChildKeys' = [ChildKeys EXCEPT ![free] = c]
      BY <2>1, <2>3 DEF ChildKeys, TypeOK
    <3>2. \A i \in 0 .. MaxChildren - 1 : ChildKeys[i] # c
      BY <1>1, KeysType, PidAssumption DEF ChildrenKin
    <3> QED
      BY <1>8, <3>1, <3>2, KeysType, AppendWellFormed, PidAssumption
      DEF ChildrenWellFormed, free
  <2>8. PICK e \in Event : e = event /\ Submit(e)
    BY <2>1, <2>2 DEF Event, ChildEvent
  <2>9. EventOK(e)'
    BY <1>2, <2>4, <2>8 DEF EventOK, NoForeignStart
  <2>10. /\ ring' \in Seq(Event) /\ Len(ring') <= RingCapacity
         /\ ring # <<>> => ring' # <<>>
    BY <2>8, SubmitKeepsRing
  <2>11. RingOK'
    BY <1>4, <2>8, <2>9, SubmitKeepsRingOK
  <2>12. RegistrationOK'
    BY <1>2, <2>10 DEF RegistrationOK
  <2> QED
    BY <1>2, <1>5, <1>6, <1>7, <2>5, <2>6, <2>7, <2>10, <2>11, <2>12 DEF TypeOK
<1>9. CASE ~ (loaded /\ ForkOwner(p) # NoPid /\ ~IsFull(ChildKeys))
  <2>1. children' = children /\ ring' = ring
    BY <1>9 DEF Clone, ForkTracepoint
  <2>2. ChildrenKin'
    BY <1>2, <1>3, <2>1 DEF ChildrenKin
  <2>3. ChildrenWellFormed'
    BY <2>1 DEF ChildrenWellFormed, ChildKeys
  <2>4. RingOK'
    BY <1>4, <2>1 DEF RingOK
  <2>5. RegistrationOK'
    BY <1>2, <2>1 DEF RegistrationOK
  <2> QED
    BY <1>2, <1>5, <1>6, <1>7, <2>1, <2>2, <2>3, <2>4, <2>5 DEF TypeOK
<1> QED
  BY <1>8, <1>9

\* The session that gets the marker of a nested shell is that of a shell it
\* descends from.
LEMMA ParentIndicatorKin ==
  ASSUME IInv, NEW s, ParentIndicator(s) # NoIndicator
  PROVE  /\ ParentIndicator(s) \in Indicator
         /\ \E k \in kin[s] \ {s} : <<k, ParentIndicator(s)>> \in granted
<1> USE DEF IInv
<1> DEFINE parent == children[LastHit(ChildKeys, s)].shell
<1>1. Finds(ChildKeys, s) /\ Finds(ShellKeys, parent)
  BY DEF ParentIndicator
<1>2. ParentIndicator(s) = shells[FirstHit(ShellKeys, parent)].indicator
  BY <1>1 DEF ParentIndicator
<1>3. parent \in kin[s] \ {s}
  BY <1>1, FoundChild
<1> HIDE DEF parent
<1>4. <<parent, ParentIndicator(s)>> \in granted
  BY <1>1, <1>2, FoundShell
<1> QED
  BY <1>3, <1>4 DEF TypeOK

LEMMA KillSomethingInfoKeepsIInv ==
  ASSUME IInv, NEW s \in ShellPid, NEW sig \in {"SIGUSR", "SIGRTMIN"},
         KillSomethingInfo(s, sig)
  PROVE  IInv'
<1> USE DEF IInv
<1> DEFINE event == [type |-> "kill", pid |-> s, sig |-> sig,
                     parent |-> IF sig = "SIGUSR" THEN ParentIndicator(s)
                                ELSE NoIndicator]
<1>1. /\ tgid' = tgid /\ born' = born /\ kin' = kin /\ loaded' = loaded
      /\ shells' = shells /\ reg' = reg /\ granted' = granted
      /\ s \in born
  BY PidAssumption DEF KillSomethingInfo, procVars, nhidVars, ProcessesOK
<1>2. PICK e \in Event : e = event /\ Submit(e)
  <2>1. event \in Event
    BY ParentIndicatorKin DEF Event, KillEvent
  <2> QED
    BY <2>1 DEF KillSomethingInfo
<1>3. \A f : EventOK(f) => EventOK(f)'
  BY <1>1 DEF EventOK, NoForeignMarker, NoForeignStart, NoForeignOutput, Within, Running
<1>4. EventOK(e)'
  <2>1. EventOK(e)
    BY <1>1, <1>2, ParentIndicatorKin DEF EventOK, NoForeignMarker
  <2> QED
    BY <1>3, <2>1
<1>5. /\ ring' \in Seq(Event) /\ Len(ring') <= RingCapacity
      /\ ring # <<>> => ring' # <<>>
      /\ RingOK'
  BY <1>2, <1>3, <1>4, SubmitKeepsRing, SubmitKeepsRingOK
<1>6. /\ children' \in [0 .. MaxChildren - 1 -> Child]
      /\ ChildrenWellFormed' /\ ChildrenKin'
  <2>1. CASE sig = "SIGUSR" /\ CanRemove(ChildKeys, s)
    <3>1. children' = SwapOut(children, ChildKeys, s, NoChild)
      BY <2>1 DEF KillSomethingInfo
    <3>2. /\ children' \in [0 .. MaxChildren - 1 -> Child] /\ ChildrenWellFormed'
          /\ \A i \in 0 .. MaxChildren - 1 : children'[i] \in
               {NoChild} \cup {children[j] : j \in 0 .. MaxChildren - 1}
      BY <2>1, <3>1, ChildRemoval
    <3> QED
      BY <1>1, <3>2 DEF ChildrenKin, NoChild
  <2>2. CASE ~ (sig = "SIGUSR" /\ CanRemove(ChildKeys, s))
    <3>1. children' = children
      BY <2>2 DEF KillSomethingInfo
    <3> QED
      BY <1>1, <3>1 DEF ChildrenKin, ChildrenWellFormed, ChildKeys, TypeOK
  <2> QED
    BY <2>1, <2>2
<1>7. TypeOK'
  BY <1>1, <1>5, <1>6 DEF TypeOK
<1>8. ProcessesOK' /\ ShellsGranted' /\ RegistrationNeverClobbers'
  BY <1>1 DEF ProcessesOK, ShellsGranted, RegistrationNeverClobbers, Running
<1>9. RegistrationOK'
  BY <1>1, <1>5 DEF RegistrationOK
<1> QED
  BY <1>5, <1>6, <1>7, <1>8, <1>9

LEMMA DoExitKeepsIInv ==
  ASSUME IInv, NEW t \in Pid, DoExit(t)
  PROVE  IInv'
<1> USE DEF IInv
<1> DEFINE p == tgid[t]
<1>1. /\ tgid' = [tgid EXCEPT ![t] = NoPid] /\ Running(t)
      /\ born' = born /\ kin' = kin /\ loaded' = loaded
      /\ reg' = reg /\ granted' = granted
  BY DEF DoExit, nhidVars
<1>2. /\ tgid'[t] = NoPid
      /\ \A q \in Pid : q # t => tgid'[q] = tgid[q]
      /\ tgid' \in [Pid -> Pid \cup {NoPid}]
      /\ p \in Pid /\ born \subseteq Pid
  BY <1>1 DEF TypeOK, Running
<1>3. \A f : EventOK(f) => EventOK(f)'
  <2>1. \A q \in born : ~Running(q) => ~Running(q)'
    BY <1>2 DEF Running
  <2> QED
    BY <1>1, <2>1, EventsStayOK
<1>4. ProcessesOK'
  BY <1>1, <1>2 DEF ProcessesOK, Running
<1>5. CASE UNCHANGED mapVars
  <2>1. shells' = shells /\ children' = children /\ ring' = ring
    BY <1>5 DEF mapVars
  <2>2. TypeOK' /\ ChildrenWellFormed' /\ ChildrenKin' /\ ShellsGranted'
    BY <1>1, <1>2, <2>1
    DEF TypeOK, ChildrenWellFormed, ChildKeys, ChildrenKin, ShellsGranted
  <2>3. RingOK'
    BY <1>3, <2>1 DEF RingOK
  <2>4. RegistrationOK' /\ RegistrationNeverClobbers'
    BY <1>1, <2>1 DEF RegistrationOK, RegistrationNeverClobbers
  <2> QED
    BY <1>4, <2>2, <2>3, <2>4
<1>6. CASE ExitShell(p)
  <2> DEFINE event == [type |-> "exit", pid |-> p,
                       indicator |-> shells[LastHit(ShellKeys, p)].indicator]
  <2>1. /\ CanRemove(ShellKeys, p) /\ Finds(ShellKeys, p)
        /\ shells' = SwapOut(shells, ShellKeys, p, NoShell)
        /\ Submit(event) /\ children' = children
    BY <1>6 DEF ExitShell, CanRemove
  <2>2. /\ shells' \in [0 .. MaxShells - 1 -> Shell]
        /\ \A i \in 0 .. MaxShells - 1 : shells'[i] \in
             {NoShell} \cup {shells[j] : j \in 0 .. MaxShells - 1}
        /\ \A i \in 0 .. MaxShells - 1 :
             shells[i].pid = NoPid => shells'[i].pid = NoPid
    BY <2>1, ShellRemoval
  <2>3. PICK e \in Event : e = event /\ Submit(e)
    <3>1. event \in Event
      BY <1>2, <2>1, FoundShell DEF Event, ExitEvent, Shell
    <3> QED
      BY <2>1, <3>1
  <2>4. EventOK(e)'
    <3>1. p \in born /\ p \in ShellPid /\ <<p, e.indicator>> \in granted
      BY <2>1, <2>3, FoundShell
    <3>2. p = t
      BY <1>1, <3>1 DEF ProcessesOK
    <3>3. e.type = "exit" /\ e.pid = t
      BY <2>3, <3>2
    <3>4. t \in born /\ <<t, e.indicator>> \in granted
      BY <3>1, <3>2
    <3>5. ~Running(t)'
      BY <1>2 DEF Running
    <3> QED
      BY <1>1, <3>3, <3>4, <3>5 DEF EventOK, Running
  <2>5. /\ ring' \in Seq(Event) /\ Len(ring') <= RingCapacity
        /\ ring # <<>> => ring' # <<>>
        /\ RingOK'
    BY <1>3, <2>3, <2>4, SubmitKeepsRing, SubmitKeepsRingOK
  <2>6. ShellsGranted'
    BY <1>1, <2>2 DEF ShellsGranted, NoShell
  <2>7. ChildrenWellFormed' /\ ChildrenKin'
    BY <1>1, <2>1 DEF ChildrenWellFormed, ChildKeys, ChildrenKin
  <2>8. RegistrationOK' /\ RegistrationNeverClobbers'
    <3>1. reg.slot < MaxShells => reg.slot \in 0 .. MaxShells - 1
      BY SizeAssumption DEF TypeOK, Registration
    <3> QED
      BY <1>1, <2>2, <2>5, <3>1 DEF RegistrationOK, RegistrationNeverClobbers
  <2>9. TypeOK'
    BY <1>1, <1>2, <2>1, <2>2, <2>5 DEF TypeOK
  <2> QED
    BY <1>4, <2>5, <2>6, <2>7, <2>8, <2>9
<1>7. CASE ExitChild(p)
  <2>1. shells' = shells /\ ring' = ring
    BY <1>7 DEF ExitChild
  <2>2. /\ children' \in [0 .. MaxChildren - 1 -> Child]
        /\ ChildrenWellFormed' /\ ChildrenKin'
    <3>1. CASE CanRemove(ChildKeys, p)
      <4>1. children' = SwapOut(children, ChildKeys, p, NoChild)
        BY <1>7, <3>1 DEF ExitChild
      <4>2. /\ children' \in [0 .. MaxChildren - 1 -> Child] /\ ChildrenWellFormed'
            /\ \A i \in 0 .. MaxChildren - 1 : children'[i] \in
                 {NoChild} \cup {children[j] : j \in 0 .. MaxChildren - 1}
        BY <3>1, <4>1, ChildRemoval
      <4> QED
        BY <1>1, <4>2 DEF ChildrenKin, NoChild
    <3>2. CASE ~CanRemove(ChildKeys, p)
      <4>1. children' = children
        BY <1>7, <3>2 DEF ExitChild
      <4> QED
        BY <1>1, <4>1 DEF ChildrenKin, ChildrenWellFormed, ChildKeys, TypeOK
    <3> QED
      BY <3>1, <3>2
  <2>3. RingOK'
    BY <1>3, <2>1 DEF RingOK
  <2>4. /\ RegistrationOK' /\ RegistrationNeverClobbers'
        /\ ShellsGranted' /\ TypeOK'
    BY <1>1, <1>2, <2>1, <2>2
    DEF RegistrationOK, RegistrationNeverClobbers, ShellsGranted, TypeOK
  <2> QED
    BY <1>4, <2>2, <2>3, <2>4
<1> QED
  BY <1>5, <1>6, <1>7 DEF DoExit, ExitNoShells

\* The event a write sends: found through the tables it names a session of the
\* writer, and a slot past the end of the table gives the zero indicator.
LEMMA WriteEventKin ==
  ASSUME IInv, NEW t \in Pid, Running(t), NEW data \in Data,
         NEW owner \in WriteOwners(tgid[t]), NEW slot \in WriteSlots(owner)
  PROVE  /\ WriteEventOf(t, data, slot) \in Event
         /\ EventOK(WriteEventOf(t, data, slot))
         /\ slot < MaxShells => slot \in 0 .. MaxShells - 1
<1> USE DEF IInv
<1> DEFINE e == WriteEventOf(t, data, slot)
<1>1. \/ Finds(ShellKeys, owner) /\ slot = FirstHit(ShellKeys, owner)
      \/ slot = MaxShells
  BY DEF WriteSlots
<1>2. slot < MaxShells =>
        /\ slot \in 0 .. MaxShells - 1 /\ shells[slot] \in Shell
        /\ <<owner, shells[slot].indicator>> \in granted
  <2>1. CASE Finds(ShellKeys, owner) /\ slot = FirstHit(ShellKeys, owner)
    BY <2>1, FoundShell
  <2>2. CASE slot = MaxShells
    BY <2>2, SizeAssumption
  <2> QED
    BY <1>1, <2>1, <2>2
<1>3. /\ e.type = "write" /\ e.writer = t
      /\ e.tracked = Finds(ChildKeys, tgid[t]) /\ e.tracked \in BOOLEAN
      /\ e.indicator = IF slot < MaxShells THEN shells[slot].indicator
                       ELSE NoIndicator
  BY DEF WriteEventOf, Finds
<1>4. e \in Event
  BY <1>2 DEF WriteEventOf, Finds, Event, WriteEvent, Shell
<1>5. t \in born /\ kin[t] = kin[tgid[t]]
  BY DEF ProcessesOK
<1>6. ASSUME e.tracked, e.indicator # NoIndicator PROVE Within(t, e.indicator)
  <2>1. Finds(ChildKeys, tgid[t])
    BY <1>3, <1>6
  <2>2. owner = children[FirstHit(ChildKeys, tgid[t])].shell
    BY <2>1 DEF WriteOwners
  <2>3. owner \in kin[t]
    BY <1>5, <2>1, <2>2, FoundChild
  <2>4. slot < MaxShells /\ e.indicator = shells[slot].indicator
    BY <1>3, <1>6
  <2>5. <<owner, e.indicator>> \in granted
    BY <1>2, <2>4
  <2> HIDE DEF e
  <2> QED
    BY <2>3, <2>5 DEF Within
<1>7. EventOK(e)
  <2> HIDE DEF e
  <2> QED
    BY <1>3, <1>5, <1>6 DEF EventOK, NoForeignOutput
<1> QED
  BY <1>2, <1>4, <1>7

LEMMA KsysWriteKeepsIInv ==
  ASSUME IInv, NEW t \in Pid, NEW data \in Data, KsysWrite(t, data)
  PROVE  IInv'
<1> USE DEF IInv
<1>1. /\ tgid' = tgid /\ born' = born /\ kin' = kin /\ loaded' = loaded
      /\ children' = children /\ reg' = reg /\ granted' = granted /\ Running(t)
  BY DEF KsysWrite, procVars, nhidVars
<1>2. PICK owner \in WriteOwners(tgid[t]) : \E slot \in WriteSlots(owner) :
        KsysWriteEnter(slot) \/ KsysWriteLeave(t, data, slot) \/ KsysWriteText(t, data, slot)
  BY DEF KsysWrite
<1>3. PICK slot \in WriteSlots(owner) :
        KsysWriteEnter(slot) \/ KsysWriteLeave(t, data, slot) \/ KsysWriteText(t, data, slot)
  BY <1>2
<1>4. /\ WriteEventOf(t, data, slot) \in Event
      /\ EventOK(WriteEventOf(t, data, slot))
      /\ slot < MaxShells => slot \in 0 .. MaxShells - 1
  BY <1>1, WriteEventKin
<1>5. \A f : EventOK(f) => EventOK(f)'
  BY <1>1 DEF EventOK, NoForeignMarker, NoForeignStart, NoForeignOutput, Within, Running
<1>6. /\ ring' \in Seq(Event) /\ Len(ring') <= RingCapacity
      /\ ring # <<>> => ring' # <<>>
      /\ RingOK'
  <2>1. CASE Submit(WriteEventOf(t, data, slot))
    <3>1. PICK e \in Event : e = WriteEventOf(t, data, slot) /\ Submit(e)
      BY <1>4, <2>1
    <3>2. EventOK(e)'
      <4>1. EventOK(e)
        BY <1>4, <3>1
      <4> QED
        BY <1>5, <4>1
    <3> QED
      BY <1>5, <3>1, <3>2, SubmitKeepsRing, SubmitKeepsRingOK
  <2>2. CASE UNCHANGED ring
    BY <1>5, <2>2 DEF RingOK, TypeOK
  <2> QED
    BY <1>3, <2>1, <2>2 DEF KsysWriteEnter, KsysWriteLeave, KsysWriteText
<1>7. /\ shells' \in [0 .. MaxShells - 1 -> Shell]
      /\ \A i \in 0 .. MaxShells - 1 :
           shells'[i].pid = shells[i].pid /\ shells'[i].indicator = shells[i].indicator
  <2>1. shells \in [0 .. MaxShells - 1 -> Shell]
    BY DEF TypeOK
  <2>2. ASSUME NEW omit \in BOOLEAN, NEW i \in 0 .. MaxShells - 1,
               shells' = [shells EXCEPT ![i].omit = omit]
        PROVE  <1>7!1 /\ <1>7!2
    BY <2>1, <2>2 DEF Shell
  <2>3. CASE shells' = shells
    BY <2>1, <2>3
  <2> QED
    BY <1>3, <1>4, <2>2, <2>3 DEF KsysWriteEnter, KsysWriteLeave, KsysWriteText
<1>8. TypeOK'
  BY <1>1, <1>6, <1>7 DEF TypeOK
<1>9. ProcessesOK' /\ ChildrenKin' /\ ChildrenWellFormed'
  BY <1>1 DEF ProcessesOK, ChildrenKin, ChildrenWellFormed, ChildKeys, Running
<1>10. ShellsGranted'
  BY <1>1, <1>7 DEF ShellsGranted
<1>11. RegistrationOK' /\ RegistrationNeverClobbers'
  <2>1. reg.slot < MaxShells => reg.slot \in 0 .. MaxShells - 1
    BY SizeAssumption DEF TypeOK, Registration
  <2> QED
    BY <1>1, <1>6, <1>7, <2>1 DEF RegistrationOK, RegistrationNeverClobbers
<1> QED
  BY <1>6, <1>8, <1>9, <1>10, <1>11

----------------------------------------------------------------------------
\* nhid's steps leave the processes and `children` alone.

\* Only the local state of the handler moves: scan and inspection.
LEMMA HandlerStepKeepsIInv ==
  ASSUME IInv, StartRegistration \/ ScanSlot \/ InspectShell
  PROVE  IInv'
<1> USE DEF IInv
<1>1. /\ tgid' = tgid /\ born' = born /\ kin' = kin /\ loaded' = loaded
      /\ shells' = shells /\ children' = children /\ ring' = ring
      /\ granted' = granted
  BY DEF StartRegistration, ScanSlot, InspectShell, procVars, mapVars
<1>2. reg' \in Registration /\ RegistrationOK' /\ RegistrationNeverClobbers'
  <2>1. CASE StartRegistration
    <3>1. ring # <<>> /\ Head(ring) \in Event /\ EventOK(Head(ring))
      <4>1. ring # <<>> /\ ring \in Seq(Event)
        BY <2>1 DEF StartRegistration, TypeOK
      <4>2. Head(ring) = ring[1] /\ 1 \in 1 .. Len(ring)
        BY <4>1
      <4> QED
        BY <4>1, <4>2 DEF RingOK
    <3>2. Head(ring).type = "kill"
      BY <2>1 DEF StartRegistration, IsRegistration
    <3>3. Head(ring).pid \in born \cap ShellPid
      BY <3>1, <3>2, PidAssumption
      DEF EventOK, Event, KillEvent, ChildEvent, ExitEvent, WriteEvent
    <3>4. PICK indicator \in Indicator :
            reg' = [phase |-> "scan", pid |-> Head(ring).pid,
                    indicator |-> indicator, slot |-> 0]
      BY <2>1 DEF StartRegistration
    <3>5. 0 \in 0 .. MaxShells
      BY SizeAssumption
    <3> QED
      BY <1>1, <3>1, <3>3, <3>4, <3>5, PidAssumption
      DEF Registration, RegistrationOK, RegistrationNeverClobbers
  <2>2. CASE ScanSlot
    <3>1. reg \in Registration /\ reg.phase = "scan" /\ reg.slot \in 0 .. MaxShells
      BY <2>2 DEF ScanSlot, TypeOK, Registration
    <3>2. CASE reg.slot < MaxShells /\ shells[reg.slot].pid # NoPid
      <4>1. reg' = [reg EXCEPT !.slot = @ + 1] /\ reg.slot + 1 \in 0 .. MaxShells
        BY <2>2, <3>1, <3>2, SizeAssumption DEF ScanSlot
      <4> QED
        BY <1>1, <3>1, <4>1
        DEF Registration, RegistrationOK, RegistrationNeverClobbers
    <3>3. CASE ~ (reg.slot < MaxShells /\ shells[reg.slot].pid # NoPid)
      <4>1. reg' = [reg EXCEPT !.phase = "inspect"]
        BY <2>2, <3>3 DEF ScanSlot
      <4> QED
        BY <1>1, <3>1, <3>3, <4>1
        DEF Registration, RegistrationOK, RegistrationNeverClobbers
    <3> QED
      BY <3>2, <3>3
  <2>3. CASE InspectShell
    BY <1>1, <2>3
    DEF InspectShell, TypeOK, Registration, RegistrationOK, RegistrationNeverClobbers
  <2> QED
    BY <2>1, <2>2, <2>3
<1>3. TypeOK'
  BY <1>1, <1>2 DEF TypeOK
<1>4. ProcessesOK' /\ ChildrenKin' /\ ChildrenWellFormed' /\ ShellsGranted'
  BY <1>1
  DEF ProcessesOK, ChildrenKin, ChildrenWellFormed, ChildKeys, ShellsGranted, Running
<1>5. RingOK'
  BY <1>1 DEF RingOK, EventOK, NoForeignMarker, NoForeignStart, NoForeignOutput, Within, Running
<1> QED
  BY <1>2, <1>3, <1>4, <1>5

\* A handler returns and its event is released.
LEMMA ReleaseKeepsIInv ==
  ASSUME IInv, RegistrationFails \/ Register \/ Consume
  PROVE  IInv'
<1> USE DEF IInv
<1>1. /\ tgid' = tgid /\ born' = born /\ kin' = kin /\ loaded' = loaded
      /\ children' = children
      /\ ring # <<>> /\ ring' = Tail(ring)
  BY DEF RegistrationFails, Register, Consume, procVars, RegistrationOK
<1>2. reg' \in Registration /\ reg'.phase = "idle"
  <2>1. CASE Consume
    BY <2>1 DEF Consume, nhidVars, Idle, TypeOK
  <2>2. CASE RegistrationFails \/ Register
    <3>1. reg' = NoRegistration
      BY <2>2 DEF RegistrationFails, Register
    <3> QED
      BY <3>1, EmptyEntries DEF NoRegistration
  <2> QED
    BY <2>1, <2>2
<1>3. /\ shells' \in [0 .. MaxShells - 1 -> Shell]
      /\ granted \subseteq granted' /\ granted' \subseteq ShellPid \X Indicator
      /\ ShellsGranted'
  <2>1. CASE shells' = shells /\ granted' = granted
    BY <1>1, <2>1 DEF ShellsGranted, TypeOK
  <2>2. CASE Register /\ reg.slot < MaxShells
    <3>1. /\ reg.slot \in 0 .. MaxShells - 1 /\ reg.pid \in born \cap ShellPid
          /\ reg.indicator \in Indicator
      BY <2>2, SizeAssumption DEF Register, TypeOK, Registration, RegistrationOK
    <3>2. PICK omit \in BOOLEAN : shells' = [shells EXCEPT ![reg.slot] =
            [pid |-> reg.pid, indicator |-> reg.indicator, omit |-> omit]]
      BY <2>2 DEF Register
    <3>3. granted' = granted \cup {<<reg.pid, reg.indicator>>}
      BY <2>2 DEF Register
    <3>4. [pid |-> reg.pid, indicator |-> reg.indicator, omit |-> omit] \in Shell
      BY <3>1, PidAssumption DEF Shell
    <3> QED
      BY <1>1, <3>1, <3>2, <3>3, <3>4 DEF ShellsGranted, TypeOK
  <2> QED
    BY <2>1, <2>2 DEF RegistrationFails, Register, Consume, nhidVars
<1>4. \A f : EventOK(f) => EventOK(f)'
  BY <1>1, <1>3, EventsStayOK DEF Running
<1>5. /\ ring' \in Seq(Event) /\ Len(ring') <= RingCapacity
      /\ \A i \in 1 .. Len(ring') : \E j \in 1 .. Len(ring) : ring'[i] = ring[j]
  BY <1>1, ReleaseKeepsRing
<1>6. RingOK'
  <2> SUFFICES ASSUME NEW i \in 1 .. Len(ring') PROVE EventOK(ring[i])'
    BY DEF RingOK
  <2>1. PICK j \in 1 .. Len(ring) : ring'[i] = ring[j]
    BY <1>5
  <2>2. PICK f : f = ring[j] /\ EventOK(f)
    BY DEF RingOK
  <2>3. EventOK(f)' /\ ring'[i] = f
    BY <1>4, <2>1, <2>2
  <2> QED
    BY <2>3
<1>7. TypeOK'
  BY <1>1, <1>2, <1>3, <1>5 DEF TypeOK
<1>8. ProcessesOK' /\ ChildrenKin' /\ ChildrenWellFormed'
  BY <1>1 DEF ProcessesOK, ChildrenKin, ChildrenWellFormed, ChildKeys, Running
<1>9. RegistrationOK' /\ RegistrationNeverClobbers'
  BY <1>2 DEF RegistrationOK, RegistrationNeverClobbers
<1> QED
  BY <1>3, <1>6, <1>7, <1>8, <1>9

\* nhid goes and comes back: with the maps go all claims about them.
LEMMA RestartKeepsIInv ==
  ASSUME IInv, Unload \/ Load
  PROVE  IInv'
<1> USE DEF IInv
<1>1. CASE Load
  <2>1. /\ UNCHANGED <<procVars, mapVars, nhidVars>> /\ loaded' \in BOOLEAN
    BY <1>1 DEF Load
  <2> QED
    BY <2>1
    DEF procVars, mapVars, nhidVars, TypeOK, ProcessesOK, ChildrenWellFormed,
        ChildKeys, ChildrenKin, ShellsGranted, RingOK, EventOK, NoForeignMarker,
        NoForeignStart, NoForeignOutput, Within, Running, RegistrationOK,
        RegistrationNeverClobbers
<1>2. CASE Unload
  <2>1. /\ tgid' = tgid /\ born' = born /\ kin' = kin /\ granted' = granted
        /\ loaded' = FALSE /\ ring' = <<>> /\ reg' = NoRegistration
        /\ shells' = NoShells /\ children' = NoChildren
    BY <1>2 DEF Unload, procVars
  <2>2. TypeOK'
    <3>1. NoShells \in [0 .. MaxShells - 1 -> Shell]
      BY EmptyEntries DEF NoShells
    <3>2. NoChildren \in [0 .. MaxChildren - 1 -> Child]
      BY EmptyEntries DEF NoChildren
    <3>3. <<>> \in Seq(Event) /\ Len(<<>>) <= RingCapacity
      BY SizeAssumption
    <3> QED
      BY <2>1, <3>1, <3>2, <3>3, EmptyEntries DEF TypeOK
  <2>3. ProcessesOK'
    BY <2>1 DEF ProcessesOK, Running
  <2>4. ChildrenWellFormed' /\ ChildrenKin' /\ ShellsGranted'
    BY <2>1
    DEF ChildrenWellFormed, Compact, Distinct, ChildKeys, ChildrenKin,
        ShellsGranted, NoChildren, NoChild, NoShells, NoShell
  <2>5. RingOK' /\ RegistrationOK' /\ RegistrationNeverClobbers'
    BY <2>1 DEF RingOK, RegistrationOK, RegistrationNeverClobbers, NoRegistration
  <2> QED
    BY <2>2, <2>3, <2>4, <2>5
<1> QED
  BY <1>1, <1>2

LEMMA StutterKeepsIInv ==
  ASSUME IInv, UNCHANGED vars
  PROVE  IInv'
  BY DEF vars, procVars, mapVars, nhidVars, IInv, TypeOK, ProcessesOK,
         ChildrenWellFormed, ChildKeys, ChildrenKin, ShellsGranted, RingOK, EventOK,
         NoForeignMarker, NoForeignStart, NoForeignOutput, Within, Running,
         RegistrationOK, RegistrationNeverClobbers

LEMMA NextKeepsIInv == IInv /\ [Next]_vars => IInv'
<1> SUFFICES ASSUME IInv, [Next]_vars PROVE IInv'
  OBVIOUS
<1>1. CASE \E t, c \in Pid : \E leader \in {c, tgid[t]} : Clone(t, c, leader)
  BY <1>1, CloneKeepsIInv
<1>2. CASE \E s \in ShellPid : \E sig \in {"SIGUSR", "SIGRTMIN"} :
             KillSomethingInfo(s, sig)
  BY <1>2, KillSomethingInfoKeepsIInv
<1>3. CASE \E t \in Pid : DoExit(t)
  BY <1>3, DoExitKeepsIInv
<1>4. CASE \E t \in Pid, data \in Data : KsysWrite(t, data)
  BY <1>4, KsysWriteKeepsIInv
<1>5. CASE NhidStep
  BY <1>5, HandlerStepKeepsIInv, ReleaseKeepsIInv, RestartKeepsIInv DEF NhidStep
<1>6. CASE UNCHANGED vars
  BY <1>6, StutterKeepsIInv
<1> QED
  BY <1>1, <1>2, <1>3, <1>4, <1>5, <1>6 DEF Next

LEMMA IInvAlways == Spec => []IInv
  BY InitIInv, NextKeepsIInv, PTL DEF Spec

----------------------------------------------------------------------------
\* The tables, the ring buffer and the handler keep their types.
THEOREM TypeCorrect == Spec => []TypeOK
<1>1. IInv => TypeOK
  BY DEF IInv
<1> QED
  BY <1>1, IInvAlways, PTL

\* `children` never has a hole or a pid twice: no traced process is hidden from
\* the scans, and one removal forgets a process.
THEOREM ChildrenStayWellFormed == Spec => []ChildrenWellFormed
<1>1. IInv => ChildrenWellFormed
  BY DEF IInv
<1> QED
  BY <1>1, IInvAlways, PTL

\* No event in the ring buffer names a session its process is not part of.
THEOREM EventsStayInTheirSession == Spec => []NoForeignEvent
<1>1. IInv => NoForeignEvent
  <2> SUFFICES ASSUME IInv, NEW i \in 1 .. Len(ring), NEW e, e = ring[i]
               PROVE  NoForeignOutput(e) /\ NoForeignStart(e) /\ NoForeignMarker(e)
    BY DEF NoForeignEvent
  <2>1. EventOK(e)
    BY DEF IInv, RingOK
  <2> QED
    BY <2>1 DEF EventOK, NoForeignOutput, NoForeignStart, NoForeignMarker
<1> QED
  BY <1>1, IInvAlways, PTL

\* The slot nhid writes is free, however long ago it looked.
THEOREM RegistrationIsSafe == Spec => []RegistrationNeverClobbers
<1>1. IInv => RegistrationNeverClobbers
  BY DEF IInv
<1> QED
  BY <1>1, IInvAlways, PTL

\* No session is closed while its shell runs on.
THEOREM ClosingIsTruthful == Spec => []ClosedSessionsAreOver
<1>1. IInv => ClosedSessionsAreOver
  BY DEF IInv, RingOK, EventOK, ClosedSessionsAreOver
<1> QED
  BY <1>1, IInvAlways, PTL
===========================================================================
