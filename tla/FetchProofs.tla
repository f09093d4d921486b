---------------------------- MODULE FetchProofs ----------------------------
(* Proofs about Fetch, for any number of sessions, writes and commands.     *)
EXTENDS Fetch, SequenceTheorems, WellFoundedInduction, TLAPS

----------------------------------------------------------------------------
(* What nhid records, with the sessions K announced so far: an indicator of *)
(* one of them follows every marker of a nested session.                    *)

TokenIn(K) == {Out, Err, Nested, Nul} \cup 1 .. MaxWrites \cup K
OutputsIn(K) ==
  {o \in Seq(TokenIn(K)) :
     \A j \in 1 .. Len(o) : o[j] = Nested => j < Len(o) /\ o[j + 1] \in K}
RowIn(K) == [command : BOOLEAN, output : OutputsIn(K)]

FrameIn(K) == [session : Session, row : Nat, rows : Seq(RowIn(K)), output : OutputsIn(K),
               stdout : Seq(Token), stderr : Seq(Token),
               writeStdout : BOOLEAN, busy : BOOLEAN]

\* Only the buffer that is written holds text.
GoodFrames(K) == {f \in FrameIn(K) : /\ f.writeStdout => f.stderr = <<>>
                                     /\ ~f.writeStdout => f.stdout = <<>>}

LEMMA NotNested ==
  /\ \A s \in Session : s # Nested /\ s # Nul
  /\ \A w \in 1 .. MaxWrites : w # Nested
BY BoundAssumption, SessionAssumption DEF Nested, Nul

LEMMA OutputsGrow ==
  ASSUME NEW K, NEW L, K \subseteq L
  PROVE  OutputsIn(K) \subseteq OutputsIn(L) /\ Seq(RowIn(K)) \subseteq Seq(RowIn(L))
<1>1. TokenIn(K) \subseteq TokenIn(L)
  BY DEF TokenIn
<1>2. OutputsIn(K) \subseteq OutputsIn(L)
  <2>1. \A o \in Seq(TokenIn(K)) : o \in Seq(TokenIn(L))
    BY <1>1, SeqMonotonic
  <2> QED
    BY <2>1 DEF OutputsIn
<1>3. RowIn(K) \subseteq RowIn(L)
  BY <1>2 DEF RowIn
<1>4. \A r \in Seq(RowIn(K)) : r \in Seq(RowIn(L))
  BY <1>3, SeqMonotonic
<1> QED
  BY <1>2, <1>4

LEMMA FramesGrow ==
  ASSUME NEW K, NEW L, K \subseteq L, NEW fs \in Seq(GoodFrames(K))
  PROVE  fs \in Seq(GoodFrames(L))
<1>1. GoodFrames(K) \subseteq GoodFrames(L)
  BY OutputsGrow DEF GoodFrames, FrameIn
<1> QED
  BY <1>1, SeqMonotonic

LEMMA OutputsAreOutputs ==
  ASSUME NEW K, K \subseteq Session
  PROVE  /\ OutputsIn(K) \subseteq Outputs /\ RowIn(K) \subseteq Row
         /\ TokenIn(K) \subseteq Token
<1>1. TokenIn(K) \subseteq Token
  BY DEF TokenIn, Token
<1>2. \A o \in Seq(TokenIn(K)) : o \in Seq(Token)
  BY <1>1, SeqMonotonic
<1>3. OutputsIn(K) \subseteq Outputs
  BY <1>2 DEF OutputsIn, Outputs
<1> QED
  BY <1>1, <1>3 DEF RowIn, Row

LEMMA EmptyOutput == \A K : <<>> \in OutputsIn(K)
<1> SUFFICES ASSUME NEW K PROVE <<>> \in OutputsIn(K)
  OBVIOUS
<1>1. <<>> \in Seq(TokenIn(K)) /\ Len(<<>>) = 0
  BY EmptySeq
<1> QED
  BY <1>1 DEF OutputsIn

LEMMA NewRowOK == \A K : NewRow \in RowIn(K)
BY EmptyOutput DEF NewRow, RowIn

\* A text under its marker, and a marker of a nested session.
LEMMA OutputAppended ==
  ASSUME NEW K, K \subseteq Session, NEW o \in OutputsIn(K), NEW a, NEW b,
         \/ a \in {Out, Err} /\ b \in 1 .. MaxWrites
         \/ a = Nested /\ b \in K
  PROVE  o \o <<a, b>> \in OutputsIn(K)
<1> DEFINE t == <<a, b>>
           n == Len(o)
<1>1. a \in TokenIn(K) /\ b \in TokenIn(K) /\ b # Nested
  BY NotNested DEF TokenIn
<1>2. o \in Seq(TokenIn(K)) /\ t \in Seq(TokenIn(K)) /\ Len(t) = 2 /\ t[1] = a /\ t[2] = b
  <2>1. o \in Seq(TokenIn(K))
    BY DEF OutputsIn
  <2>2. t \in Seq(TokenIn(K)) /\ Len(t) = 2 /\ t[1] = a /\ t[2] = b
    BY <1>1
  <2> QED
    BY <2>1, <2>2
<1>3. n \in Nat
  BY <1>2, LenProperties
<1> HIDE DEF t
<1>4. /\ o \o t \in Seq(TokenIn(K)) /\ Len(o \o t) = n + 2
      /\ \A i \in 1 .. n + 2 : (o \o t)[i] = IF i <= n THEN o[i] ELSE t[i - n]
  <2>1. /\ o \o t \in Seq(TokenIn(K)) /\ Len(o \o t) = Len(o) + Len(t)
        /\ \A i \in 1 .. Len(o) + Len(t) :
             (o \o t)[i] = IF i <= Len(o) THEN o[i] ELSE t[i - Len(o)]
    BY <1>2, ConcatProperties, Zenon
  <2>2. Len(o) + Len(t) = n + 2
    BY <1>2
  <2> QED
    BY <2>1, <2>2
<1>5. ASSUME NEW j \in 1 .. n + 2, (o \o t)[j] = Nested
      PROVE  j < n + 2 /\ (o \o t)[j + 1] \in K
  <2>1. CASE j <= n
    <3>1. j \in 1 .. n /\ o[j] = Nested
      BY <1>3, <1>4, <1>5, <2>1
    <3>2. j < n /\ o[j + 1] \in K
      BY <3>1 DEF OutputsIn
    <3> QED
      BY <1>3, <1>4, <2>1, <3>2
  <2>2. CASE j = n + 1
    <3>1. j - n = 1 /\ j + 1 - n = 2 /\ ~ (j + 1 <= n) /\ ~ (j <= n)
          /\ j + 1 \in 1 .. n + 2 /\ j < n + 2
      BY <1>3, <2>2
    <3>2. (o \o t)[j] = a /\ (o \o t)[j + 1] = b
      BY <1>2, <1>4, <1>5, <3>1
    <3>3. a = Nested
      BY <1>5, <3>2
    <3> QED
      BY <3>1, <3>2, <3>3 DEF Nested, Out, Err
  <2>3. j # n + 2
    <3>1. ASSUME j = n + 2 PROVE j - n = 2 /\ ~ (j <= n)
      BY <1>3, <3>1
    <3>2. ASSUME j = n + 2 PROVE (o \o t)[j] = b
      BY <1>2, <1>4, <1>5, <3>1, <3>2
    <3> QED
      BY <1>1, <1>5, <3>2
  <2>4. j <= n \/ j = n + 1
    BY <1>3, <2>3
  <2> QED
    BY <2>1, <2>2, <2>4
<1>6. o \o t \in OutputsIn(K)
  BY <1>4, <1>5 DEF OutputsIn
<1> QED
  BY <1>6 DEF t

\* Reading a byte.
LEMMA OutputTail ==
  ASSUME NEW K, NEW o \in OutputsIn(K), o # <<>>
  PROVE  Head(o) \in TokenIn(K) /\ Tail(o) \in OutputsIn(K)
<1>1. o \in Seq(TokenIn(K))
  BY DEF OutputsIn
<1>2. /\ Head(o) \in TokenIn(K) /\ Tail(o) \in Seq(TokenIn(K)) /\ Len(Tail(o)) = Len(o) - 1
      /\ \A i \in 1 .. Len(Tail(o)) : Tail(o)[i] = o[i + 1]
  BY <1>1, HeadTailProperties
<1>3. Len(o) \in Nat /\ Len(Tail(o)) \in Nat
  BY <1>1, <1>2, LenProperties
<1>4. ASSUME NEW j \in 1 .. Len(Tail(o)), Tail(o)[j] = Nested
      PROVE  j < Len(Tail(o)) /\ Tail(o)[j + 1] \in K
  <2>1. j + 1 \in 1 .. Len(o) /\ o[j + 1] = Nested
    BY <1>2, <1>3, <1>4
  <2>2. j + 1 < Len(o) /\ o[(j + 1) + 1] \in K
    BY <2>1 DEF OutputsIn
  <2>3. j < Len(Tail(o)) /\ j + 1 \in 1 .. Len(Tail(o))
    BY <1>2, <1>3, <2>2
  <2> QED
    BY <1>2, <2>2, <2>3
<1> QED
  BY <1>2, <1>4 DEF OutputsIn

\* The indicator after a marker, and what is left when it is overwritten.
LEMMA OutputNested ==
  ASSUME NEW K, NEW o \in OutputsIn(K), o # <<>>, Head(o) = Nested
  PROVE  /\ Tail(o) # <<>> /\ Head(Tail(o)) \in K
         /\ <<Nul>> \o Tail(Tail(o)) \in OutputsIn(K)
<1>1. o \in Seq(TokenIn(K))
  BY DEF OutputsIn
<1>2. Len(o) \in Nat /\ Len(o) # 0
  BY <1>1, EmptySeq
<1>3. o[1] = Nested /\ 1 \in 1 .. Len(o)
  BY <1>1, <1>2
<1>4. 1 < Len(o) /\ o[2] \in K
  BY <1>3 DEF OutputsIn
<1> DEFINE t == Tail(o)
<1>5. /\ t \in Seq(TokenIn(K)) /\ Len(t) = Len(o) - 1
      /\ \A i \in 1 .. Len(t) : t[i] = o[i + 1]
  BY <1>1, HeadTailProperties
<1>6. t \in OutputsIn(K)
  BY OutputTail
<1> HIDE DEF t
<1>7. t # <<>> /\ Head(t) \in K
  <2>1. Len(t) # 0 /\ 1 \in 1 .. Len(t)
    BY <1>2, <1>4, <1>5
  <2>2. t # <<>>
    BY <2>1, EmptySeq
  <2> QED
    BY <1>4, <1>5, <2>1, <2>2
<1> DEFINE u == Tail(t)
           m == Len(u)
<1>8. u \in OutputsIn(K)
  BY <1>6, <1>7, OutputTail
<1> HIDE DEF u
<1>9. u \in Seq(TokenIn(K)) /\ m \in Nat
  BY <1>8, LenProperties DEF OutputsIn
<1>10. <<Nul>> \in Seq(TokenIn(K)) /\ Len(<<Nul>>) = 1 /\ <<Nul>>[1] = Nul
  BY DEF TokenIn
<1> DEFINE z == <<Nul>> \o u
<1>11. /\ z \in Seq(TokenIn(K)) /\ Len(z) = m + 1
       /\ \A i \in 1 .. m + 1 : z[i] = IF i <= 1 THEN Nul ELSE u[i - 1]
  <2>1. /\ z \in Seq(TokenIn(K)) /\ Len(z) = 1 + m
        /\ \A i \in 1 .. 1 + m : z[i] = IF i <= 1 THEN <<Nul>>[i] ELSE u[i - 1]
    BY <1>9, <1>10, ConcatProperties
  <2>2. 1 + m = m + 1 /\ \A i \in 1 .. m + 1 : i <= 1 => i = 1
    BY <1>9
  <2> QED
    BY <1>10, <2>1, <2>2
<1> HIDE DEF z
<1>12. ASSUME NEW j \in 1 .. m + 1, z[j] = Nested PROVE j < m + 1 /\ z[j + 1] \in K
  <2>1. j # 1
    BY <1>11, <1>12 DEF Nested, Nul
  <2>2. j - 1 \in 1 .. m /\ ~ (j <= 1) /\ (j - 1) + 1 = j
    BY <1>9, <2>1
  <2>3. u[j - 1] = Nested
    BY <1>11, <1>12, <2>2
  <2>4. j - 1 < m /\ u[j] \in K
    BY <1>8, <2>2, <2>3 DEF OutputsIn
  <2>5. j + 1 \in 1 .. m + 1 /\ ~ (j + 1 <= 1) /\ (j + 1) - 1 = j /\ j < m + 1
    BY <1>9, <2>4
  <2> QED
    BY <1>11, <2>4, <2>5
<1>13. z \in OutputsIn(K)
  BY <1>11, <1>12 DEF OutputsIn
<1> QED
  BY <1>7, <1>13 DEF t, u, z

----------------------------------------------------------------------------
(* The invariant. *)

\* Sessions that have, have had or will have a table.
Announced == created \cup starting \cup removed

RecordedOK ==
  /\ Announced \subseteq Session
  /\ rows \in [Session -> Seq(RowIn(Announced))]
  /\ \A s \in created : rows[s] # <<>>
  /\ written \in 0 .. MaxWrites

ReaderOK ==
  /\ frames \in Seq(GoodFrames(Announced))
  /\ result \in {"idle", "running", "done", "failed"}
  /\ result = "running" <=> frames # <<>>
  /\ recursive \in BOOLEAN

FetchInv == RecordedOK /\ ReaderOK

LEMMA GoodFrameFields ==
  ASSUME NEW K, NEW f \in GoodFrames(K)
  PROVE  /\ f \in FrameIn(K)
         /\ f.session \in Session /\ f.row \in Nat /\ f.rows \in Seq(RowIn(K))
         /\ f.output \in OutputsIn(K) /\ f.stdout \in Seq(Token) /\ f.stderr \in Seq(Token)
         /\ f.writeStdout \in BOOLEAN /\ f.busy \in BOOLEAN
BY DEF GoodFrames, FrameIn

LEMMA FetchInvImplies == FetchInv => FetchTypeOK /\ OneBufferAtATime
<1> SUFFICES ASSUME FetchInv PROVE FetchTypeOK /\ OneBufferAtATime
  OBVIOUS
<1> DEFINE A == Announced
<1>1. A \subseteq Session
  BY DEF FetchInv, RecordedOK
<1>2. \A o \in Seq(RowIn(A)) : o \in Seq(Row)
  BY <1>1, OutputsAreOutputs, SeqMonotonic
<1>3. rows \in [Session -> Seq(Row)]
  BY <1>2 DEF FetchInv, RecordedOK
<1> DEFINE F == [session : Session, row : Nat, rows : Seq(Row), output : Outputs,
                 stdout : Seq(Token), stderr : Seq(Token),
                 writeStdout : BOOLEAN, busy : BOOLEAN]
<1>4. FrameIn(A) \subseteq F
  BY <1>1, <1>2, OutputsAreOutputs DEF FrameIn
<1>5. GoodFrames(A) \subseteq F
  BY <1>4 DEF GoodFrames
<1>6. frames \in Seq(F)
  BY <1>5, SeqMonotonic DEF FetchInv, ReaderOK
<1>7. FetchTypeOK
  BY <1>1, <1>3, <1>6 DEF FetchTypeOK, FetchInv, RecordedOK, ReaderOK, Announced, Active
<1>8. OneBufferAtATime
  <2>1. \A k \in 1 .. Len(frames) : frames[k] \in GoodFrames(A)
    BY ElementOfSeq DEF FetchInv, ReaderOK
  <2> QED
    BY <2>1 DEF OneBufferAtATime, GoodFrames, FrameIn
<1> QED
  BY <1>7, <1>8

\* The order on the naturals as a relation.
Less == {ss \in Nat \X Nat : ss[1] < ss[2]}

LEMMA LessWellFounded == IsWellFoundedOn(Less, Nat)
<1>1. Less = OpToRel(<, Nat)
  BY Zenon DEF Less, OpToRel
<1> QED
  BY <1>1, NatLessThanWellFounded, Zenon

\* The session that is there from the start.
LEMMA RootIsASession == Root \in Session
<1>1. \E s \in Session : \A t \in Session : ~ (<<t, s>> \in Less)
  BY SessionAssumption, LessWellFounded, WFMin
<1>2. PICK s \in Session : \A t \in Session : ~ (<<t, s>> \in Less)
  BY <1>1
<1>3. \A t \in Session : s <= t
  <2>1. ASSUME NEW t \in Session PROVE s <= t
    <3>1. s \in Nat /\ t \in Nat
      BY SessionAssumption
    <3>2. ~ (t < s)
      BY <1>2, <3>1 DEF Less
    <3> QED
      BY <3>1, <3>2
  <2> QED
    BY <2>1
<1> QED
  BY <1>3 DEF Root

LEMMA InitFetchInv == FetchInit => FetchInv
<1> SUFFICES ASSUME FetchInit PROVE FetchInv
  OBVIOUS
<1>1. Announced = {Root} /\ Root \in Session
  BY RootIsASession DEF FetchInit, Announced, None
<1>2. <<NewRow>> \in Seq(RowIn(Announced)) /\ <<>> \in Seq(RowIn(Announced)) /\ <<NewRow>> # <<>>
  <2>1. NewRow \in RowIn(Announced)
    BY NewRowOK
  <2> QED
    BY <2>1
<1>3. RecordedOK
  <2> DEFINE table == <<NewRow>>
  <2>1. rows = [s \in Session |-> IF s = Root THEN table ELSE <<>>]
    BY DEF FetchInit
  <2>2. table \in Seq(RowIn(Announced)) /\ <<>> \in Seq(RowIn(Announced)) /\ table # <<>>
    BY <1>2
  <2> HIDE DEF table
  <2>3. rows \in [Session -> Seq(RowIn(Announced))] /\ rows[Root] # <<>>
    BY <1>1, <2>1, <2>2
  <2>4. created = {Root} /\ written = 0 /\ 0 \in 0 .. MaxWrites
    BY BoundAssumption DEF FetchInit
  <2> QED
    BY <1>1, <2>3, <2>4 DEF RecordedOK
<1>4. ReaderOK
  <2>1. <<>> \in Seq(GoodFrames(Announced))
    BY EmptySeq
  <2> QED
    BY <2>1 DEF FetchInit, ReaderOK
<1> QED
  BY <1>3, <1>4 DEF FetchInv

----------------------------------------------------------------------------
(* nhid and remove. *)

\* The last row of a table is the one that changes.
LEMMA LastRowChanges ==
  ASSUME NEW K, K \subseteq Session, NEW table \in Seq(RowIn(K)), table # <<>>, NEW a, NEW b,
         \/ a \in {Out, Err} /\ b \in 1 .. MaxWrites
         \/ a = Nested /\ b \in K
  PROVE  WithOutput(table, <<a, b>>) \in Seq(RowIn(K)) /\ WithOutput(table, <<a, b>>) # <<>>
<1> DEFINE n == Len(table)
           r == table[n]
<1>1. n \in 1 .. n /\ n \in Nat /\ n # 0
  BY EmptySeq
<1>2. r \in RowIn(K)
  BY <1>1, ElementOfSeq
<1> DEFINE o == r.output \o <<a, b>>
<1>3. o \in OutputsIn(K)
  BY <1>2, OutputAppended DEF RowIn
<1> HIDE DEF o
<1> DEFINE e == [r EXCEPT !.output = o]
<1>4. e \in RowIn(K)
  BY <1>2, <1>3 DEF RowIn
<1>5. WithOutput(table, <<a, b>>) = [table EXCEPT ![n] = e]
  BY <1>1 DEF WithOutput, o
<1> HIDE DEF e
<1>6. /\ WithOutput(table, <<a, b>>) \in Seq(RowIn(K))
      /\ Len(WithOutput(table, <<a, b>>)) = n
  BY <1>1, <1>4, <1>5, ExceptSeq
<1> QED
  BY <1>1, <1>6, EmptySeq

LEMMA FinishedOK ==
  ASSUME NEW K, NEW table \in Seq(RowIn(K)), table # <<>>, NEW command \in BOOLEAN
  PROVE  Finished(table, command) \in Seq(RowIn(K))
<1> DEFINE n == Len(table)
           r == table[n]
<1>1. n \in 1 .. n
  BY EmptySeq
<1>2. r \in RowIn(K)
  BY <1>1, ElementOfSeq
<1> DEFINE e == [r EXCEPT !.command = command]
<1>3. e \in RowIn(K)
  BY <1>2 DEF RowIn
<1>4. Finished(table, command) = [table EXCEPT ![n] = e]
  BY DEF Finished
<1> HIDE DEF e
<1> QED
  BY <1>1, <1>3, <1>4, ExceptSeq

\* The sessions announced only grow, and the reader keeps what it has.
LEMMA ReaderKept ==
  ASSUME ReaderOK, UNCHANGED fetchVars, Announced \subseteq Announced'
  PROVE  ReaderOK'
<1>1. frames \in Seq(GoodFrames(Announced'))
  BY FramesGrow DEF ReaderOK
<1>2. frames' \in Seq(GoodFrames(Announced'))
  BY <1>1 DEF fetchVars
<1> QED
  BY <1>2 DEF ReaderOK, fetchVars

LEMMA TableChanges ==
  ASSUME RecordedOK, NEW s \in Session, NEW table,
         rows' = [rows EXCEPT ![s] = table], table \in Seq(RowIn(Announced')),
         Announced \subseteq Announced', Announced' \subseteq Session,
         \A t \in created' : (t \in created /\ t # s) \/ (t = s /\ table # <<>>),
         written' \in 0 .. MaxWrites
  PROVE  RecordedOK'
<1>1. \A t \in Session : rows[t] \in Seq(RowIn(Announced'))
  BY OutputsGrow DEF RecordedOK
<1>2. rows' \in [Session -> Seq(RowIn(Announced'))]
  BY <1>1 DEF RecordedOK
<1>3. \A t \in Session : rows'[t] = IF t = s THEN table ELSE rows[t]
  BY DEF RecordedOK
<1>4. \A t \in created' : t \in Session
  BY DEF Announced
<1>5. \A t \in created' : rows'[t] # <<>>
  BY <1>3, <1>4 DEF RecordedOK
<1> QED
  BY <1>2, <1>5 DEF RecordedOK

LEMMA RecordingKeepsFetchInv == FetchInv /\ Recording => FetchInv'
<1> SUFFICES ASSUME FetchInv, Recording PROVE FetchInv'
  OBVIOUS
<1> DEFINE A == Announced
<1>1. RecordedOK /\ ReaderOK /\ A \subseteq Session /\ created \subseteq Session
  BY DEF FetchInv, RecordedOK, Announced
<1>2. ASSUME NEW s \in created PROVE s \in Session /\ rows[s] \in Seq(RowIn(A)) /\ rows[s] # <<>>
  BY <1>1, <1>2 DEF RecordedOK
<1>3. ASSUME NEW s \in Session, NEW stream \in {Out, Err}, RecordOutput(s, stream)
      PROVE  FetchInv'
  <2>1. s \in created /\ written < MaxWrites /\ written' = written + 1
        /\ UNCHANGED <<created, starting, removed, fetchVars>>
    BY <1>3 DEF RecordOutput
  <2>2. written' \in 1 .. MaxWrites /\ written' \in 0 .. MaxWrites
    BY <1>1, <2>1, BoundAssumption DEF RecordedOK
  <2> DEFINE table == WithOutput(rows[s], <<stream, written'>>)
  <2>3. table \in Seq(RowIn(A)) /\ table # <<>>
    BY <1>1, <1>2, <2>1, <2>2, LastRowChanges
  <2>4. rows' = [rows EXCEPT ![s] = table]
    BY <1>3 DEF RecordOutput, AddOutput
  <2> HIDE DEF table
  <2>5. Announced' = Announced
    BY <2>1 DEF Announced
  <2>6. RecordedOK'
    BY <1>1, <2>1, <2>2, <2>3, <2>4, <2>5, TableChanges DEF RecordedOK
  <2> QED
    BY <1>1, <2>1, <2>5, <2>6, ReaderKept DEF FetchInv
<1>4. ASSUME NEW s \in Session, NEW nested \in Session, AnnounceNested(s, nested)
      PROVE  FetchInv'
  <2>1. s \in created /\ starting = {} /\ starting' = {nested}
        /\ UNCHANGED <<created, written, removed, fetchVars>>
    BY <1>4 DEF AnnounceNested, None
  <2>2. Announced' = Announced \cup {nested} /\ Announced' \subseteq Session
    BY <1>1, <2>1 DEF Announced
  <2>3. rows[s] \in Seq(RowIn(Announced')) /\ rows[s] # <<>>
    BY <1>2, <2>1, <2>2, OutputsGrow
  <2> DEFINE table == WithOutput(rows[s], <<Nested, nested>>)
             L == Announced'
  <2>4. table \in Seq(RowIn(L)) /\ table # <<>>
    <3> HIDE DEF L
    <3>1. L \subseteq Session /\ nested \in L /\ rows[s] \in Seq(RowIn(L))
      BY <2>2, <2>3 DEF L
    <3> QED
      BY <2>3, <3>1, LastRowChanges
  <2>5. rows' = [rows EXCEPT ![s] = table]
    BY <1>4 DEF AnnounceNested, AddOutput
  <2> HIDE DEF table
  <2>6. RecordedOK'
    BY <1>1, <2>1, <2>2, <2>4, <2>5, TableChanges DEF RecordedOK
  <2> QED
    BY <1>1, <2>1, <2>2, <2>6, ReaderKept DEF FetchInv
<1>5. ASSUME NEW s \in Session, NEW command \in BOOLEAN, FinishRow(s, command) PROVE FetchInv'
  <2>1. s \in created /\ UNCHANGED <<created, written, starting, removed, fetchVars>>
    BY <1>5 DEF FinishRow
  <2> DEFINE table == Append(Finished(rows[s], command), NewRow)
  <2>2. Finished(rows[s], command) \in Seq(RowIn(A))
    BY <1>1, <1>2, <2>1, FinishedOK
  <2>3. table \in Seq(RowIn(A)) /\ table # <<>>
    BY <2>2, NewRowOK, AppendProperties
  <2>4. rows' = [rows EXCEPT ![s] = table]
    BY <1>5 DEF FinishRow
  <2> HIDE DEF table
  <2>5. Announced' = Announced
    BY <2>1 DEF Announced
  <2>6. RecordedOK'
    BY <1>1, <2>1, <2>3, <2>4, <2>5, TableChanges DEF RecordedOK
  <2> QED
    BY <1>1, <2>1, <2>5, <2>6, ReaderKept DEF FetchInv
<1>6. ASSUME NEW s \in Session, RemoveSession(s) PROVE FetchInv'
  <2>1. /\ s \in created /\ created' = created \ {s} /\ removed' = removed \cup {s}
        /\ rows' = [rows EXCEPT ![s] = <<>>]
        /\ UNCHANGED <<written, starting, fetchVars>>
    BY <1>6 DEF RemoveSession
  <2>2. Announced' = Announced
    BY <2>1 DEF Announced
  <2>3. <<>> \in Seq(RowIn(A))
    BY EmptySeq
  <2>4. RecordedOK'
    BY <1>1, <2>1, <2>2, <2>3, TableChanges DEF RecordedOK
  <2> QED
    BY <1>1, <2>1, <2>2, <2>4, ReaderKept DEF FetchInv
<1>7. ASSUME CreateNested PROVE FetchInv'
  <2>1. /\ created' = created \cup starting /\ starting' = {}
        /\ rows' = [s \in Session |-> IF s \in starting THEN <<NewRow>> ELSE rows[s]]
        /\ UNCHANGED <<written, removed, fetchVars>>
    BY <1>7 DEF CreateNested, None
  <2>2. Announced' = Announced
    BY <2>1 DEF Announced
  <2> DEFINE table == <<NewRow>>
  <2>3. table \in Seq(RowIn(A)) /\ table # <<>>
    <3>1. NewRow \in RowIn(A)
      BY NewRowOK
    <3> QED
      BY <3>1
  <2>4. rows' = [s \in Session |-> IF s \in starting THEN table ELSE rows[s]]
    BY <2>1
  <2> HIDE DEF table
  <2>5. rows' \in [Session -> Seq(RowIn(A))] /\ \A s \in created' : rows'[s] # <<>>
    BY <1>1, <2>1, <2>3, <2>4 DEF RecordedOK, Announced
  <2>6. RecordedOK'
    BY <1>1, <2>1, <2>2, <2>5 DEF RecordedOK
  <2> QED
    BY <1>1, <2>1, <2>2, <2>6, ReaderKept DEF FetchInv
<1> QED
  BY <1>3, <1>4, <1>5, <1>6, <1>7 DEF Recording

----------------------------------------------------------------------------
(* The reader. *)

LEMMA TopOK ==
  ASSUME ReaderOK, Active
  PROVE  /\ frames # <<>> /\ Top \in GoodFrames(Announced)
         /\ Tail(frames) \in Seq(GoodFrames(Announced))
BY HeadTailProperties DEF ReaderOK, Active, Top

\* A frame on top of others.
LEMMA OnTop ==
  ASSUME NEW S, NEW f \in S, NEW below \in Seq(S)
  PROVE  <<f>> \o below \in Seq(S) /\ <<f>> \o below # <<>>
<1> DEFINE one == <<f>>
<1>1. one \in Seq(S) /\ Len(one) = 1
  OBVIOUS
<1> HIDE DEF one
<1>2. one \o below \in Seq(S) /\ Len(one \o below) = 1 + Len(below) /\ Len(below) \in Nat
  BY <1>1, ConcatProperties, LenProperties
<1>3. one \o below # <<>>
  BY <1>2, EmptySeq
<1> QED
  BY <1>2, <1>3 DEF one

\* The reader changes its innermost frame.
LEMMA SetTopKeepsReaderOK ==
  ASSUME ReaderOK, Active, UNCHANGED <<dbVars, result, recursive>>,
         NEW f \in GoodFrames(Announced), SetTop(f)
  PROVE  ReaderOK'
<1>1. Tail(frames) \in Seq(GoodFrames(Announced))
  BY TopOK
<1>2. frames' \in Seq(GoodFrames(Announced)) /\ frames' # <<>>
  BY <1>1, OnTop DEF SetTop
<1>3. Announced' = Announced
  BY DEF dbVars, Announced
<1> QED
  BY <1>2, <1>3 DEF ReaderOK, Active

\* A query puts a frame on top, or ends the fetch.
LEMMA QueryKeepsReaderOK ==
  ASSUME FetchInv, UNCHANGED dbVars, recursive' \in BOOLEAN,
         NEW s \in Session, NEW below \in Seq(GoodFrames(Announced)), Query(s, below)
  PROVE  ReaderOK'
<1>1. Announced' = Announced
  BY DEF dbVars, Announced
<1>2. rows[s] \in Seq(RowIn(Announced))
  BY DEF FetchInv, RecordedOK
<1>3. <<>> \in Seq(Token) /\ <<>> \in OutputsIn(Announced) /\ <<>> \in Seq(GoodFrames(Announced))
  BY EmptySeq, EmptyOutput
<1>4. Frame(s) \in GoodFrames(Announced)
  BY <1>2, <1>3 DEF Frame, GoodFrames, FrameIn
<1>5. CASE s \in created
  <2> DEFINE f == Frame(s)
  <2>1. frames' = <<f>> \o below /\ result' = "running"
    BY <1>5 DEF Query
  <2> HIDE DEF f
  <2>2. frames' \in Seq(GoodFrames(Announced)) /\ frames' # <<>>
    BY <1>4, <2>1, OnTop DEF f
  <2> QED
    BY <1>1, <2>1, <2>2 DEF ReaderOK
<1>6. CASE s \notin created
  <2>1. frames' = <<>> /\ result' = "failed"
    BY <1>6 DEF Query
  <2> QED
    BY <1>1, <1>3, <2>1 DEF ReaderOK
<1> QED
  BY <1>5, <1>6

\* Emptying the buffer that holds text leaves none.
LEMMA EmptiedFrame ==
  ASSUME NEW K, NEW f \in GoodFrames(K)
  PROVE  /\ Empty(f) \in GoodFrames(K) /\ Empty(f).stdout = <<>> /\ Empty(f).stderr = <<>>
         /\ \A b \in BOOLEAN : /\ [Empty(f) EXCEPT !.writeStdout = b] \in GoodFrames(K)
                              /\ [Empty(f) EXCEPT !.busy = b] \in GoodFrames(K)
<1>1. <<>> \in Seq(Token)
  BY EmptySeq
<1>2. f \in FrameIn(K) /\ (f.writeStdout => f.stderr = <<>>) /\ (~f.writeStdout => f.stdout = <<>>)
      /\ f.writeStdout \in BOOLEAN
  BY DEF GoodFrames, FrameIn
<1>3. Empty(f) \in FrameIn(K) /\ Empty(f).stdout = <<>> /\ Empty(f).stderr = <<>>
  BY <1>1, <1>2 DEF Empty, FrameIn
<1> DEFINE e == Empty(f)
<1> HIDE DEF e
<1>4. e \in FrameIn(K) /\ e.stdout = <<>> /\ e.stderr = <<>>
  BY <1>3 DEF e
<1>5. /\ e \in GoodFrames(K)
      /\ \A b \in BOOLEAN : /\ [e EXCEPT !.writeStdout = b] \in GoodFrames(K)
                           /\ [e EXCEPT !.busy = b] \in GoodFrames(K)
  BY <1>4 DEF FrameIn, GoodFrames
<1> QED
  BY <1>4, <1>5 DEF e

\* Reading a byte leaves the rest of the frame alone.
LEMMA ReadFrame ==
  ASSUME NEW K, NEW f \in GoodFrames(K), NEW o \in OutputsIn(K)
  PROVE  /\ [f EXCEPT !.output = o] \in GoodFrames(K)
         /\ [f EXCEPT !.output = o].output = o
         /\ [f EXCEPT !.output = o].writeStdout = f.writeStdout
         /\ [f EXCEPT !.output = o].stdout = f.stdout
         /\ [f EXCEPT !.output = o].stderr = f.stderr
BY DEF GoodFrames, FrameIn

LEMMA RestOK ==
  ASSUME ReaderOK, Reading
  PROVE  /\ Top.output \in OutputsIn(Announced) /\ Top.output # <<>>
         /\ Byte \in TokenIn(Announced)
         /\ Rest \in GoodFrames(Announced) /\ Rest.output = Tail(Top.output)
         /\ Rest.writeStdout = Top.writeStdout
<1>1. Top \in GoodFrames(Announced) /\ Top.output # <<>>
  BY TopOK DEF Reading
<1>2. Top.output \in OutputsIn(Announced)
  BY <1>1, GoodFrameFields
<1>3. Byte \in TokenIn(Announced) /\ Tail(Top.output) \in OutputsIn(Announced)
  BY <1>1, <1>2, OutputTail DEF Byte
<1> DEFINE o == Tail(Top.output)
<1>4. Rest = [Top EXCEPT !.output = o]
  BY DEF Rest
<1>5. o \in OutputsIn(Announced)
  BY <1>3
<1> HIDE DEF o
<1>6. /\ Rest \in GoodFrames(Announced) /\ Rest.output = o
      /\ Rest.writeStdout = Top.writeStdout
  BY <1>1, <1>4, <1>5, ReadFrame
<1> QED
  BY <1>1, <1>2, <1>3, <1>6 DEF o

LEMMA FetchingKeepsReaderOK ==
  ASSUME FetchInv, Fetching
  PROVE  ReaderOK'
<1> DEFINE A == Announced
<1>1. ReaderOK /\ A \subseteq Session /\ UNCHANGED dbVars /\ UNCHANGED recursive /\ Active
  BY DEF FetchInv, RecordedOK, Fetching, NextRow, ReadMarker, ReadNested, ReadText, EndRow, Return, Reading
<1>2. Top \in GoodFrames(A) /\ Tail(frames) \in Seq(GoodFrames(A)) /\ frames # <<>>
  BY <1>1, TopOK
<1>3. ASSUME NEW f \in GoodFrames(A), SetTop(f), result' = result PROVE ReaderOK'
  BY <1>1, <1>3, SetTopKeepsReaderOK
<1>4. ASSUME NextRow PROVE ReaderOK'
  <2>1. Top.rows # <<>> /\ result' = result
    BY <1>4 DEF NextRow
  <2>2. /\ Top \in FrameIn(A) /\ Top.rows \in Seq(RowIn(A)) /\ Top.row + 1 \in Nat
        /\ (Top.writeStdout => Top.stderr = <<>>) /\ (~Top.writeStdout => Top.stdout = <<>>)
    <3>1. Top \in FrameIn(A) /\ Top.rows \in Seq(RowIn(A)) /\ Top.row \in Nat
      BY <1>2, GoodFrameFields
    <3>2. (Top.writeStdout => Top.stderr = <<>>) /\ (~Top.writeStdout => Top.stdout = <<>>)
      BY <1>2 DEF GoodFrames
    <3> QED
      BY <3>1, <3>2
  <2> DEFINE rest == Tail(Top.rows)
             row == Top.row + 1
             o == Head(Top.rows).output
  <2>3. rest \in Seq(RowIn(A)) /\ o \in OutputsIn(A) /\ row \in Nat
    <3>1. rest \in Seq(RowIn(A)) /\ Head(Top.rows) \in RowIn(A)
      BY <2>1, <2>2, HeadTailProperties
    <3> QED
      BY <2>2, <3>1 DEF RowIn
  <2>4. <<>> \in Seq(Token)
    BY EmptySeq
  <2> DEFINE f == [Top EXCEPT !.rows = rest, !.row = row, !.busy = TRUE, !.output = o,
                             !.writeStdout = FALSE, !.stdout = <<>>, !.stderr = <<>>]
             g == [Top EXCEPT !.rows = rest, !.row = row]
  <2>5. SetTop(f) \/ SetTop(g)
    BY <1>4 DEF NextRow
  <2> HIDE DEF rest, row, o
  <2>6. f \in GoodFrames(A) /\ g \in GoodFrames(A)
    BY <2>2, <2>3, <2>4 DEF GoodFrames, FrameIn
  <2> HIDE DEF f, g
  <2> QED
    BY <1>3, <2>1, <2>5, <2>6
<1>5. ASSUME ReadMarker PROVE ReaderOK'
  <2> DEFINE f == [Empty(Rest) EXCEPT !.writeStdout = (Byte = Out)]
  <2>1. Reading /\ SetTop(f) /\ result' = result
    BY <1>5 DEF ReadMarker
  <2>2. Rest \in GoodFrames(A)
    BY <1>1, <2>1, RestOK
  <2>3. (Byte = Out) \in BOOLEAN
    OBVIOUS
  <2>4. f \in GoodFrames(A)
    BY <2>2, <2>3, EmptiedFrame
  <2> HIDE DEF f
  <2> QED
    BY <1>3, <2>1, <2>4
<1>6. ASSUME ReadText PROVE ReaderOK'
  <2>1. Reading /\ result' = result /\ Byte \notin {Out, Err, Nested}
    BY <1>6 DEF ReadText
  <2>2. Rest \in GoodFrames(A) /\ Rest.writeStdout = Top.writeStdout /\ Byte \in Token
    <3>1. TokenIn(A) \subseteq Token
      BY <1>1, OutputsAreOutputs
    <3> QED
      BY <1>1, <2>1, <3>1, RestOK
  <2> DEFINE out == Append(Rest.stdout, Byte)
             err == Append(Rest.stderr, Byte)
             f == [Rest EXCEPT !.stdout = out]
             g == [Rest EXCEPT !.stderr = err]
  <2>3. out \in Seq(Token) /\ err \in Seq(Token)
    BY <2>2, GoodFrameFields, AppendProperties
  <2>4. SetTop(IF Top.writeStdout THEN f ELSE g)
    BY <1>6 DEF ReadText
  <2> HIDE DEF out, err
  <2>5. (Top.writeStdout => f \in GoodFrames(A)) /\ (~Top.writeStdout => g \in GoodFrames(A))
    <3> DEFINE r == Rest
    <3>1. r \in GoodFrames(A) /\ r.writeStdout = Top.writeStdout
      BY <2>2
    <3> HIDE DEF r
    <3>2. /\ Top.writeStdout => [r EXCEPT !.stdout = out] \in GoodFrames(A)
          /\ ~Top.writeStdout => [r EXCEPT !.stderr = err] \in GoodFrames(A)
      BY <2>3, <3>1 DEF GoodFrames, FrameIn
    <3> QED
      BY <3>2 DEF r
  <2> HIDE DEF f, g
  <2> QED
    BY <1>3, <2>1, <2>4, <2>5
<1>7. ASSUME EndRow PROVE ReaderOK'
  <2> DEFINE f == [Empty(Top) EXCEPT !.busy = FALSE]
  <2>1. SetTop(f) /\ result' = result
    BY <1>7 DEF EndRow
  <2>2. f \in GoodFrames(A)
    BY <1>2, EmptiedFrame
  <2> HIDE DEF f
  <2> QED
    BY <1>3, <2>1, <2>2
<1>8. ASSUME ReadNested PROVE ReaderOK'
  <2>1. Reading /\ Byte = Nested
    BY <1>8 DEF ReadNested
  <2>2. /\ Top.output \in OutputsIn(A) /\ Top.output # <<>> /\ Head(Top.output) = Nested
        /\ Rest \in GoodFrames(A) /\ Rest.output = Tail(Top.output)
    BY <1>1, <2>1, RestOK DEF Byte
  <2> DEFINE o == <<Nul>> \o Tail(Rest.output)
             s == Head(Rest.output)
  <2>3. o \in OutputsIn(A) /\ s \in Session
    BY <1>1, <2>2, OutputNested
  <2>4. Zeroed = [Rest EXCEPT !.output = o]
    BY DEF Zeroed
  <2> HIDE DEF o
  <2>5. Zeroed \in GoodFrames(A)
    BY <2>2, <2>3, <2>4, ReadFrame
  <2>6. CASE recursive
    <3> DEFINE z == Zeroed
               below == <<z>> \o Tail(frames)
    <3>1. Query(s, below)
      BY <1>8, <2>6 DEF ReadNested
    <3>2. z \in GoodFrames(A)
      BY <2>5
    <3> HIDE DEF z
    <3>3. below \in Seq(GoodFrames(A))
      BY <1>2, <3>2, OnTop
    <3>4. recursive' \in BOOLEAN
      BY <1>1 DEF ReaderOK
    <3> HIDE DEF below, s
    <3> QED
      BY <1>1, <2>3, <3>1, <3>3, <3>4, QueryKeepsReaderOK
  <2>7. CASE ~recursive
    <3>1. SetTop(Zeroed) /\ result' = result
      BY <1>8, <2>7 DEF ReadNested
    <3> QED
      BY <1>3, <2>5, <3>1
  <2> QED
    BY <2>6, <2>7
<1>9. ASSUME Return PROVE ReaderOK'
  <2>1. frames' = Tail(frames) /\ result' = IF Len(frames) = 1 THEN "done" ELSE "running"
    BY <1>9 DEF Return
  <2>2. frames' \in Seq(GoodFrames(A)) /\ Len(frames') = Len(frames) - 1 /\ Len(frames) \in Nat
    BY <1>1, <1>2, <2>1, HeadTailProperties, LenProperties DEF ReaderOK
  <2>3. frames' = <<>> <=> Len(frames) = 1
    <3>1. frames' = <<>> <=> Len(frames') = 0
      BY <2>2, EmptySeq
    <3> QED
      BY <2>2, <3>1
  <2>4. Announced' = A
    BY <1>1 DEF dbVars, Announced
  <2> QED
    BY <1>1, <2>1, <2>2, <2>3, <2>4 DEF ReaderOK
<1> QED
  BY <1>4, <1>5, <1>6, <1>7, <1>8, <1>9 DEF Fetching

----------------------------------------------------------------------------
(* What the invariant gives. *)

LEMMA StepKeepsFetchInv == FetchInv /\ [FetchNext]_allVars => FetchInv'
<1> SUFFICES ASSUME FetchInv, [FetchNext]_allVars PROVE FetchInv'
  OBVIOUS
<1>1. CASE Recording
  BY <1>1, RecordingKeepsFetchInv
<1>2. ASSUME UNCHANGED dbVars PROVE RecordedOK'
  BY <1>2 DEF FetchInv, RecordedOK, dbVars, Announced
<1>3. ASSUME NEW s \in Session, NEW children \in BOOLEAN, Begin(s, children) PROVE FetchInv'
  <2>1. Query(s, <<>>) /\ UNCHANGED dbVars /\ recursive' \in BOOLEAN
    BY <1>3 DEF Begin
  <2>2. <<>> \in Seq(GoodFrames(Announced))
    BY EmptySeq
  <2> DEFINE below == <<>>
  <2> HIDE DEF below
  <2>3. Query(s, below) /\ below \in Seq(GoodFrames(Announced))
    BY <2>1, <2>2 DEF below
  <2>4. ReaderOK'
    BY <2>1, <2>3, QueryKeepsReaderOK
  <2> QED
    BY <1>2, <2>1, <2>4 DEF FetchInv
<1>4. CASE Fetching
  <2>1. UNCHANGED dbVars
    BY <1>4 DEF Fetching, NextRow, ReadMarker, ReadNested, ReadText, EndRow, Return
  <2> QED
    BY <1>2, <1>4, <2>1, FetchingKeepsReaderOK DEF FetchInv
<1>5. CASE UNCHANGED allVars
  <2>1. UNCHANGED dbVars /\ UNCHANGED fetchVars
    BY <1>5 DEF allVars
  <2>2. Announced \subseteq Announced'
    BY <2>1 DEF dbVars, Announced
  <2> QED
    BY <1>2, <2>1, <2>2, ReaderKept DEF FetchInv
<1> QED
  BY <1>1, <1>3, <1>4, <1>5 DEF FetchNext

LEMMA FetchInvariant == FetchSpec => []FetchInv
BY InitFetchInv, StepKeepsFetchInv, PTL DEF FetchSpec

\* Whatever nhid records and remove deletes under a fetch, the output it reads
\* is a stream of markers, texts and indicators, and its frames are well formed.
THEOREM FetchTypeCorrect == FetchSpec => []FetchTypeOK
BY FetchInvImplies, FetchInvariant, PTL

\* The `else` of fetch.go:222 never leaves text behind: one of the two buffers is
\* empty, in every frame.
THEOREM OneBufferOnly == FetchSpec => []OneBufferAtATime
BY FetchInvImplies, FetchInvariant, PTL

\* A nested fetch that fails (fetch.go:42-44) has met a session that was removed
\* or is announced and not created yet (nhi.c:62-69).
THEOREM FetchFailures == FetchSpec => FetchFailureExplained
<1>1. ASSUME FetchInv, [FetchNext]_allVars, Active, result' = "failed"
      PROVE  Head(Rest.output) \in removed \cup starting
  <2>1. ~ Recording /\ ~ UNCHANGED allVars
    BY <1>1 DEF Recording, RecordOutput, AnnounceNested, FinishRow, RemoveSession, CreateNested,
                fetchVars, allVars, Active
  <2>2. \A s, children : ~ Begin(s, children)
    BY <1>1 DEF Begin, Active
  <2>3. ~ NextRow /\ ~ ReadMarker /\ ~ ReadText /\ ~ EndRow /\ ~ Return
    BY <1>1 DEF NextRow, ReadMarker, ReadText, EndRow, Return, Active
  <2>4. ReadNested
    BY <1>1, <2>1, <2>2, <2>3 DEF FetchNext, Fetching
  <2>5. Reading /\ Byte = Nested
    BY <2>4 DEF ReadNested
  <2>6. /\ Top.output \in OutputsIn(Announced) /\ Top.output # <<>> /\ Head(Top.output) = Nested
        /\ Rest.output = Tail(Top.output)
    BY <1>1, <2>5, RestOK DEF FetchInv, Byte
  <2>7. Head(Rest.output) \in Announced
    BY <2>6, OutputNested
  <2>8. recursive
    BY <1>1, <2>4 DEF ReadNested, Active
  <2>9. Head(Rest.output) \notin created
    BY <1>1, <2>4, <2>8 DEF ReadNested, Query
  <2> QED
    BY <2>7, <2>9 DEF Announced
<1>2. FetchInv /\ [FetchNext]_allVars =>
        [Active /\ result' = "failed" => Head(Rest.output) \in removed \cup starting]_allVars
  BY <1>1
<1> QED
  BY <1>2, FetchInvariant, PTL DEF FetchSpec, FetchFailureExplained

----------------------------------------------------------------------------
(* What is printed.  The invariant Printing, further down, says it of the     *)
(* state between two steps.  A place of a table is a row's command, at 0, or  *)
(* one of the texts of such a row.  What has come out are the places the      *)
(* frames have behind them, but for one text per frame that is in a buffer    *)
(* still (OutIff).  It came out in order, once (InOrder, Valid) and, with the *)
(* nested sessions, in place (InPlace).  Every frame but the innermost waits  *)
(* behind the indicator it has asked for (Stack), which is in one place of    *)
(* all tables (OneRecord): that is why no session is fetched twice.           *)

----------------------------------------------------------------------------
(* The bytes of a row: a text comes right after its marker, an indicator      *)
(* right after the marker of a nested session, and is that of a younger one.  *)

Marker == {Out, Err}

GoodOutput(s, o, w, K) ==
  \A i \in 1 .. Len(o) :
    /\ o[i] # Nul
    /\ IsText(o[i]) => o[i] <= w /\ i > 1 /\ o[i - 1] \in Marker
    /\ o[i] \in Session => o[i] \in K /\ o[i] > s /\ i > 1 /\ o[i - 1] = Nested

LEMMA Tokens ==
  ASSUME NEW x
  PROVE  /\ x \in Marker => ~ IsText(x) /\ x \notin Session /\ x # Nul /\ x # Nested
         /\ IsText(x) => x \notin Marker /\ x \notin Session /\ x # Nul /\ x # Nested
         /\ x \in Session => ~ IsText(x) /\ x \notin Marker /\ x # Nul /\ x # Nested
         /\ x \in {Nul, Nested} => ~ IsText(x) /\ x \notin Marker /\ x \notin Session
         /\ Nul # Nested /\ Out # Err
<1>1. x \in Session => x \in Nat /\ x \notin 0 .. 255
  BY SessionAssumption
<1>2. IsText(x) => x \in 1 .. 252
  BY BoundAssumption DEF IsText
<1>3. x \in Marker => x = 255 \/ x = 254
  BY DEF Marker, Out, Err
<1>4. Nul = 0 /\ Nested = 253 /\ Out = 255 /\ Err = 254
  BY DEF Nul, Nested, Out, Err
<1>5. IsText(x) => x \notin Session
  BY <1>1, <1>2
<1>6. x \in Marker => x \notin Session
  BY <1>1, <1>3
<1>7. x \in {Nul, Nested} => x \notin Session
  BY <1>1, <1>4
<1>8. x \in Marker => ~ IsText(x) /\ x # Nul /\ x # Nested
  BY <1>2, <1>3, <1>4
<1>9. x \in {Nul, Nested} => ~ IsText(x) /\ x \notin Marker
  BY <1>2, <1>3, <1>4
<1> QED
  BY <1>4, <1>5, <1>6, <1>7, <1>8, <1>9

\* The length of a row's output and its bytes.
LEMMA OutputBytes ==
  ASSUME NEW o \in Outputs
  PROVE  /\ Len(o) \in Nat
         /\ \A i \in 1 .. Len(o) : o[i] \in Marker \/ o[i] \in {Nul, Nested} \/ IsText(o[i]) \/ o[i] \in Session
         /\ \A i \in 1 .. Len(o) : o[i] = Nested => i < Len(o) /\ o[i + 1] \in Session
<1>1. o \in Seq(Token)
  BY DEF Outputs
<1>2. \A i \in 1 .. Len(o) : o[i] \in Token
  BY <1>1, ElementOfSeq
<1> QED
  BY <1>1, <1>2, LenProperties DEF Outputs, Token, Marker, IsText

\* The byte the reader meets behind the first p: the indicator of a nested session
\* is a zero by then.
Shown(o, p, i) == IF p >= 1 /\ i = p + 1 /\ o[p] = Nested THEN Nul ELSE o[i]

LEMMA NextByte ==
  ASSUME NEW o \in Outputs, NEW s, NEW w, NEW K, GoodOutput(s, o, w, K),
         NEW p \in Nat, p < Len(o)
  PROVE  LET byte == Shown(o, p, p + 1)
         IN  /\ byte \in Marker \/ byte \in {Nul, Nested} \/ IsText(byte)
             /\ byte # Nul => byte = o[p + 1] /\ o[p + 1] \notin Session
             /\ byte = Nul => p >= 1 /\ o[p] = Nested /\ o[p + 1] \in Session
             /\ IsText(byte) => p >= 1 /\ o[p] \in Marker
             /\ byte = Nested => p + 1 < Len(o) /\ o[p + 2] \in Session
<1>1. p + 1 \in 1 .. Len(o) /\ Len(o) \in Nat /\ (p + 1) - 1 = p /\ (p + 1) + 1 = p + 2
  BY OutputBytes
<1>2. /\ o[p + 1] \in Marker \/ o[p + 1] \in {Nul, Nested} \/ IsText(o[p + 1]) \/ o[p + 1] \in Session
      /\ o[p + 1] = Nested => p + 1 < Len(o) /\ o[p + 2] \in Session
  BY <1>1, OutputBytes
<1>3. /\ o[p + 1] # Nul
      /\ IsText(o[p + 1]) => p >= 1 /\ o[p] \in Marker
      /\ o[p + 1] \in Session => p >= 1 /\ o[p] = Nested
  BY <1>1 DEF GoodOutput
<1>4. CASE p >= 1 /\ o[p] = Nested
  <2>1. Shown(o, p, p + 1) = Nul
    BY <1>4 DEF Shown
  <2>2. p \in 1 .. Len(o)
    BY <1>1, <1>4
  <2>3. o[p + 1] \in Session
    BY <1>4, <2>2, OutputBytes
  <2> QED
    BY <1>4, <2>1, <2>3, Tokens
<1>5. CASE ~ (p >= 1 /\ o[p] = Nested)
  <2>1. Shown(o, p, p + 1) = o[p + 1]
    BY <1>5 DEF Shown
  <2>2. o[p + 1] \notin Session
    BY <1>3, <1>5
  <2> QED
    BY <1>2, <1>3, <2>1, <2>2
<1> QED
  BY <1>4, <1>5

----------------------------------------------------------------------------
(* A buffer holds the text that was read last, unless a marker was read    *)
(* since, and zeros.                                                       *)

PendingAt(o, p, i) ==
  /\ i \in 1 .. p /\ IsText(o[i])
  /\ \A m \in i + 1 .. p : o[m] \notin Marker

LEMMA PendingIsOne ==
  ASSUME NEW o \in Outputs, NEW s, NEW w, NEW K, GoodOutput(s, o, w, K),
         NEW p \in Nat, p <= Len(o), NEW i, NEW j, PendingAt(o, p, i), PendingAt(o, p, j)
  PROVE  i = j
<1>1. Len(o) \in Nat
  BY OutputBytes
<1>2. ASSUME NEW a, NEW b, PendingAt(o, p, a), PendingAt(o, p, b), a < b PROVE FALSE
  <2>1. a \in 1 .. p /\ b \in 1 .. p /\ b \in 1 .. Len(o) /\ IsText(o[a]) /\ IsText(o[b])
    BY <1>1, <1>2 DEF PendingAt
  <2>2. o[b - 1] \in Marker
    BY <2>1 DEF GoodOutput
  <2>3. b - 1 # a
    BY <2>1, <2>2, Tokens
  <2>4. b - 1 \in a + 1 .. p
    BY <1>2, <2>1, <2>3
  <2> QED
    BY <1>2, <2>2, <2>4 DEF PendingAt
<1>3. i \in Int /\ j \in Int
  BY DEF PendingAt
<1>4. ~ (i < j) /\ ~ (j < i)
  BY <1>2
<1> QED
  BY <1>3, <1>4

LastMarker(o, p, m) == o[m] \in Marker /\ \A l \in m + 1 .. p : o[l] \notin Marker

BufferFits(buf, o, p) ==
  /\ \A j \in 1 .. Len(buf) :
       buf[j] = Nul \/ (j = 1 /\ \E i \in 1 .. p : PendingAt(o, p, i) /\ o[i] = buf[j])
  /\ \A i \in 1 .. p : PendingAt(o, p, i) => Len(buf) >= 1 /\ buf[1] = o[i]
  /\ p = 0 \/ o[p] \in Marker => buf = <<>>

\* What is pending behind one byte more.
LEMMA PendingNext ==
  ASSUME NEW o \in Outputs, NEW p \in Nat, p < Len(o), NEW i \in 1 .. p + 1
  PROVE  /\ o[p + 1] \in Marker => ~ PendingAt(o, p + 1, i)
         /\ o[p + 1] \notin Marker /\ i # p + 1 => (PendingAt(o, p + 1, i) <=> PendingAt(o, p, i))
         /\ PendingAt(o, p + 1, p + 1) <=> IsText(o[p + 1])
<1>1. o[p + 1] \in Marker => ~ PendingAt(o, p + 1, i)
  <2>1. CASE i = p + 1
    BY <2>1, Tokens DEF PendingAt
  <2>2. CASE i # p + 1
    <3>1. p + 1 \in i + 1 .. p + 1
      BY <2>2
    <3> QED
      BY <3>1 DEF PendingAt
  <2> QED
    BY <2>1, <2>2
<1>2. ASSUME o[p + 1] \notin Marker, i # p + 1
      PROVE  PendingAt(o, p + 1, i) <=> PendingAt(o, p, i)
  <2>1. i \in 1 .. p /\ i \in 1 .. p + 1
    BY <1>2
  <2>2. \A m \in i + 1 .. p + 1 : m \in i + 1 .. p \/ m = p + 1
    BY <2>1
  <2>3. \A m \in i + 1 .. p : m \in i + 1 .. p + 1
    BY <2>1
  <2> QED
    BY <1>2, <2>1, <2>2, <2>3 DEF PendingAt
<1>3. PendingAt(o, p + 1, p + 1) <=> IsText(o[p + 1])
  <2>1. \A m \in (p + 1) + 1 .. p + 1 : FALSE
    OBVIOUS
  <2> QED
    BY <2>1 DEF PendingAt
<1> QED
  BY <1>1, <1>2, <1>3

LEMMA BufferAtMarker ==
  ASSUME NEW o \in Outputs, NEW p \in Nat, p < Len(o), o[p + 1] \in Marker
  PROVE  BufferFits(<<>>, o, p + 1)
<1>1. \A i \in 1 .. p + 1 : ~ PendingAt(o, p + 1, i)
  BY PendingNext
<1>2. Len(<<>>) = 0
  BY EmptySeq
<1> QED
  BY <1>1, <1>2 DEF BufferFits

LEMMA BufferAtText ==
  ASSUME NEW o \in Outputs, NEW p \in Nat, p < Len(o), IsText(o[p + 1]),
         p >= 1, o[p] \in Marker, NEW buf, BufferFits(buf, o, p)
  PROVE  BufferFits(Append(buf, o[p + 1]), o, p + 1) /\ buf = <<>>
<1>1. buf = <<>>
  BY DEF BufferFits
<1> DEFINE x == o[p + 1]
           b == Append(buf, x)
<1>2. Len(b) = 1 /\ b[1] = x
  BY <1>1
<1>3. PendingAt(o, p + 1, p + 1) /\ p + 1 \in 1 .. p + 1
  BY PendingNext
<1>4. \A i \in 1 .. p : ~ PendingAt(o, p, i)
  BY <1>1, EmptySeq DEF BufferFits
<1>5. \A i \in 1 .. p + 1 : PendingAt(o, p + 1, i) => i = p + 1
  <2> SUFFICES ASSUME NEW i \in 1 .. p + 1, PendingAt(o, p + 1, i), i # p + 1 PROVE FALSE
    OBVIOUS
  <2>1. i \in 1 .. p /\ o[p + 1] \notin Marker
    BY Tokens
  <2> QED
    BY <1>4, <2>1, PendingNext
<1>6. ~ (p + 1 = 0) /\ x \notin Marker
  BY Tokens
<1> HIDE DEF b, x
<1>7. BufferFits(b, o, p + 1)
  BY <1>2, <1>3, <1>5, <1>6 DEF BufferFits, x
<1> QED
  BY <1>1, <1>7 DEF b, x

LEMMA BufferAtZero ==
  ASSUME NEW o \in Outputs, NEW p \in Nat, p < Len(o), o[p + 1] \in Session,
         NEW buf \in Seq(Token), BufferFits(buf, o, p)
  PROVE  BufferFits(Append(buf, Nul), o, p + 1)
<1> DEFINE b == Append(buf, Nul)
           n == Len(buf)
<1>1. n \in Nat /\ Len(b) = n + 1 /\ b[n + 1] = Nul /\ \A j \in 1 .. n : b[j] = buf[j]
  <2>1. Nul \in Token
    BY DEF Token
  <2> QED
    BY <2>1, AppendProperties, LenProperties
<1> HIDE DEF b
<1>2. \A i \in 1 .. p + 1 : PendingAt(o, p + 1, i) <=> i \in 1 .. p /\ PendingAt(o, p, i)
  <2> SUFFICES ASSUME NEW i \in 1 .. p + 1
               PROVE  PendingAt(o, p + 1, i) <=> i \in 1 .. p /\ PendingAt(o, p, i)
    OBVIOUS
  <2>1. ~ IsText(o[p + 1]) /\ o[p + 1] \notin Marker
    BY Tokens
  <2>2. CASE i = p + 1
    BY <2>1, <2>2, PendingNext
  <2>3. CASE i # p + 1
    BY <2>1, <2>3, PendingNext
  <2> QED
    BY <2>2, <2>3
<1>3. ASSUME NEW j \in 1 .. n + 1
      PROVE  b[j] = Nul \/ (j = 1 /\ \E i \in 1 .. p + 1 : PendingAt(o, p + 1, i) /\ o[i] = b[j])
  <2>1. CASE j = n + 1
    BY <1>1, <2>1
  <2>2. CASE j # n + 1
    <3>1. j \in 1 .. n /\ b[j] = buf[j]
      BY <1>1, <2>2
    <3>2. buf[j] = Nul \/ (j = 1 /\ \E i \in 1 .. p : PendingAt(o, p, i) /\ o[i] = buf[j])
      BY <3>1 DEF BufferFits
    <3>3. \A i \in 1 .. p : i \in 1 .. p + 1
      OBVIOUS
    <3> QED
      BY <1>2, <3>1, <3>2, <3>3
  <2> QED
    BY <2>1, <2>2
<1>4. ASSUME NEW i \in 1 .. p + 1, PendingAt(o, p + 1, i)
      PROVE  n + 1 >= 1 /\ b[1] = o[i]
  <2>1. i \in 1 .. p /\ PendingAt(o, p, i)
    BY <1>2, <1>4
  <2>2. n >= 1 /\ buf[1] = o[i]
    BY <2>1 DEF BufferFits
  <2> QED
    BY <1>1, <2>2
<1>5. ~ (p + 1 = 0) /\ o[p + 1] \notin Marker
  BY Tokens
<1>6. BufferFits(b, o, p + 1)
  BY <1>1, <1>3, <1>4, <1>5 DEF BufferFits
<1> QED
  BY <1>6 DEF b

LEMMA BufferAtNested ==
  ASSUME NEW o \in Outputs, NEW p \in Nat, p < Len(o), o[p + 1] = Nested,
         NEW buf, BufferFits(buf, o, p)
  PROVE  BufferFits(buf, o, p + 1)
<1>1. ~ IsText(o[p + 1]) /\ o[p + 1] \notin Marker
  BY Tokens
<1>2. \A i \in 1 .. p + 1 : PendingAt(o, p + 1, i) <=> i \in 1 .. p /\ PendingAt(o, p, i)
  <2> SUFFICES ASSUME NEW i \in 1 .. p + 1
               PROVE  PendingAt(o, p + 1, i) <=> i \in 1 .. p /\ PendingAt(o, p, i)
    OBVIOUS
  <2>1. CASE i = p + 1
    BY <1>1, <2>1, PendingNext
  <2>2. CASE i # p + 1
    BY <1>1, <2>2, PendingNext
  <2> QED
    BY <2>1, <2>2
<1>3. \A i \in 1 .. p : i \in 1 .. p + 1
  OBVIOUS
<1>4. ~ (p + 1 = 0)
  OBVIOUS
<1> QED
  BY <1>1, <1>2, <1>3, <1>4 DEF BufferFits

----------------------------------------------------------------------------
(* A frame between the rows of its session, its table.                     *)

Buffer(f) == IF f.writeStdout THEN f.stdout ELSE f.stderr
Pos(f, o) == Len(o) - Len(f.output)

RowFits(f, o) ==
  /\ Pos(f, o) >= 0
  /\ \A i \in 1 .. Len(f.output) : f.output[i] = Shown(o, Pos(f, o), Pos(f, o) + i)
  /\ BufferFits(Buffer(f), o, Pos(f, o))
  /\ \A m \in 1 .. Pos(f, o) : LastMarker(o, Pos(f, o), m) => (f.writeStdout <=> o[m] = Out)

FrameFits(f, table) ==
  /\ f.row \in 0 .. Len(table) /\ Len(f.rows) = Len(table) - f.row
  /\ \A k \in 1 .. Len(f.rows) : f.rows[k] = table[f.row + k]
  /\ ~ f.busy => f.output = <<>> /\ f.stdout = <<>> /\ f.stderr = <<>>
  /\ f.busy => f.row >= 1 /\ table[f.row].command /\ RowFits(f, table[f.row].output)

\* Place i of row k has been read; its text is in the buffer still.
ReadIn(f, table, k, i) ==
  k < f.row \/ (k = f.row /\ (f.busy => i <= Pos(f, table[k].output)))
PendingIn(f, table, k, i) ==
  k = f.row /\ f.busy /\ PendingAt(table[k].output, Pos(f, table[k].output), i)
CameOutOf(f, table, k, i) == ReadIn(f, table, k, i) /\ ~ PendingIn(f, table, k, i)

GoodTable(s, table, w, K) ==
  \A k \in 1 .. Len(table) : GoodOutput(s, table[k].output, w, K)

LEMMA RowsOfTable ==
  ASSUME NEW table \in Seq(Row), NEW k \in 1 .. Len(table)
  PROVE  table[k] \in Row /\ table[k].output \in Outputs /\ table[k].command \in BOOLEAN
         /\ Len(table) \in Nat
<1>1. table[k] \in Row
  BY ElementOfSeq
<1>2. Len(table) \in Nat
  BY LenProperties
<1> QED
  BY <1>1, <1>2 DEF Row

LEMMA SameRows == RowIn(Session) = Row /\ OutputsIn(Session) = Outputs
  BY DEF RowIn, Row, OutputsIn, Outputs, TokenIn, Token

LEMMA FrameTypes ==
  ASSUME NEW f \in GoodFrames(Session)
  PROVE  /\ f.session \in Session /\ f.row \in Nat /\ f.rows \in Seq(Row) /\ f.output \in Outputs
         /\ f.stdout \in Seq(Token) /\ f.stderr \in Seq(Token) /\ Buffer(f) \in Seq(Token)
         /\ f.writeStdout \in BOOLEAN /\ f.busy \in BOOLEAN
         /\ (f.writeStdout => f.stderr = <<>>) /\ (~ f.writeStdout => f.stdout = <<>>)
         /\ Len(f.output) \in Nat /\ Len(f.rows) \in Nat
         /\ (Len(f.output) = 0 <=> f.output = <<>>)
<1>1. f \in FrameIn(Session) /\ (f.writeStdout => f.stderr = <<>>) /\ (~ f.writeStdout => f.stdout = <<>>)
  BY DEF GoodFrames
<1>2. /\ f.session \in Session /\ f.row \in Nat /\ f.rows \in Seq(Row) /\ f.output \in Outputs
      /\ f.stdout \in Seq(Token) /\ f.stderr \in Seq(Token)
      /\ f.writeStdout \in BOOLEAN /\ f.busy \in BOOLEAN
  BY GoodFrameFields, SameRows
<1>3. f.output \in Seq(Token)
  BY <1>2 DEF Outputs
<1>4. Len(f.output) = 0 <=> f.output = <<>>
  BY <1>3, EmptySeq
<1> QED
  BY <1>1, <1>2, <1>3, <1>4, LenProperties DEF Buffer

\* A frame in the middle of a row.
LEMMA BusyFrame ==
  ASSUME NEW f \in GoodFrames(Session), NEW table \in Seq(Row), FrameFits(f, table), f.busy
  PROVE  /\ f.row \in 1 .. Len(table) /\ table[f.row].command
         /\ table[f.row].output \in Outputs /\ Len(table[f.row].output) \in Nat
         /\ RowFits(f, table[f.row].output)
         /\ Pos(f, table[f.row].output) \in 0 .. Len(table[f.row].output)
         /\ Len(f.output) = Len(table[f.row].output) - Pos(f, table[f.row].output)
<1>1. f.row \in 1 .. Len(table) /\ table[f.row].command /\ RowFits(f, table[f.row].output)
  <2>1. Len(table) \in Nat
    BY LenProperties
  <2> QED
    BY <2>1 DEF FrameFits
<1>2. table[f.row].output \in Outputs
  BY <1>1, RowsOfTable
<1>3. Len(table[f.row].output) \in Nat /\ Len(f.output) \in Nat
  BY <1>2, OutputBytes, FrameTypes
<1>4. PICK o : o = table[f.row].output
  OBVIOUS
<1>5. Pos(f, o) >= 0
  BY <1>1, <1>4 DEF RowFits
<1>6. Pos(f, o) \in 0 .. Len(o) /\ Len(f.output) = Len(o) - Pos(f, o)
  <2>1. PICK n \in Nat : n = Len(o)
    BY <1>3, <1>4
  <2>2. PICK m \in Nat : m = Len(f.output)
    BY <1>3
  <2>3. Pos(f, o) = n - m /\ n - m >= 0
    BY <1>5, <2>1, <2>2 DEF Pos
  <2>4. n - m \in 0 .. n /\ m = n - (n - m)
    BY <2>3
  <2> QED
    BY <2>1, <2>2, <2>3, <2>4
<1>7. /\ Pos(f, table[f.row].output) \in 0 .. Len(table[f.row].output)
      /\ Len(f.output) = Len(table[f.row].output) - Pos(f, table[f.row].output)
  BY <1>4, <1>6, Zenon
<1> QED
  BY <1>1, <1>2, <1>3, <1>7, Zenon

\* The next row: nothing of it has been read but its command.
LEMMA RowBegins ==
  ASSUME NEW f \in GoodFrames(Session), NEW table \in Seq(Row), FrameFits(f, table),
         ~ f.busy, f.rows # <<>>, NEW g \in GoodFrames(Session),
         g.rows = Tail(f.rows), g.row = f.row + 1, g.session = f.session,
         \/ /\ Head(f.rows).command /\ g.busy /\ g.output = Head(f.rows).output
            /\ g.stdout = <<>> /\ g.stderr = <<>>
         \/ /\ ~ Head(f.rows).command /\ ~ g.busy /\ g.output = f.output
            /\ g.stdout = f.stdout /\ g.stderr = f.stderr
  PROVE  /\ FrameFits(g, table)
         /\ f.row + 1 \in 1 .. Len(table) /\ Head(f.rows) = table[f.row + 1]
         /\ \A k, i \in Nat : ReadIn(f, table, k, i) => ReadIn(g, table, k, i)
         /\ \A k, i \in Nat : ReadIn(g, table, k, i) =>
              ReadIn(f, table, k, i) \/ (k = f.row + 1 /\ (table[k].command => i = 0))
         /\ ReadIn(g, table, f.row + 1, 0) /\ ~ ReadIn(f, table, f.row + 1, 0)
         /\ \A k, i : ~ PendingIn(g, table, k, i) /\ ~ PendingIn(f, table, k, i)
<1> DEFINE n == Len(table)
           m == Len(f.rows)
           r == f.row
<1>1. /\ n \in Nat /\ m \in Nat /\ m # 0 /\ r \in Nat /\ m = n - r /\ r \in 0 .. n
      /\ f.rows \in Seq(Row) /\ f.busy \in BOOLEAN /\ g.busy \in BOOLEAN
  BY FrameTypes, LenProperties, EmptySeq DEF FrameFits
<1>2. r + 1 \in 1 .. n
  BY <1>1
<1>3. Head(f.rows) = f.rows[1] /\ f.rows[1] = table[r + 1]
  <2>1. 1 \in 1 .. m
    BY <1>1
  <2>2. f.rows[1] = table[r + 1]
    BY <2>1 DEF FrameFits
  <2> QED
    BY <1>1, <2>2
<1>4. /\ Len(g.rows) = n - (r + 1)
      /\ \A k \in 1 .. Len(g.rows) : g.rows[k] = table[(r + 1) + k]
  <2>1. /\ Len(Tail(f.rows)) = m - 1
        /\ \A k \in 1 .. Len(Tail(f.rows)) : Tail(f.rows)[k] = f.rows[k + 1]
    BY <1>1, HeadTailProperties
  <2>2. ASSUME NEW k \in 1 .. m - 1 PROVE f.rows[k + 1] = table[(r + 1) + k]
    <3>1. k + 1 \in 1 .. m /\ r + (k + 1) = (r + 1) + k
      BY <1>1
    <3> QED
      BY <3>1 DEF FrameFits
  <2>3. Len(g.rows) = m - 1 /\ \A k \in 1 .. m - 1 : g.rows[k] = f.rows[k + 1]
    BY <2>1
  <2>4. m - 1 = n - (r + 1)
    BY <1>1
  <2> HIDE DEF m, n, r
  <2> QED
    BY <2>2, <2>3, <2>4
<1> DEFINE o == table[r + 1].output
<1>5. o \in Outputs /\ Len(o) \in Nat
  BY <1>2, RowsOfTable, OutputBytes
<1>6. g.busy => Pos(g, o) = 0 /\ g.output = o /\ table[r + 1].command
  BY <1>3, <1>5 DEF Pos
<1>7. g.busy => RowFits(g, o)
  <2> SUFFICES ASSUME g.busy PROVE RowFits(g, o)
    OBVIOUS
  <2>1. Pos(g, o) = 0 /\ g.output = o /\ Buffer(g) = <<>>
    BY <1>3, <1>6 DEF Buffer
  <2>2. \A i \in 1 .. Len(o) : Shown(o, 0, 0 + i) = o[i]
    BY <1>5 DEF Shown
  <2>3. BufferFits(<<>>, o, 0)
    BY EmptySeq DEF BufferFits
  <2> HIDE DEF o
  <2> QED
    BY <2>1, <2>2, <2>3 DEF RowFits
<1>8. ~ g.busy => g.output = <<>> /\ g.stdout = <<>> /\ g.stderr = <<>>
  BY DEF FrameFits
<1>9. FrameFits(g, table)
  <2>1. g.row \in 0 .. n /\ g.row = r + 1 /\ g.row >= 1
    BY <1>1, <1>2
  <2> HIDE DEF o
  <2> QED
    BY <1>4, <1>6, <1>7, <1>8, <2>1 DEF FrameFits, o
<1>10. \A k, i \in Nat : ReadIn(f, table, k, i) <=> k <= r
  BY <1>1 DEF ReadIn
<1>11. \A k, i \in Nat : ReadIn(g, table, k, i) <=>
         k <= r \/ (k = r + 1 /\ (g.busy => i <= 0))
  <2> SUFFICES ASSUME NEW k \in Nat, NEW i \in Nat
               PROVE  ReadIn(g, table, k, i) <=> k <= r \/ (k = r + 1 /\ (g.busy => i <= 0))
    OBVIOUS
  <2>1. k < r + 1 <=> k <= r
    BY <1>1
  <2>2. k = r + 1 /\ g.busy => Pos(g, table[k].output) = 0
    BY <1>6
  <2> QED
    BY <2>1, <2>2 DEF ReadIn
<1>12. ~ g.busy => ~ table[r + 1].command
  BY <1>3
<1>13. \A k, i : ~ PendingIn(g, table, k, i) /\ ~ PendingIn(f, table, k, i)
  <2>1. \A k, i : PendingIn(g, table, k, i) => PendingAt(o, 0, i)
    BY <1>6 DEF PendingIn
  <2>2. \A i : ~ PendingAt(o, 0, i)
    BY DEF PendingAt
  <2> QED
    BY <2>1, <2>2 DEF PendingIn
<1>14. \A i \in Nat : i <= 0 => i = 0
  OBVIOUS
<1> HIDE DEF o
<1> QED
  <2>1. ReadIn(g, table, r + 1, 0) /\ ~ ReadIn(f, table, r + 1, 0)
    BY <1>1, <1>10, <1>11
  <2>2. \A k, i \in Nat : ReadIn(g, table, k, i) =>
          ReadIn(f, table, k, i) \/ (k = r + 1 /\ (table[k].command => i = 0))
    BY <1>10, <1>11, <1>12, <1>14
  <2> QED
    BY <1>2, <1>3, <1>9, <1>10, <1>11, <1>13, <2>1, <2>2

----------------------------------------------------------------------------
(* What reading a byte does to a frame.                                    *)

IsPlace(table, k, i) ==
  /\ k \in 1 .. Len(table) /\ table[k].command
  /\ i = 0 \/ (i \in 1 .. Len(table[k].output) /\ IsText(table[k].output[i]))

\* The frame f reads the byte behind the first p of o, the output of its row.
Reads(f, table, o, p) ==
  /\ f \in GoodFrames(Session) /\ table \in Seq(Row) /\ FrameFits(f, table)
  /\ f.busy /\ f.output # <<>>
  /\ o = table[f.row].output /\ p = Pos(f, o)

LEMMA ByteRead ==
  ASSUME NEW f, NEW table, NEW o, NEW p, Reads(f, table, o, p)
  PROVE  /\ o \in Outputs /\ p \in Nat /\ p < Len(o) /\ Len(o) \in Nat
         /\ f.row \in 1 .. Len(table) /\ RowFits(f, o) /\ f.output \in Outputs
         /\ Head(f.output) = Shown(o, p, p + 1)
         /\ Tail(f.output) \in Seq(Token) /\ Len(Tail(f.output)) = Len(o) - (p + 1)
         /\ \A i \in 1 .. Len(o) - (p + 1) : Tail(f.output)[i] = o[(p + 1) + i]
<1>1. /\ f \in GoodFrames(Session) /\ table \in Seq(Row) /\ FrameFits(f, table)
      /\ f.busy /\ f.output # <<>> /\ o = table[f.row].output /\ p = Pos(f, o)
  BY DEF Reads
<1>2. /\ o \in Outputs /\ Len(o) \in Nat /\ p \in 0 .. Len(o) /\ Len(f.output) = Len(o) - p
      /\ f.row \in 1 .. Len(table) /\ RowFits(f, o)
  BY <1>1, BusyFrame
<1>3. f.output \in Outputs /\ f.output \in Seq(Token) /\ Len(f.output) \in Nat /\ Len(f.output) # 0
  BY <1>1, FrameTypes DEF Outputs
<1>4. p < Len(o) /\ p \in Nat
  BY <1>2, <1>3
<1>5. \A i \in 1 .. Len(f.output) : f.output[i] = Shown(o, p, p + i)
  BY <1>1, <1>2 DEF RowFits
<1>6. Head(f.output) = Shown(o, p, p + 1)
  BY <1>3, <1>5
<1>7. /\ Tail(f.output) \in Seq(Token) /\ Len(Tail(f.output)) = Len(f.output) - 1
      /\ \A i \in 1 .. Len(Tail(f.output)) : Tail(f.output)[i] = f.output[i + 1]
  BY <1>1, <1>3, HeadTailProperties
<1>8. Len(Tail(f.output)) = Len(o) - (p + 1)
  BY <1>2, <1>7
<1>9. ASSUME NEW i \in 1 .. Len(o) - (p + 1) PROVE Tail(f.output)[i] = o[(p + 1) + i]
  <2>1. i + 1 \in 1 .. Len(f.output) /\ p + (i + 1) = (p + 1) + i /\ ~ ((p + 1) + i = p + 1)
    BY <1>2, <1>4
  <2>2. Tail(f.output)[i] = f.output[i + 1]
    BY <1>7, <1>8
  <2>3. f.output[i + 1] = Shown(o, p, (p + 1) + i)
    BY <1>5, <2>1
  <2> QED
    BY <2>1, <2>2, <2>3 DEF Shown
<1> QED
  BY <1>2, <1>3, <1>4, <1>6, <1>7, <1>8, <1>9

\* Which marker was the last.
LEMMA MarkerNext ==
  ASSUME NEW o \in Outputs, NEW p \in Nat, p < Len(o), NEW m \in 1 .. p + 1
  PROVE  /\ o[p + 1] \in Marker => (LastMarker(o, p + 1, m) <=> m = p + 1)
         /\ o[p + 1] \notin Marker => (LastMarker(o, p + 1, m) => m \in 1 .. p /\ LastMarker(o, p, m))
<1>1. ASSUME o[p + 1] \in Marker PROVE LastMarker(o, p + 1, m) <=> m = p + 1
  <2>1. CASE m = p + 1
    <3>1. \A l \in m + 1 .. p + 1 : FALSE
      BY <2>1
    <3> QED
      BY <1>1, <2>1, <3>1 DEF LastMarker
  <2>2. CASE m # p + 1
    <3>1. p + 1 \in m + 1 .. p + 1
      BY <2>2
    <3> QED
      BY <1>1, <2>2, <3>1 DEF LastMarker
  <2> QED
    BY <2>1, <2>2
<1>2. ASSUME o[p + 1] \notin Marker, LastMarker(o, p + 1, m)
      PROVE  m \in 1 .. p /\ LastMarker(o, p, m)
  <2>1. m # p + 1
    BY <1>2 DEF LastMarker
  <2>2. \A l \in m + 1 .. p : l \in m + 1 .. p + 1
    BY <2>1
  <2> QED
    BY <1>2, <2>1, <2>2 DEF LastMarker
<1> QED
  BY <1>1, <1>2

\* A frame that has one byte more behind it.
OneByteOn(f, g, o, p) ==
  /\ g.row = f.row /\ g.rows = f.rows /\ g.busy = f.busy
  /\ Len(g.output) = Len(o) - (p + 1)
  /\ \A i \in 1 .. Len(o) - (p + 1) : g.output[i] = Shown(o, p + 1, (p + 1) + i)
  /\ BufferFits(Buffer(g), o, p + 1)
  /\ \A m \in 1 .. p + 1 : LastMarker(o, p + 1, m) => (g.writeStdout <=> o[m] = Out)

Advances(f, g, table, o, p) ==
  /\ \A k, i \in Nat : ReadIn(g, table, k, i) <=>
       ReadIn(f, table, k, i) \/ (k = f.row /\ i = p + 1)
  /\ \A k, i \in Nat : PendingIn(f, table, k, i) <=> k = f.row /\ PendingAt(o, p, i)
  /\ \A k, i \in Nat : PendingIn(g, table, k, i) <=> k = f.row /\ PendingAt(o, p + 1, i)
  /\ Pos(g, o) = p + 1

LEMMA FrameAdvances ==
  ASSUME NEW f, NEW table, NEW o, NEW p, Reads(f, table, o, p),
         NEW g \in GoodFrames(Session), OneByteOn(f, g, o, p)
  PROVE  FrameFits(g, table) /\ Advances(f, g, table, o, p)
<1>1. /\ f \in GoodFrames(Session) /\ table \in Seq(Row) /\ FrameFits(f, table)
      /\ f.busy /\ o = table[f.row].output /\ p = Pos(f, o)
  BY DEF Reads
<1>2. o \in Outputs /\ p \in Nat /\ p < Len(o) /\ Len(o) \in Nat /\ f.row \in 1 .. Len(table)
  BY ByteRead
<1>3. Pos(g, o) = p + 1
  BY <1>2 DEF Pos, OneByteOn
<1>4. RowFits(g, o)
  BY <1>2, <1>3 DEF RowFits, OneByteOn
<1>5. FrameFits(g, table)
  BY <1>1, <1>4 DEF FrameFits, OneByteOn
<1>6. \A k, i \in Nat : ReadIn(g, table, k, i) <=>
        ReadIn(f, table, k, i) \/ (k = f.row /\ i = p + 1)
  <2> SUFFICES ASSUME NEW k \in Nat, NEW i \in Nat
               PROVE  ReadIn(g, table, k, i) <=>
                        ReadIn(f, table, k, i) \/ (k = f.row /\ i = p + 1)
    OBVIOUS
  <2>1. i <= p + 1 <=> i <= p \/ i = p + 1
    BY <1>2
  <2>2. k = f.row => ~ (k < f.row)
    BY <1>2
  <2> QED
    BY <1>1, <1>3, <2>1, <2>2 DEF ReadIn, OneByteOn
<1> QED
  BY <1>1, <1>3, <1>5, <1>6 DEF PendingIn, OneByteOn, Advances

\* Between a byte and the next, the one read is no place unless it is a text.
LEMMA OtherPlaces ==
  ASSUME NEW f, NEW table, NEW o, NEW p, Reads(f, table, o, p), ~ IsText(o[p + 1]),
         NEW k, NEW i, IsPlace(table, k, i)
  PROVE  ~ (k = f.row /\ i = p + 1) /\ k \in Nat /\ i \in Nat
<1>1. o = table[f.row].output /\ p \in Nat
  BY ByteRead DEF Reads
<1>2. ~ (p + 1 = 0)
  BY <1>1
<1> QED
  BY <1>1, <1>2 DEF IsPlace

LEMMA PlaceNumbers ==
  ASSUME NEW table, NEW k, NEW i, IsPlace(table, k, i)
  PROVE  k \in Nat /\ i \in Nat
BY DEF IsPlace

\* What has come out of a frame's session when the buffers are emptied, and when
\* they are not.
Flushes(f, g, table) ==
  \A k, i : IsPlace(table, k, i) =>
    (CameOutOf(g, table, k, i) <=> CameOutOf(f, table, k, i) \/ PendingIn(f, table, k, i))
Holds(f, g, table) ==
  \A k, i : IsPlace(table, k, i) =>
    (CameOutOf(g, table, k, i) <=> CameOutOf(f, table, k, i))

\* Nothing is forgotten to have been read, and of the markers of nested sessions
\* only those in rows that do not count are new.
Continues(f, g, table) ==
  /\ \A k, i \in Nat : ReadIn(f, table, k, i) => ReadIn(g, table, k, i)
  /\ \A k \in 1 .. Len(table) : \A i \in 1 .. Len(table[k].output) :
       table[k].command /\ table[k].output[i] = Nested /\ ReadIn(g, table, k, i) =>
         ReadIn(f, table, k, i)

LEMMA MarkerFlushes ==
  ASSUME NEW f, NEW table, NEW o, NEW p, Reads(f, table, o, p),
         NEW s, NEW w, NEW K, GoodOutput(s, o, w, K),
         Head(f.output) \in Marker, NEW g \in GoodFrames(Session),
         g.row = f.row, g.rows = f.rows, g.busy = f.busy, g.output = Tail(f.output),
         g.stdout = <<>>, g.stderr = <<>>, g.writeStdout <=> Head(f.output) = Out
  PROVE  FrameFits(g, table) /\ Flushes(f, g, table) /\ Continues(f, g, table)
<1>1. /\ o \in Outputs /\ p \in Nat /\ p < Len(o) /\ Len(o) \in Nat
      /\ Head(f.output) = Shown(o, p, p + 1)
      /\ Len(g.output) = Len(o) - (p + 1)
      /\ \A i \in 1 .. Len(o) - (p + 1) : g.output[i] = o[(p + 1) + i]
  BY ByteRead
<1>2. o[p + 1] = Head(f.output) /\ o[p + 1] \in Marker
  BY <1>1, NextByte, Tokens
<1>3. ~ IsText(o[p + 1]) /\ o[p + 1] # Nested
  BY <1>2, Tokens
<1>4. \A i \in 1 .. Len(o) - (p + 1) : g.output[i] = Shown(o, p + 1, (p + 1) + i)
  BY <1>1, <1>3 DEF Shown
<1>5. BufferFits(Buffer(g), o, p + 1)
  BY <1>1, <1>2, BufferAtMarker DEF Buffer
<1>6. \A m \in 1 .. p + 1 : LastMarker(o, p + 1, m) => (g.writeStdout <=> o[m] = Out)
  BY <1>1, <1>2, MarkerNext
<1>7. /\ FrameFits(g, table)
      /\ \A k, i \in Nat : ReadIn(g, table, k, i) <=>
           ReadIn(f, table, k, i) \/ (k = f.row /\ i = p + 1)
      /\ \A k, i \in Nat : PendingIn(f, table, k, i) <=> k = f.row /\ PendingAt(o, p, i)
      /\ \A k, i \in Nat : PendingIn(g, table, k, i) <=> k = f.row /\ PendingAt(o, p + 1, i)
  <2>1. OneByteOn(f, g, o, p)
    BY <1>1, <1>4, <1>5, <1>6 DEF OneByteOn
  <2>2. FrameFits(g, table) /\ Advances(f, g, table, o, p)
    BY <2>1, FrameAdvances
  <2> QED
    BY <2>2 DEF Advances
<1>8. \A i : ~ PendingAt(o, p + 1, i)
  <2>1. \A i \in 1 .. p + 1 : ~ PendingAt(o, p + 1, i)
    BY <1>1, <1>2, PendingNext
  <2> QED
    BY <2>1 DEF PendingAt
<1>9. \A i \in Nat : PendingIn(f, table, f.row, i) => ReadIn(f, table, f.row, i)
  <2>1. \A i \in Nat : PendingAt(o, p, i) => i <= p
    BY <1>1 DEF PendingAt
  <2>2. o = table[f.row].output /\ p = Pos(f, o)
    BY DEF Reads
  <2> QED
    BY <2>1, <2>2 DEF PendingIn, ReadIn
<1>10. Flushes(f, g, table)
  <2> SUFFICES ASSUME NEW k, NEW i, IsPlace(table, k, i)
               PROVE  CameOutOf(g, table, k, i) <=>
                        CameOutOf(f, table, k, i) \/ PendingIn(f, table, k, i)
    BY DEF Flushes
  <2>1. ~ (k = f.row /\ i = p + 1) /\ k \in Nat /\ i \in Nat
    BY <1>3, OtherPlaces
  <2>2. ReadIn(g, table, k, i) <=> ReadIn(f, table, k, i)
    BY <1>7, <2>1
  <2>3. ~ PendingIn(g, table, k, i)
    BY <1>7, <1>8, <2>1
  <2>4. PendingIn(f, table, k, i) => k = f.row
    BY DEF PendingIn
  <2>5. PendingIn(f, table, k, i) => ReadIn(f, table, k, i)
    BY <1>9, <2>1, <2>4
  <2> QED
    BY <2>2, <2>3, <2>5 DEF CameOutOf
<1>11. Continues(f, g, table)
  <2>1. o = table[f.row].output
    BY DEF Reads
  <2>2. ASSUME NEW k \in 1 .. Len(table), NEW i \in 1 .. Len(table[k].output),
               table[k].output[i] = Nested, ReadIn(g, table, k, i)
        PROVE  ReadIn(f, table, k, i)
    <3>1. ~ (k = f.row /\ i = p + 1)
      BY <1>3, <2>1, <2>2
    <3>2. k \in Nat /\ i \in Nat
      OBVIOUS
    <3> QED
      BY <1>7, <2>2, <3>1, <3>2
  <2> QED
    BY <1>7, <2>2 DEF Continues
<1> QED
  BY <1>7, <1>10, <1>11

\* A text, or a zero of an indicator, goes to the buffer of the stream.
LEMMA TextIsHeld ==
  ASSUME NEW f, NEW table, NEW o, NEW p, Reads(f, table, o, p),
         NEW s, NEW w, NEW K, GoodOutput(s, o, w, K),
         Head(f.output) \notin Marker, Head(f.output) # Nested, NEW g \in GoodFrames(Session),
         g.row = f.row, g.rows = f.rows, g.busy = f.busy, g.output = Tail(f.output),
         g.writeStdout = f.writeStdout, Buffer(g) = Append(Buffer(f), Head(f.output))
  PROVE  FrameFits(g, table) /\ Holds(f, g, table) /\ Continues(f, g, table)
<1>1. /\ o \in Outputs /\ p \in Nat /\ p < Len(o) /\ Len(o) \in Nat
      /\ Head(f.output) = Shown(o, p, p + 1) /\ RowFits(f, o)
      /\ Len(g.output) = Len(o) - (p + 1)
      /\ \A i \in 1 .. Len(o) - (p + 1) : g.output[i] = o[(p + 1) + i]
  BY ByteRead
<1>2. BufferFits(Buffer(f), o, p) /\ Buffer(f) \in Seq(Token) /\ p = Pos(f, o)
  BY <1>1, FrameTypes DEF RowFits, Reads
<1>3. \/ Head(f.output) = Nul /\ o[p + 1] \in Session
      \/ Head(f.output) = o[p + 1] /\ IsText(o[p + 1]) /\ p >= 1 /\ o[p] \in Marker
  BY <1>1, NextByte
<1>4. BufferFits(Buffer(g), o, p + 1)
  <2>1. CASE Head(f.output) = Nul /\ o[p + 1] \in Session
    BY <1>1, <1>2, <2>1, BufferAtZero
  <2>2. CASE Head(f.output) = o[p + 1] /\ IsText(o[p + 1]) /\ p >= 1 /\ o[p] \in Marker
    BY <1>1, <1>2, <2>2, BufferAtText
  <2> QED
    BY <1>3, <2>1, <2>2
<1>5. o[p + 1] \notin Marker /\ o[p + 1] # Nested
  BY <1>3, Tokens
<1>6. \A i \in 1 .. Len(o) - (p + 1) : g.output[i] = Shown(o, p + 1, (p + 1) + i)
  BY <1>1, <1>5 DEF Shown
<1>7. \A m \in 1 .. p + 1 : LastMarker(o, p + 1, m) => (g.writeStdout <=> o[m] = Out)
  <2>1. \A m \in 1 .. p : LastMarker(o, p, m) => (g.writeStdout <=> o[m] = Out)
    BY <1>1, <1>2 DEF RowFits
  <2> QED
    BY <1>1, <1>5, <2>1, MarkerNext
<1>8. /\ FrameFits(g, table)
      /\ \A k, i \in Nat : ReadIn(g, table, k, i) <=>
           ReadIn(f, table, k, i) \/ (k = f.row /\ i = p + 1)
      /\ \A k, i \in Nat : PendingIn(f, table, k, i) <=> k = f.row /\ PendingAt(o, p, i)
      /\ \A k, i \in Nat : PendingIn(g, table, k, i) <=> k = f.row /\ PendingAt(o, p + 1, i)
  <2>1. OneByteOn(f, g, o, p)
    BY <1>1, <1>4, <1>6, <1>7 DEF OneByteOn
  <2>2. FrameFits(g, table) /\ Advances(f, g, table, o, p)
    BY <2>1, FrameAdvances
  <2> QED
    BY <2>2 DEF Advances
<1>9. Holds(f, g, table)
  <2> SUFFICES ASSUME NEW k, NEW i, IsPlace(table, k, i)
               PROVE  CameOutOf(g, table, k, i) <=> CameOutOf(f, table, k, i)
    BY DEF Holds
  <2>1. k \in Nat /\ i \in Nat /\ o = table[f.row].output /\ p = Pos(f, o)
    BY PlaceNumbers DEF Reads
  <2>2. CASE k = f.row /\ i = p + 1
    <3>1. IsText(o[p + 1])
      <4>1. ~ (p + 1 = 0)
        BY <1>1
      <4> QED
        BY <2>1, <2>2, <4>1 DEF IsPlace
    <3>2. PendingAt(o, p + 1, i) /\ p + 1 \in 1 .. p + 1
      BY <1>1, <2>2, <3>1, PendingNext
    <3>3. ~ ReadIn(f, table, k, i)
      <4>1. ~ (p + 1 <= p) /\ ~ (f.row < f.row)
        <5>1. f.row \in Nat
          BY <2>1, <2>2
        <5> QED
          BY <1>1, <5>1
      <4> QED
        BY <2>1, <2>2, <4>1 DEF ReadIn, Reads
    <3> QED
      BY <1>8, <2>1, <2>2, <3>2, <3>3 DEF CameOutOf
  <2>3. CASE ~ (k = f.row /\ i = p + 1)
    <3>1. ReadIn(g, table, k, i) <=> ReadIn(f, table, k, i)
      BY <1>8, <2>1, <2>3
    <3>2. k = f.row => (PendingAt(o, p + 1, i) <=> PendingAt(o, p, i))
      <4> SUFFICES ASSUME k = f.row PROVE PendingAt(o, p + 1, i) <=> PendingAt(o, p, i)
        OBVIOUS
      <4>1. i # p + 1
        BY <2>3
      <4>2. CASE i \in 1 .. p + 1
        BY <1>1, <1>5, <4>1, <4>2, PendingNext
      <4>3. CASE i \notin 1 .. p + 1
        <5>1. i \notin 1 .. p
          BY <1>1, <4>3
        <5> QED
          BY <4>3, <5>1 DEF PendingAt
      <4> QED
        BY <4>2, <4>3
    <3> QED
      BY <1>8, <2>1, <3>1, <3>2 DEF CameOutOf
  <2> QED
    BY <2>2, <2>3
<1>10. Continues(f, g, table)
  <2>1. o = table[f.row].output
    BY DEF Reads
  <2>2. ASSUME NEW k \in 1 .. Len(table), NEW i \in 1 .. Len(table[k].output),
               table[k].output[i] = Nested, ReadIn(g, table, k, i)
        PROVE  ReadIn(f, table, k, i)
    <3>1. ~ (k = f.row /\ i = p + 1)
      BY <1>5, <2>1, <2>2
    <3>2. k \in Nat /\ i \in Nat
      OBVIOUS
    <3> QED
      BY <1>8, <2>2, <3>1, <3>2
  <2> QED
    BY <1>8, <2>2 DEF Continues
<1> QED
  BY <1>8, <1>9, <1>10

\* The marker of a nested session: its indicator is next, and a zero from now on.
LEMMA NestedIsHeld ==
  ASSUME NEW f, NEW table, NEW o, NEW p, Reads(f, table, o, p),
         NEW s, NEW w, NEW K, GoodOutput(s, o, w, K),
         Head(f.output) = Nested, NEW g \in GoodFrames(Session),
         g.row = f.row, g.rows = f.rows, g.busy = f.busy,
         g.output = <<Nul>> \o Tail(Tail(f.output)),
         g.writeStdout = f.writeStdout, Buffer(g) = Buffer(f)
  PROVE  /\ FrameFits(g, table) /\ Holds(f, g, table) /\ Pos(g, o) = p + 1
         /\ p + 1 \in 1 .. Len(o) /\ o[p + 1] = Nested
         /\ p + 1 < Len(o) /\ o[p + 2] = Head(Tail(f.output)) /\ o[p + 2] \in Session
         /\ \A k, i \in Nat : ReadIn(g, table, k, i) <=>
              ReadIn(f, table, k, i) \/ (k = f.row /\ i = p + 1)
<1>1. /\ o \in Outputs /\ p \in Nat /\ p < Len(o) /\ Len(o) \in Nat
      /\ Head(f.output) = Shown(o, p, p + 1) /\ RowFits(f, o)
      /\ Tail(f.output) \in Seq(Token) /\ Len(Tail(f.output)) = Len(o) - (p + 1)
      /\ \A i \in 1 .. Len(o) - (p + 1) : Tail(f.output)[i] = o[(p + 1) + i]
  <2>1. o \in Outputs /\ p \in Nat /\ p < Len(o) /\ Len(o) \in Nat /\ RowFits(f, o)
    BY ByteRead
  <2>2. Head(f.output) = Shown(o, p, p + 1)
    BY ByteRead
  <2>3. /\ Tail(f.output) \in Seq(Token) /\ Len(Tail(f.output)) = Len(o) - (p + 1)
        /\ \A i \in 1 .. Len(o) - (p + 1) : Tail(f.output)[i] = o[(p + 1) + i]
    BY ByteRead
  <2> QED
    BY <2>1, <2>2, <2>3
<1>2. o[p + 1] = Nested /\ p + 1 < Len(o) /\ o[p + 2] \in Session
  BY <1>1, NextByte, Tokens
<1> DEFINE t == Tail(f.output)
           n == Len(o) - (p + 1)
<1>3. n \in Nat /\ n # 0 /\ t \in Seq(Token) /\ Len(t) = n /\ t # <<>>
  <2>1. n \in Nat /\ n # 0
    BY <1>1, <1>2
  <2> QED
    BY <1>1, <2>1, EmptySeq
<1>4. Head(t) = o[p + 2]
  <2>1. 1 \in 1 .. n /\ (p + 1) + 1 = p + 2
    BY <1>1, <1>3
  <2>2. t[1] = o[p + 2]
    BY <1>1, <2>1
  <2> QED
    BY <1>3, <2>2
<1>5. /\ Len(g.output) = n
      /\ \A i \in 1 .. n : g.output[i] = IF i = 1 THEN Nul ELSE t[i]
  <2> DEFINE u == Tail(t)
             z == <<Nul>>
  <2>1. u \in Seq(Token) /\ Len(u) = n - 1 /\ \A i \in 1 .. Len(u) : u[i] = t[i + 1]
    BY <1>3, HeadTailProperties
  <2>2. z \in Seq(Token) /\ Len(z) = 1 /\ z[1] = Nul
    BY DEF Token
  <2> HIDE DEF u, z, t
  <2>3. /\ Len(z \o u) = Len(z) + Len(u)
        /\ \A i \in 1 .. Len(z) + Len(u) :
             (z \o u)[i] = IF i <= Len(z) THEN z[i] ELSE u[i - Len(z)]
    BY <2>1, <2>2, ConcatProperties
  <2> HIDE DEF n
  <2>4. Len(z \o u) = n
    BY <1>3, <2>1, <2>2, <2>3
  <2>5. ASSUME NEW i \in 1 .. n PROVE (z \o u)[i] = IF i = 1 THEN Nul ELSE t[i]
    <3>1. (z \o u)[i] = IF i <= 1 THEN z[i] ELSE u[i - 1]
      BY <1>3, <2>1, <2>2, <2>3
    <3>2. CASE i = 1
      BY <2>2, <3>1, <3>2
    <3>3. CASE i # 1
      <4>1. i - 1 \in 1 .. Len(u) /\ ~ (i <= 1) /\ (i - 1) + 1 = i
        BY <1>3, <2>1, <3>3
      <4> QED
        BY <2>1, <3>1, <3>3, <4>1
    <3> QED
      BY <3>2, <3>3
  <2>6. g.output = z \o u
    BY DEF z, u, t
  <2> QED
    BY <2>4, <2>5, <2>6
<1>6. \A i \in 1 .. n : g.output[i] = Shown(o, p + 1, (p + 1) + i)
  <2> SUFFICES ASSUME NEW i \in 1 .. n PROVE g.output[i] = Shown(o, p + 1, (p + 1) + i)
    OBVIOUS
  <2>1. i = 1 <=> (p + 1) + i = (p + 1) + 1
    BY <1>1, <1>3
  <2>2. p + 1 >= 1
    BY <1>1
  <2>3. Shown(o, p + 1, (p + 1) + i) = IF i = 1 THEN Nul ELSE o[(p + 1) + i]
    BY <1>2, <2>1, <2>2 DEF Shown
  <2> QED
    BY <1>1, <1>5, <2>3
<1>7. BufferFits(Buffer(g), o, p + 1)
  <2>1. BufferFits(Buffer(f), o, p)
    BY <1>1 DEF RowFits, Reads
  <2> QED
    BY <1>1, <1>2, <2>1, BufferAtNested
<1>8. o[p + 1] \notin Marker /\ ~ IsText(o[p + 1])
  BY <1>2, Tokens
<1>9. \A m \in 1 .. p + 1 : LastMarker(o, p + 1, m) => (g.writeStdout <=> o[m] = Out)
  <2>1. \A m \in 1 .. p : LastMarker(o, p, m) => (g.writeStdout <=> o[m] = Out)
    BY <1>1 DEF RowFits, Reads
  <2> QED
    BY <1>1, <1>8, <2>1, MarkerNext
<1>10. /\ FrameFits(g, table) /\ Pos(g, o) = p + 1
       /\ \A k, i \in Nat : ReadIn(g, table, k, i) <=>
            ReadIn(f, table, k, i) \/ (k = f.row /\ i = p + 1)
       /\ \A k, i \in Nat : PendingIn(f, table, k, i) <=> k = f.row /\ PendingAt(o, p, i)
       /\ \A k, i \in Nat : PendingIn(g, table, k, i) <=> k = f.row /\ PendingAt(o, p + 1, i)
  <2>1. OneByteOn(f, g, o, p)
    BY <1>1, <1>5, <1>6, <1>7, <1>9 DEF OneByteOn
  <2>2. FrameFits(g, table) /\ Advances(f, g, table, o, p)
    BY <2>1, FrameAdvances
  <2> QED
    BY <2>2 DEF Advances
<1>11. Holds(f, g, table)
  <2> SUFFICES ASSUME NEW k, NEW i, IsPlace(table, k, i)
               PROVE  CameOutOf(g, table, k, i) <=> CameOutOf(f, table, k, i)
    BY DEF Holds
  <2>1. ~ (k = f.row /\ i = p + 1) /\ k \in Nat /\ i \in Nat
    BY <1>8, OtherPlaces
  <2>2. ReadIn(g, table, k, i) <=> ReadIn(f, table, k, i)
    BY <1>10, <2>1
  <2>3. k = f.row => (PendingAt(o, p + 1, i) <=> PendingAt(o, p, i))
    <3> SUFFICES ASSUME k = f.row PROVE PendingAt(o, p + 1, i) <=> PendingAt(o, p, i)
      OBVIOUS
    <3>1. i # p + 1
      BY <2>1
    <3>2. CASE i \in 1 .. p + 1
      BY <1>1, <1>8, <3>1, <3>2, PendingNext
    <3>3. CASE i \notin 1 .. p + 1
      <4>1. i \notin 1 .. p
        BY <1>1, <3>3
      <4> QED
        BY <3>3, <4>1 DEF PendingAt
    <3> QED
      BY <3>2, <3>3
  <2> QED
    BY <1>10, <2>1, <2>2, <2>3 DEF CameOutOf
<1>12. p + 1 \in 1 .. Len(o)
  BY <1>1, <1>2
<1> QED
  BY <1>2, <1>4, <1>10, <1>11, <1>12

\* The end of a row.
LEMMA RowEnds ==
  ASSUME NEW f \in GoodFrames(Session), NEW table \in Seq(Row), FrameFits(f, table),
         f.busy, f.output = <<>>, NEW g \in GoodFrames(Session),
         g.row = f.row, g.rows = f.rows, ~ g.busy, g.output = f.output,
         g.stdout = <<>>, g.stderr = <<>>
  PROVE  FrameFits(g, table) /\ Flushes(f, g, table) /\ Continues(f, g, table)
<1>1. FrameFits(g, table)
  BY DEF FrameFits
<1> DEFINE o == table[f.row].output
           n == Len(o)
<1>2. /\ f.row \in 1 .. Len(table) /\ o \in Outputs /\ n \in Nat
      /\ Pos(f, o) \in 0 .. n /\ Len(f.output) = n - Pos(f, o)
  BY BusyFrame
<1>3. Pos(f, o) = n
  <2>1. Len(f.output) = 0
    BY EmptySeq
  <2> QED
    BY <1>2, <2>1
<1>4. \A k, i \in Nat : ReadIn(f, table, k, i) => ReadIn(g, table, k, i)
  BY DEF ReadIn
<1>5. ASSUME NEW k \in Nat, NEW i \in Nat, k = f.row => i <= n, ReadIn(g, table, k, i)
      PROVE  ReadIn(f, table, k, i)
  <2>1. k < f.row \/ k = f.row
    BY <1>5 DEF ReadIn
  <2> QED
    BY <1>3, <1>5, <2>1 DEF ReadIn
<1>6. \A k, i : ~ PendingIn(g, table, k, i)
  BY DEF PendingIn
<1>7. \A k, i \in Nat : PendingIn(f, table, k, i) => ReadIn(f, table, k, i)
  <2> SUFFICES ASSUME NEW k \in Nat, NEW i \in Nat, PendingIn(f, table, k, i)
               PROVE  ReadIn(f, table, k, i)
    OBVIOUS
  <2>1. k = f.row /\ PendingAt(o, n, i)
    BY <1>3 DEF PendingIn
  <2>2. i <= n
    BY <1>2, <2>1 DEF PendingAt
  <2> QED
    BY <1>3, <2>1, <2>2 DEF ReadIn
<1>8. Flushes(f, g, table)
  <2> SUFFICES ASSUME NEW k, NEW i, IsPlace(table, k, i)
               PROVE  CameOutOf(g, table, k, i) <=>
                        CameOutOf(f, table, k, i) \/ PendingIn(f, table, k, i)
    BY DEF Flushes
  <2>1. k \in Nat /\ i \in Nat
    BY PlaceNumbers
  <2>2. k = f.row => i <= n
    BY <1>2 DEF IsPlace
  <2>3. ReadIn(g, table, k, i) <=> ReadIn(f, table, k, i)
    BY <1>4, <1>5, <2>1, <2>2
  <2> QED
    BY <1>6, <1>7, <2>1, <2>3 DEF CameOutOf
<1>9. Continues(f, g, table)
  <2>1. ASSUME NEW k \in 1 .. Len(table), NEW i \in 1 .. Len(table[k].output),
               ReadIn(g, table, k, i)
        PROVE  ReadIn(f, table, k, i)
    <3>1. k \in Nat /\ i \in Nat /\ (k = f.row => i <= n)
      BY <1>2
    <3> QED
      BY <1>5, <2>1, <3>1
  <2> QED
    BY <1>4, <2>1 DEF Continues
<1> QED
  BY <1>1, <1>8, <1>9

----------------------------------------------------------------------------
(* What a place of a table comes out as.                                   *)

LEMMA PlacesAre ==
  ASSUME NEW table \in Seq(Row)
  PROVE  /\ \A p \in Places(table) : \E k, i : p = <<k, i>> /\ IsPlace(table, k, i)
         /\ \A k, i : <<k, i>> \in Places(table) <=> IsPlace(table, k, i)
<1> DEFINE Finish == {n \in DOMAIN table : table[n].command}
           Of(k) == {0} \cup {j \in DOMAIN table[k].output : IsText(table[k].output[j])}
<1>1. \A p : p \in Places(table) <=> \E k \in Finish : p \in {k} \X Of(k)
  BY DEF Places
<1>2. DOMAIN table = 1 .. Len(table)
  BY LenProperties
<1>3. ASSUME NEW k \in Finish, NEW i PROVE i \in Of(k) <=> IsPlace(table, k, i)
  <2>1. k \in 1 .. Len(table) /\ table[k].command
    BY <1>2
  <2>2. table[k].output \in Seq(Token)
    BY <2>1, RowsOfTable DEF Outputs
  <2>3. DOMAIN table[k].output = 1 .. Len(table[k].output)
    BY <2>2, LenProperties
  <2> QED
    BY <2>1, <2>3 DEF IsPlace
<1>4. \A k, i : IsPlace(table, k, i) => k \in Finish
  BY <1>2 DEF IsPlace
<1> HIDE DEF Finish, Of
<1> QED
  BY <1>1, <1>3, <1>4

\* A text stands right after its marker.
LEMMA StreamBefore ==
  ASSUME NEW o \in Outputs, NEW s, NEW w, NEW K, GoodOutput(s, o, w, K),
         NEW i \in 1 .. Len(o), IsText(o[i])
  PROVE  StreamAt(o, i) = o[i - 1] /\ o[i - 1] \in Marker
<1>1. i > 1 /\ o[i - 1] \in Marker /\ Len(o) \in Nat
  BY OutputBytes DEF GoodOutput
<1> DEFINE M == {m \in 1 .. i : o[m] \in {Out, Err}}
<1>2. i - 1 \in M /\ \A m \in M : i - 1 >= m
  <2>1. i - 1 \in M
    BY <1>1 DEF Marker
  <2>2. i \notin M
    BY Tokens DEF Marker
  <2>3. \A m \in M : m \in 1 .. i /\ m # i
    BY <2>2
  <2> QED
    BY <2>1, <2>3
<1>3. \A m \in M : m \in Int
  OBVIOUS
<1> HIDE DEF M
<1>4. Max(M) = i - 1
  <2>1. \A m \in M : (\A y \in M : m >= y) => m = i - 1
    BY <1>2, <1>3
  <2> QED
    BY <1>2, <2>1 DEF Max
<1> QED
  BY <1>1, <1>4 DEF StreamAt, M

Printable == [to : {Out, Err}, what : Seq(Nat)]

LEMMA PrintableIs ==
  ASSUME NEW to \in Marker, NEW what \in Seq(Nat)
  PROVE  [to |-> to, what |-> what] \in Printable
BY DEF Printable, Marker

\* The command of a row, or a text with the marker before it.
EntryIs(s, table, k, i) ==
  /\ i = 0 => Entry(s, table, <<k, i>>) = [to |-> Out, what |-> <<s, k>>]
  /\ i # 0 => /\ IsText(table[k].output[i]) /\ table[k].output[i - 1] \in Marker
              /\ Entry(s, table, <<k, i>>) =
                   [to |-> table[k].output[i - 1], what |-> <<table[k].output[i]>>]
  /\ Entry(s, table, <<k, i>>) \in Printable

LEMMA EntryOf ==
  ASSUME NEW s \in Session, NEW table \in Seq(Row), NEW w, NEW K, GoodTable(s, table, w, K),
         NEW k, NEW i, IsPlace(table, k, i)
  PROVE  EntryIs(s, table, k, i)
<1>1. k \in 1 .. Len(table) /\ k \in Nat /\ table[k].output \in Outputs
  BY RowsOfTable DEF IsPlace
<1>2. s \in Nat
  BY SessionAssumption
<1>3. CASE i = 0
  <2>1. Entry(s, table, <<k, i>>) = [to |-> Out, what |-> <<s, k>>]
    BY <1>3 DEF Entry
  <2>2. <<s, k>> \in Seq(Nat)
    BY <1>1, <1>2
  <2>3. [to |-> Out, what |-> <<s, k>>] \in Printable
    BY <2>2, PrintableIs DEF Marker
  <2> QED
    BY <1>3, <2>1, <2>3 DEF EntryIs
<1>4. CASE i # 0
  <2> DEFINE o == table[k].output
  <2>1. i \in 1 .. Len(o) /\ IsText(o[i])
    BY <1>4 DEF IsPlace
  <2>2. o \in Outputs /\ GoodOutput(s, o, w, K)
    BY <1>1 DEF GoodTable
  <2>3. StreamAt(o, i) = o[i - 1] /\ o[i - 1] \in Marker
    BY <2>1, <2>2, StreamBefore
  <2>4. Entry(s, table, <<k, i>>) = [to |-> StreamAt(o, i), what |-> <<o[i]>>]
    BY <1>4 DEF Entry
  <2>5. <<o[i]>> \in Seq(Nat)
    <3>1. o[i] \in Nat
      BY <2>1 DEF IsText
    <3> QED
      BY <3>1
  <2> HIDE DEF o
  <2>6. Entry(s, table, <<k, i>>) \in Printable
    BY <2>3, <2>4, <2>5, PrintableIs
  <2> QED
    BY <1>4, <2>1, <2>3, <2>4, <2>6 DEF o, EntryIs
<1> QED
  BY <1>3, <1>4

----------------------------------------------------------------------------
(* Every text and every indicator has one place in all the tables.         *)

At(table, k, i, x) ==
  k \in 1 .. Len(table) /\ i \in 1 .. Len(table[k].output) /\ table[k].output[i] = x

OnePlace(tables) ==
  \A x, k, i, l, j : \A s, t \in Session :
    /\ IsText(x) \/ x \in Session
    /\ At(tables[s], k, i, x) /\ At(tables[t], l, j, x)
    => s = t /\ k = l /\ i = j

Tables(tables, w, K) ==
  /\ tables \in [Session -> Seq(Row)]
  /\ \A s \in Session : GoodTable(s, tables[s], w, K)
  /\ OnePlace(tables)

\* What comes out of two places is never the same, and never a zero.
LEMMA EntriesDiffer ==
  ASSUME NEW tables, NEW w, NEW K, Tables(tables, w, K), NEW s \in Session, NEW t \in Session,
         NEW k, NEW i, NEW l, NEW j, IsPlace(tables[s], k, i), IsPlace(tables[t], l, j)
  PROVE  /\ Entry(s, tables[s], <<k, i>>).what # <<Nul>>
         /\ Entry(s, tables[s], <<k, i>>).what = Entry(t, tables[t], <<l, j>>).what =>
              s = t /\ k = l /\ i = j
<1>1. tables[s] \in Seq(Row) /\ tables[t] \in Seq(Row)
  BY DEF Tables
<1>2. GoodTable(s, tables[s], w, K) /\ GoodTable(t, tables[t], w, K) /\ OnePlace(tables)
  BY DEF Tables
<1> DEFINE e == Entry(s, tables[s], <<k, i>>).what
           d == Entry(t, tables[t], <<l, j>>).what
<1>3. EntryIs(s, tables[s], k, i) /\ EntryIs(t, tables[t], l, j)
  BY <1>1, <1>2, EntryOf
<1>4. i = 0 => e = <<s, k>>
  BY <1>3 DEF EntryIs
<1>5. i # 0 => IsText(tables[s][k].output[i]) /\ e = <<tables[s][k].output[i]>>
  BY <1>3 DEF EntryIs
<1>6. j = 0 => d = <<t, l>>
  BY <1>3 DEF EntryIs
<1>7. j # 0 => IsText(tables[t][l].output[j]) /\ d = <<tables[t][l].output[j]>>
  BY <1>3 DEF EntryIs
<1> HIDE DEF e, d
<1>8. \A a, b, x : <<a, b>> # <<x>>
  <2>1. \A a, b, x : Len(<<a, b>>) = 2 /\ Len(<<x>>) = 1
    OBVIOUS
  <2> QED
    BY <2>1
<1>9. \A a, b : <<a>> = <<b>> => a = b
  OBVIOUS
<1>10. \A a, b, x, y : <<a, b>> = <<x, y>> => a = x /\ b = y
  OBVIOUS
<1>11. e # <<Nul>>
  BY <1>4, <1>5, <1>8, <1>9, Tokens
<1>12. ASSUME e = d PROVE s = t /\ k = l /\ i = j
  <2>1. CASE i = 0 /\ j = 0
    BY <1>4, <1>6, <1>10, <1>12, <2>1
  <2>2. CASE i # 0 /\ j # 0
    <3>1. tables[s][k].output[i] = tables[t][l].output[j]
      BY <1>5, <1>7, <1>9, <1>12, <2>2
    <3>2. At(tables[s], k, i, tables[s][k].output[i]) /\ At(tables[t], l, j, tables[s][k].output[i])
      BY <2>2, <3>1 DEF IsPlace, At
    <3> QED
      BY <1>2, <1>5, <2>2, <3>2 DEF OnePlace
  <2>3. CASE i = 0 /\ j # 0
    BY <1>4, <1>7, <1>8, <1>12, <2>3
  <2>4. CASE i # 0 /\ j = 0
    BY <1>5, <1>6, <1>8, <1>12, <2>4
  <2> QED
    BY <2>1, <2>2, <2>3, <2>4
<1> QED
  BY <1>11, <1>12 DEF e, d

----------------------------------------------------------------------------
(* What comes out of one step: at most one place of a session, then zeros. *)

Brings(out, s, table, Q) ==
  /\ out \in Seq(Printable)
  /\ \A n \in 1 .. Len(out) :
       \/ out[n].what = <<Nul>>
       \/ n = 1 /\ \E k, i : /\ <<k, i>> \in Q /\ IsPlace(table, k, i)
                             /\ out[1] = Entry(s, table, <<k, i>>)
  /\ \A k, i : IsPlace(table, k, i) /\ <<k, i>> \in Q =>
       Len(out) >= 1 /\ out[1] = Entry(s, table, <<k, i>>)

LEMMA NothingBrings ==
  ASSUME NEW s, NEW table
  PROVE  Brings(<<>>, s, table, {})
<1>1. <<>> \in Seq(Printable) /\ Len(<<>>) = 0
  BY EmptySeq
<1> QED
  BY <1>1 DEF Brings

LEMMA CommandBrings ==
  ASSUME NEW s \in Session, NEW table \in Seq(Row), NEW w, NEW K, GoodTable(s, table, w, K),
         NEW k \in 1 .. Len(table), table[k].command
  PROVE  Brings(<<[to |-> Out, what |-> <<s, k>>]>>, s, table, {<<k, 0>>})
<1>1. IsPlace(table, k, 0)
  BY DEF IsPlace
<1>2. EntryIs(s, table, k, 0)
  BY <1>1, EntryOf
<1> DEFINE e == [to |-> Out, what |-> <<s, k>>]
<1>3. e = Entry(s, table, <<k, 0>>) /\ e \in Printable
  BY <1>2 DEF EntryIs
<1> HIDE DEF e
<1> DEFINE out == <<e>>
<1>4. out \in Seq(Printable) /\ Len(out) = 1 /\ out[1] = e
  BY <1>3
<1> HIDE DEF out
<1>5. \A l, i : <<l, i>> \in {<<k, 0>>} <=> l = k /\ i = 0
  OBVIOUS
<1>6. \A n \in 1 .. Len(out) : n = 1
  BY <1>4
<1>7. <<k, 0>> \in {<<k, 0>>}
  OBVIOUS
<1>8. \A n \in 1 .. Len(out) :
        n = 1 /\ \E l, i : /\ <<l, i>> \in {<<k, 0>>} /\ IsPlace(table, l, i)
                           /\ out[1] = Entry(s, table, <<l, i>>)
  BY <1>1, <1>3, <1>4, <1>6, <1>7
<1>9. \A l, i : IsPlace(table, l, i) /\ <<l, i>> \in {<<k, 0>>} =>
        Len(out) >= 1 /\ out[1] = Entry(s, table, <<l, i>>)
  BY <1>3, <1>4, <1>5
<1>10. Brings(out, s, table, {<<k, 0>>})
  BY <1>4, <1>8, <1>9 DEF Brings
<1> QED
  BY <1>10 DEF out, e

LEMMA EntriesAre ==
  ASSUME NEW to \in {Out, Err}, NEW texts \in Seq(Token)
  PROVE  /\ Entries(to, texts) \in Seq(Printable) /\ Len(Entries(to, texts)) = Len(texts)
         /\ \A n \in 1 .. Len(texts) : Entries(to, texts)[n] = [to |-> to, what |-> <<texts[n]>>]
<1>1. Len(texts) \in Nat /\ \A n \in 1 .. Len(texts) : texts[n] \in Nat
  <2>1. \A x \in Token : x \in Nat
    <3>1. \A x \in Session : x \in Nat
      BY SessionAssumption
    <3>2. \A x \in 1 .. MaxWrites : x \in Nat
      BY BoundAssumption
    <3>3. Out \in Nat /\ Err \in Nat /\ Nested \in Nat /\ Nul \in Nat
      BY DEF Out, Err, Nested, Nul
    <3> QED
      BY <3>1, <3>2, <3>3 DEF Token
  <2> QED
    BY <2>1, ElementOfSeq, LenProperties
<1> DEFINE n == Len(texts)
           e == [k \in 1 .. n |-> [to |-> to, what |-> <<texts[k]>>]]
<1>2. \A k \in 1 .. n : [to |-> to, what |-> <<texts[k]>>] \in Printable
  <2> SUFFICES ASSUME NEW k \in 1 .. n PROVE [to |-> to, what |-> <<texts[k]>>] \in Printable
    OBVIOUS
  <2> DEFINE x == <<texts[k]>>
  <2>1. x \in Seq(Nat)
    <3>1. texts[k] \in Nat
      BY <1>1
    <3> QED
      BY <3>1
  <2> HIDE DEF x
  <2>2. [to |-> to, what |-> x] \in Printable
    BY <2>1, PrintableIs DEF Marker
  <2> QED
    BY <2>2 DEF x
<1> HIDE DEF n
<1>3. n \in Nat
  BY <1>1 DEF n
<1>4. e \in [1 .. n -> Printable]
  BY <1>2
<1>5. e \in Seq(Printable) /\ Len(e) = n
  <2> HIDE DEF e
  <2>1. e \in Seq(Printable)
    BY <1>3, <1>4, SeqDef
  <2>2. DOMAIN e = 1 .. n
    BY <1>4
  <2>3. DOMAIN e = 1 .. Len(e) /\ Len(e) \in Nat
    BY <2>1, LenProperties
  <2> QED
    BY <1>3, <2>1, <2>2, <2>3
<1>6. \A k \in 1 .. n : e[k] = [to |-> to, what |-> <<texts[k]>>]
  OBVIOUS
<1>7. Entries(to, texts) = e
  BY DEF Entries, n
<1> HIDE DEF e
<1> QED
  BY <1>5, <1>6, <1>7 DEF n

PendingPlaces(f, table) == {f.row} \X {i \in Nat : PendingIn(f, table, f.row, i)}

LEMMA ArePending ==
  ASSUME NEW f, NEW table, NEW k, NEW i
  PROVE  <<k, i>> \in PendingPlaces(f, table) <=> i \in Nat /\ PendingIn(f, table, k, i)
BY DEF PendingPlaces, PendingIn

\* Emptying the buffers brings out the text that was pending.
LEMMA FlushBrings ==
  ASSUME NEW s \in Session, NEW table \in Seq(Row), NEW w, NEW K, GoodTable(s, table, w, K),
         NEW f \in GoodFrames(Session), FrameFits(f, table), f.busy
  PROVE  Brings(Flushed(f), s, table, PendingPlaces(f, table))
<1> DEFINE o == table[f.row].output
           p == Pos(f, o)
           buf == Buffer(f)
           to == IF f.writeStdout THEN Out ELSE Err
<1>1. /\ f.row \in 1 .. Len(table) /\ table[f.row].command /\ o \in Outputs /\ RowFits(f, o)
      /\ p \in 0 .. Len(o) /\ Len(o) \in Nat
  BY BusyFrame
<1>2. buf \in Seq(Token) /\ Len(buf) \in Nat
  BY FrameTypes, LenProperties
<1>3. \E d \in {Out, Err} : Flushed(f) = Entries(d, buf) /\ (buf # <<>> => d = to)
  <2>1. CASE f.writeStdout
    BY <2>1, FrameTypes DEF Flushed, Buffer
  <2>2. CASE ~ f.writeStdout
    BY <2>2, FrameTypes DEF Flushed, Buffer
  <2> QED
    BY <2>1, <2>2
<1>4. PICK d \in {Out, Err} : Flushed(f) = Entries(d, buf) /\ (buf # <<>> => d = to)
  BY <1>3
<1> DEFINE out == Entries(d, buf)
<1>5. /\ out \in Seq(Printable) /\ Len(out) = Len(buf)
      /\ \A n \in 1 .. Len(buf) : out[n] = [to |-> d, what |-> <<buf[n]>>]
  BY <1>2, EntriesAre
<1>6. BufferFits(buf, o, p)
  BY <1>1 DEF RowFits
<1>7. GoodOutput(s, o, w, K)
  BY <1>1 DEF GoodTable
<1> HIDE DEF out
<1>8. ASSUME NEW i \in 1 .. p, PendingAt(o, p, i)
      PROVE  /\ Len(out) >= 1 /\ out[1] = Entry(s, table, <<f.row, i>>)
             /\ IsPlace(table, f.row, i)
  <2>1. Len(buf) >= 1 /\ buf[1] = o[i] /\ 1 \in 1 .. Len(buf)
    BY <1>2, <1>6, <1>8 DEF BufferFits
  <2>2. i \in 1 .. Len(o) /\ IsText(o[i])
    BY <1>1, <1>8 DEF PendingAt
  <2>3. IsPlace(table, f.row, i) /\ i # 0
    BY <1>1, <2>2 DEF IsPlace
  <2>4. o[i - 1] \in Marker /\ Entry(s, table, <<f.row, i>>) = [to |-> o[i - 1], what |-> <<o[i]>>]
    <3>1. EntryIs(s, table, f.row, i)
      BY <2>3, EntryOf
    <3> QED
      BY <2>3, <3>1 DEF EntryIs
  <2>5. LastMarker(o, p, i - 1) /\ i - 1 \in 1 .. p
    <3>1. i > 1
      BY <1>7, <2>2 DEF GoodOutput
    <3>2. \A l \in (i - 1) + 1 .. p : l = i \/ l \in i + 1 .. p
      OBVIOUS
    <3>3. \A l \in (i - 1) + 1 .. p : o[l] \notin Marker
      BY <1>8, <2>2, <3>2, Tokens DEF PendingAt
    <3> QED
      BY <1>1, <2>4, <3>1, <3>3 DEF LastMarker
  <2>6. f.writeStdout <=> o[i - 1] = Out
    BY <1>1, <2>5 DEF RowFits
  <2>7. o[i - 1] = to
    BY <2>4, <2>6 DEF Marker
  <2>8. buf # <<>>
    BY <2>1, EmptySeq
  <2>9. out[1] = [to |-> o[i - 1], what |-> <<o[i]>>]
    BY <1>4, <1>5, <2>1, <2>7, <2>8
  <2> QED
    BY <1>5, <2>1, <2>3, <2>4, <2>9
<1>9. ASSUME NEW n \in 1 .. Len(out)
      PROVE  \/ out[n].what = <<Nul>>
             \/ n = 1 /\ \E k, i : /\ <<k, i>> \in PendingPlaces(f, table) /\ IsPlace(table, k, i)
                                   /\ out[1] = Entry(s, table, <<k, i>>)
  <2>1. n \in 1 .. Len(buf)
    BY <1>5
  <2>2. out[n].what = <<buf[n]>>
    <3> HIDE DEF buf
    <3>1. out[n] = [to |-> d, what |-> <<buf[n]>>]
      BY <1>5, <2>1
    <3> DEFINE x == <<buf[n]>>
    <3> HIDE DEF x
    <3>2. out[n] = [to |-> d, what |-> x]
      BY <3>1 DEF x
    <3>3. out[n].what = x
      BY <3>2
    <3> QED
      BY <3>3 DEF x
  <2>3. buf[n] = Nul \/ (n = 1 /\ \E i \in 1 .. p : PendingAt(o, p, i) /\ o[i] = buf[n])
    BY <1>6, <2>1 DEF BufferFits
  <2>4. ASSUME n = 1, NEW i \in 1 .. p, PendingAt(o, p, i)
        PROVE  \E k, j : /\ <<k, j>> \in PendingPlaces(f, table) /\ IsPlace(table, k, j)
                         /\ out[1] = Entry(s, table, <<k, j>>)
    <3>1. <<f.row, i>> \in PendingPlaces(f, table)
      BY <2>4, ArePending DEF PendingIn
    <3> QED
      BY <1>8, <2>4, <3>1
  <2> QED
    BY <2>2, <2>3, <2>4
<1>10. ASSUME NEW k, NEW i, <<k, i>> \in PendingPlaces(f, table)
       PROVE  Len(out) >= 1 /\ out[1] = Entry(s, table, <<k, i>>)
  <2>1. i \in Nat /\ k = f.row /\ PendingAt(o, p, i)
    BY <1>10, ArePending DEF PendingIn
  <2>2. i \in 1 .. p
    BY <2>1 DEF PendingAt
  <2> QED
    BY <1>8, <2>1, <2>2
<1>11. Brings(out, s, table, PendingPlaces(f, table))
  BY <1>5, <1>9, <1>10 DEF Brings
<1> QED
  BY <1>4, <1>11 DEF out

----------------------------------------------------------------------------
(* The frames, the innermost first.                                        *)

\* The outer session waits behind the marker of the inner one.
StandsAt(f, table, u) ==
  /\ f.busy /\ f.row \in 1 .. Len(table)
  /\ Pos(f, table[f.row].output) \in 1 .. Len(table[f.row].output)
  /\ table[f.row].output[Pos(f, table[f.row].output)] = Nested
  /\ At(table, f.row, Pos(f, table[f.row].output) + 1, u)

Stack(frs, tables) ==
  /\ frs \in Seq(GoodFrames(Session))
  /\ \A a \in 1 .. Len(frs) : FrameFits(frs[a], tables[frs[a].session])
  /\ \A a, b \in 1 .. Len(frs) : a < b => frs[b].session < frs[a].session
  /\ \A a \in 1 .. Len(frs) :
       a > 1 => StandsAt(frs[a], tables[frs[a].session], frs[a - 1].session)

IsRead(frs, tables, s, k, i) ==
  \A a \in 1 .. Len(frs) : frs[a].session = s => ReadIn(frs[a], tables[s], k, i)
IsOut(frs, tables, s, k, i) ==
  \A a \in 1 .. Len(frs) : frs[a].session = s => CameOutOf(frs[a], tables[s], k, i)

LEMMA HeadReplaced ==
  ASSUME NEW S, NEW frs \in Seq(S), frs # <<>>, NEW g \in S
  PROVE  LET new == <<g>> \o Tail(frs)
         IN  /\ new \in Seq(S) /\ Len(new) = Len(frs) /\ new # <<>> /\ new[1] = g
             /\ \A a \in 2 .. Len(frs) : new[a] = frs[a]
<1> DEFINE n == Len(frs)
           t == Tail(frs)
           z == <<g>>
<1>1. n \in Nat /\ n # 0
  BY EmptySeq
<1>2. t \in Seq(S) /\ Len(t) = n - 1 /\ \A a \in 1 .. n - 1 : t[a] = frs[a + 1]
  BY HeadTailProperties
<1>3. z \in Seq(S) /\ Len(z) = 1 /\ z[1] = g
  OBVIOUS
<1> HIDE DEF z, t, n
<1>4. /\ z \o t \in Seq(S) /\ Len(z \o t) = 1 + (n - 1)
      /\ \A a \in 1 .. 1 + (n - 1) : (z \o t)[a] = IF a <= 1 THEN z[a] ELSE t[a - 1]
  <2>1. /\ z \o t \in Seq(S) /\ Len(z \o t) = Len(z) + Len(t)
        /\ \A a \in 1 .. Len(z) + Len(t) :
             (z \o t)[a] = IF a <= Len(z) THEN z[a] ELSE t[a - Len(z)]
    BY <1>2, <1>3, ConcatProperties
  <2> QED
    BY <1>2, <1>3, <2>1
<1>5. Len(z \o t) = n /\ (z \o t)[1] = g
  BY <1>1, <1>3, <1>4
<1>6. ASSUME NEW a \in 2 .. n PROVE (z \o t)[a] = frs[a]
  <2>1. a \in 1 .. 1 + (n - 1) /\ ~ (a <= 1) /\ a - 1 \in 1 .. n - 1 /\ (a - 1) + 1 = a
    BY <1>1
  <2> QED
    BY <1>2, <1>4, <2>1
<1>7. z \o t # <<>>
  BY <1>1, <1>5, EmptySeq
<1> QED
  BY <1>4, <1>5, <1>6, <1>7 DEF z, t, n

LEMMA Pushed ==
  ASSUME NEW S, NEW frs \in Seq(S), NEW h \in S
  PROVE  LET new == <<h>> \o frs
         IN  /\ new \in Seq(S) /\ Len(new) = Len(frs) + 1 /\ new # <<>> /\ new[1] = h
             /\ \A a \in 1 .. Len(frs) : new[a + 1] = frs[a]
<1> DEFINE n == Len(frs)
           z == <<h>>
<1>1. n \in Nat
  BY LenProperties
<1>2. z \in Seq(S) /\ Len(z) = 1 /\ z[1] = h
  OBVIOUS
<1> HIDE DEF z, n
<1>3. /\ z \o frs \in Seq(S) /\ Len(z \o frs) = 1 + n
      /\ \A a \in 1 .. 1 + n : (z \o frs)[a] = IF a <= 1 THEN z[a] ELSE frs[a - 1]
  <2>1. /\ z \o frs \in Seq(S) /\ Len(z \o frs) = Len(z) + Len(frs)
        /\ \A a \in 1 .. Len(z) + Len(frs) :
             (z \o frs)[a] = IF a <= Len(z) THEN z[a] ELSE frs[a - Len(z)]
    BY <1>2, ConcatProperties
  <2> QED
    BY <1>2, <2>1 DEF n
<1>4. Len(z \o frs) = n + 1 /\ (z \o frs)[1] = h
  BY <1>1, <1>2, <1>3
<1>5. ASSUME NEW a \in 1 .. n PROVE (z \o frs)[a + 1] = frs[a]
  <2>1. a + 1 \in 1 .. 1 + n /\ ~ (a + 1 <= 1) /\ (a + 1) - 1 = a
    BY <1>1
  <2> QED
    BY <1>3, <2>1
<1>6. z \o frs # <<>>
  BY <1>1, <1>4, EmptySeq
<1> QED
  BY <1>3, <1>4, <1>5, <1>6 DEF z, n

LEMMA StackIs ==
  ASSUME NEW frs, NEW tables, Stack(frs, tables), frs # <<>>
  PROVE  /\ Len(frs) \in Nat /\ Len(frs) >= 1 /\ 1 \in 1 .. Len(frs) /\ Len(frs) \in 1 .. Len(frs)
         /\ Head(frs) = frs[1] /\ frs[1] \in GoodFrames(Session) /\ frs[1].session \in Session
         /\ \A a \in 1 .. Len(frs) : frs[a] \in GoodFrames(Session) /\ frs[a].session \in Session
                                     /\ frs[a].session \in Nat
         /\ \A a \in 1 .. Len(frs) : a # 1 => frs[a].session # frs[1].session
         /\ frs[Len(frs)].session <= frs[1].session
<1>1. frs \in Seq(GoodFrames(Session))
  BY DEF Stack
<1>2. Len(frs) \in Nat /\ Len(frs) # 0
  BY <1>1, EmptySeq
<1>3. 1 \in 1 .. Len(frs) /\ Len(frs) \in 1 .. Len(frs) /\ Len(frs) >= 1
  BY <1>2
<1>4. \A a \in 1 .. Len(frs) : frs[a] \in GoodFrames(Session) /\ frs[a].session \in Session
                               /\ frs[a].session \in Nat
  <2> SUFFICES ASSUME NEW a \in 1 .. Len(frs)
               PROVE  frs[a] \in GoodFrames(Session) /\ frs[a].session \in Session
                      /\ frs[a].session \in Nat
    OBVIOUS
  <2>1. frs[a] \in GoodFrames(Session)
    BY <1>1, ElementOfSeq
  <2>2. frs[a].session \in Session
    BY <2>1, FrameTypes
  <2> QED
    BY <2>1, <2>2, SessionAssumption
<1>5. \A a \in 1 .. Len(frs) : a # 1 => frs[a].session < frs[1].session
  <2> SUFFICES ASSUME NEW a \in 1 .. Len(frs), a # 1 PROVE frs[a].session < frs[1].session
    OBVIOUS
  <2>1. 1 < a
    OBVIOUS
  <2> QED
    BY <1>3, <2>1 DEF Stack
<1>6. \A a \in 1 .. Len(frs) : a # 1 => frs[a].session # frs[1].session
  BY <1>3, <1>4, <1>5
<1>7. frs[Len(frs)].session <= frs[1].session
  BY <1>3, <1>4, <1>5
<1>8. Head(frs) = frs[1]
  BY <1>1
<1> QED
  BY <1>2, <1>3, <1>4, <1>6, <1>7, <1>8

LEMMA TopOnly ==
  ASSUME NEW frs, NEW tables, Stack(frs, tables), frs # <<>>, NEW k, NEW i
  PROVE  /\ IsRead(frs, tables, frs[1].session, k, i) <=>
              ReadIn(frs[1], tables[frs[1].session], k, i)
         /\ IsOut(frs, tables, frs[1].session, k, i) <=>
              CameOutOf(frs[1], tables[frs[1].session], k, i)
<1>1. 1 \in 1 .. Len(frs) /\ \A a \in 1 .. Len(frs) : a # 1 => frs[a].session # frs[1].session
  BY StackIs
<1> QED
  BY <1>1 DEF IsRead, IsOut

\* Which places of which sessions have been read, or have come out.
SameElsewhere(old, new, tables, s) ==
  \A t \in Session : t # s => \A k, i :
    /\ IsRead(new, tables, t, k, i) <=> IsRead(old, tables, t, k, i)
    /\ IsOut(new, tables, t, k, i) <=> IsOut(old, tables, t, k, i)

Replaced(frs, new, tables, g) ==
  /\ Stack(new, tables) /\ new # <<>> /\ new[1] = g /\ Len(new) = Len(frs)
  /\ new[Len(new)].session = frs[Len(frs)].session
  /\ \A a \in 1 .. Len(frs) : a # 1 => new[a] = frs[a]
  /\ SameElsewhere(frs, new, tables, g.session)

LEMMA StackTop ==
  ASSUME NEW frs, NEW tables, Stack(frs, tables), frs # <<>>,
         NEW g \in GoodFrames(Session), g.session = frs[1].session,
         FrameFits(g, tables[g.session]), NEW new, new = <<g>> \o Tail(frs)
  PROVE  Replaced(frs, new, tables, g)
<1>1. /\ new \in Seq(GoodFrames(Session)) /\ Len(new) = Len(frs) /\ new # <<>> /\ new[1] = g
      /\ \A a \in 2 .. Len(frs) : new[a] = frs[a]
  BY HeadReplaced DEF Stack
<1>2. Len(frs) \in Nat /\ 1 \in 1 .. Len(frs) /\ Len(frs) \in 1 .. Len(frs)
  BY StackIs
<1>3. \A a \in 1 .. Len(frs) : a # 1 => new[a] = frs[a]
  BY <1>1
<1>4. \A a \in 1 .. Len(frs) : new[a].session = frs[a].session
  BY <1>1, <1>3
<1>5. \A a \in 1 .. Len(new) : FrameFits(new[a], tables[new[a].session])
  BY <1>1, <1>3 DEF Stack
<1>6. \A a, b \in 1 .. Len(new) : a < b => new[b].session < new[a].session
  BY <1>1, <1>4 DEF Stack
<1>7. ASSUME NEW a \in 1 .. Len(new), a > 1
      PROVE  StandsAt(new[a], tables[new[a].session], new[a - 1].session)
  <2>1. a - 1 \in 1 .. Len(frs) /\ a \in 1 .. Len(frs) /\ a # 1
    BY <1>1, <1>2, <1>7
  <2>2. new[a] = frs[a] /\ new[a - 1].session = frs[a - 1].session
    BY <1>3, <1>4, <2>1
  <2> QED
    BY <1>7, <2>1, <2>2 DEF Stack
<1>8. Stack(new, tables)
  BY <1>1, <1>5, <1>6, <1>7 DEF Stack
<1>9. SameElsewhere(frs, new, tables, g.session)
  <2> SUFFICES ASSUME NEW t \in Session, t # g.session, NEW k, NEW i
               PROVE  /\ IsRead(new, tables, t, k, i) <=> IsRead(frs, tables, t, k, i)
                      /\ IsOut(new, tables, t, k, i) <=> IsOut(frs, tables, t, k, i)
    BY DEF SameElsewhere
  <2>1. \A a \in 1 .. Len(frs) : new[a].session = t => new[a] = frs[a]
    BY <1>1, <1>3
  <2>2. \A a \in 1 .. Len(frs) : frs[a].session = t => new[a] = frs[a]
    BY <1>1, <1>3, <1>4
  <2> QED
    BY <1>1, <2>1, <2>2 DEF IsRead, IsOut
<1>10. new[Len(new)].session = frs[Len(frs)].session
  BY <1>1, <1>2, <1>4
<1> QED
  BY <1>1, <1>3, <1>8, <1>9, <1>10 DEF Replaced

OnFrames(frs, new, tables, more, h) ==
  /\ Stack(new, more) /\ new # <<>> /\ new[1] = h
  /\ frs # <<>> => new[Len(new)].session = frs[Len(frs)].session
  /\ frs = <<>> => new[Len(new)].session = h.session
  /\ \A t \in Session : t # h.session => \A k, i :
       /\ IsRead(new, more, t, k, i) <=> IsRead(frs, tables, t, k, i)
       /\ IsOut(new, more, t, k, i) <=> IsOut(frs, tables, t, k, i)

LEMMA StackPush ==
  ASSUME NEW frs, NEW tables, Stack(frs, tables),
         NEW h \in GoodFrames(Session), NEW more, \A s \in Session : s # h.session => more[s] = tables[s],
         FrameFits(h, more[h.session]),
         frs # <<>> => /\ StandsAt(frs[1], tables[frs[1].session], h.session)
                       /\ frs[1].session < h.session,
         NEW new, new = <<h>> \o frs
  PROVE  OnFrames(frs, new, tables, more, h)
<1>1. /\ new \in Seq(GoodFrames(Session)) /\ Len(new) = Len(frs) + 1 /\ new # <<>> /\ new[1] = h
      /\ \A a \in 1 .. Len(frs) : new[a + 1] = frs[a]
  BY Pushed DEF Stack
<1>2. Len(frs) \in Nat /\ (frs = <<>> <=> Len(frs) = 0)
  BY EmptySeq, LenProperties DEF Stack
<1>3. ASSUME NEW a \in 1 .. Len(frs)
      PROVE  frs[a].session < h.session /\ frs[a].session \in Nat /\ h.session \in Nat
             /\ frs[a] \in GoodFrames(Session) /\ frs[a].session \in Session
  <2>1. frs # <<>>
    BY <1>2
  <2>2. frs[1].session < h.session
    BY <2>1
  <2>3. 1 \in 1 .. Len(frs) /\ frs[a] \in GoodFrames(Session) /\ frs[a].session \in Nat
        /\ frs[1].session \in Nat /\ frs[a].session \in Session
    BY <2>1, StackIs
  <2>4. a = 1 \/ 1 < a
    OBVIOUS
  <2>5. a = 1 \/ frs[a].session < frs[1].session
    BY <2>3, <2>4 DEF Stack
  <2>6. h.session \in Nat
    BY FrameTypes, SessionAssumption
  <2> QED
    BY <2>2, <2>3, <2>5, <2>6
<1>4. \A a \in 1 .. Len(new) : a = 1 \/ (a - 1 \in 1 .. Len(frs) /\ new[a] = frs[a - 1])
  <2> SUFFICES ASSUME NEW a \in 1 .. Len(new), a # 1
               PROVE  a - 1 \in 1 .. Len(frs) /\ new[a] = frs[a - 1]
    OBVIOUS
  <2>1. a - 1 \in 1 .. Len(frs) /\ (a - 1) + 1 = a
    BY <1>1, <1>2
  <2> QED
    BY <1>1, <2>1
<1>5. ASSUME NEW a \in 1 .. Len(new) PROVE FrameFits(new[a], more[new[a].session])
  <2>1. CASE a = 1
    BY <1>1, <2>1
  <2>2. CASE a # 1
    <3>1. a - 1 \in 1 .. Len(frs) /\ new[a] = frs[a - 1]
      BY <1>4, <2>2
    <3>2. frs[a - 1].session # h.session
      <4>1. frs[a - 1].session < h.session /\ frs[a - 1].session \in Nat /\ h.session \in Nat
        BY <1>3, <3>1
      <4> QED
        BY <4>1
    <3>3. more[frs[a - 1].session] = tables[frs[a - 1].session]
      BY <1>3, <3>1, <3>2
    <3> QED
      BY <3>1, <3>3 DEF Stack
  <2> QED
    BY <2>1, <2>2
<1>6. ASSUME NEW a \in 1 .. Len(new), NEW b \in 1 .. Len(new), a < b
      PROVE  new[b].session < new[a].session
  <2>1. b # 1
    BY <1>6
  <2>2. b - 1 \in 1 .. Len(frs) /\ new[b] = frs[b - 1]
    BY <1>4, <2>1
  <2>3. CASE a = 1
    <3>1. frs[b - 1].session < h.session
      BY <1>3, <2>2
    <3> QED
      BY <1>1, <2>2, <2>3, <3>1
  <2>4. CASE a # 1
    <3>1. a - 1 \in 1 .. Len(frs) /\ new[a] = frs[a - 1] /\ a - 1 < b - 1
      BY <1>4, <1>6, <2>4
    <3> QED
      BY <2>2, <3>1 DEF Stack
  <2> QED
    BY <2>3, <2>4
<1>7. ASSUME NEW a \in 1 .. Len(new), a > 1
      PROVE  StandsAt(new[a], more[new[a].session], new[a - 1].session)
  <2>1. a - 1 \in 1 .. Len(frs) /\ new[a] = frs[a - 1]
    BY <1>4, <1>7
  <2>2. more[frs[a - 1].session] = tables[frs[a - 1].session]
    <3>1. frs[a - 1].session < h.session /\ frs[a - 1].session \in Nat /\ h.session \in Nat
      BY <1>3, <2>1
    <3>2. frs[a - 1].session # h.session /\ frs[a - 1].session \in Session
      BY <1>3, <2>1, <3>1
    <3> QED
      BY <3>2
  <2>3. CASE a = 2
    <3>1. a - 1 = 1 /\ frs # <<>>
      BY <1>2, <2>1, <2>3
    <3>2. StandsAt(frs[1], tables[frs[1].session], h.session)
      BY <3>1
    <3> QED
      BY <1>1, <2>1, <2>2, <3>1, <3>2
  <2>4. CASE a # 2
    <3>1. a - 1 \in 1 .. Len(new) /\ a - 1 # 1 /\ a - 1 > 1
      BY <1>7, <2>4
    <3>2. (a - 1) - 1 \in 1 .. Len(frs) /\ new[a - 1] = frs[(a - 1) - 1]
      BY <1>4, <3>1
    <3>3. StandsAt(frs[a - 1], tables[frs[a - 1].session], frs[(a - 1) - 1].session)
      BY <2>1, <3>1 DEF Stack
    <3> QED
      BY <2>1, <2>2, <3>2, <3>3
  <2> QED
    BY <2>3, <2>4
<1>8. Stack(new, more)
  BY <1>1, <1>5, <1>6, <1>7 DEF Stack
<1>9. ASSUME NEW t \in Session, t # h.session, NEW k, NEW i
      PROVE  /\ IsRead(new, more, t, k, i) <=> IsRead(frs, tables, t, k, i)
             /\ IsOut(new, more, t, k, i) <=> IsOut(frs, tables, t, k, i)
  <2>1. more[t] = tables[t]
    BY <1>9
  <2>2. ASSUME NEW a \in 1 .. Len(new), new[a].session = t
        PROVE  a - 1 \in 1 .. Len(frs) /\ new[a] = frs[a - 1]
    <3>1. a # 1
      BY <1>1, <1>9, <2>2
    <3> QED
      BY <1>4, <3>1
  <2>3. \A a \in 1 .. Len(frs) : a + 1 \in 1 .. Len(new) /\ new[a + 1] = frs[a]
    BY <1>1, <1>2
  <2>4. ASSUME IsRead(new, more, t, k, i) PROVE IsRead(frs, tables, t, k, i)
    BY <2>1, <2>3, <2>4 DEF IsRead
  <2>5. ASSUME IsRead(frs, tables, t, k, i) PROVE IsRead(new, more, t, k, i)
    BY <2>1, <2>2, <2>5 DEF IsRead
  <2>6. ASSUME IsOut(new, more, t, k, i) PROVE IsOut(frs, tables, t, k, i)
    BY <2>1, <2>3, <2>6 DEF IsOut
  <2>7. ASSUME IsOut(frs, tables, t, k, i) PROVE IsOut(new, more, t, k, i)
    BY <2>1, <2>2, <2>7 DEF IsOut
  <2> QED
    BY <2>4, <2>5, <2>6, <2>7
<1>10. frs # <<>> => new[Len(new)].session = frs[Len(frs)].session
  <2>1. frs # <<>> => Len(frs) \in 1 .. Len(frs)
    BY <1>2
  <2> QED
    BY <1>1, <2>1
<1>11. frs = <<>> => new[Len(new)].session = h.session
  BY <1>1, <1>2
<1> QED
  BY <1>1, <1>8, <1>9, <1>10, <1>11 DEF OnFrames

LEMMA StackPop ==
  ASSUME NEW frs, NEW tables, Stack(frs, tables), frs # <<>>, NEW new, new = Tail(frs)
  PROVE  /\ Stack(new, tables)
         /\ SameElsewhere(frs, new, tables, frs[1].session)
         /\ \A k, i : /\ IsRead(new, tables, frs[1].session, k, i)
                      /\ IsOut(new, tables, frs[1].session, k, i)
         /\ new # <<>> => new[Len(new)].session = frs[Len(frs)].session
<1>1. /\ new \in Seq(GoodFrames(Session)) /\ Len(new) = Len(frs) - 1
      /\ \A a \in 1 .. Len(new) : new[a] = frs[a + 1]
  BY HeadTailProperties DEF Stack
<1>2. Len(frs) \in Nat /\ Len(frs) >= 1 /\ (new # <<>> => Len(new) # 0)
      /\ \A a \in 1 .. Len(frs) : a # 1 => frs[a].session # frs[1].session
  BY <1>1, StackIs, EmptySeq
<1>3. \A a \in 1 .. Len(new) : a + 1 \in 1 .. Len(frs) /\ a + 1 # 1 /\ new[a] = frs[a + 1]
  BY <1>1, <1>2
<1>4. \A a \in 1 .. Len(frs) : a # 1 => a - 1 \in 1 .. Len(new) /\ new[a - 1] = frs[a]
  <2> SUFFICES ASSUME NEW a \in 1 .. Len(frs), a # 1
               PROVE  a - 1 \in 1 .. Len(new) /\ new[a - 1] = frs[a]
    OBVIOUS
  <2>1. a - 1 \in 1 .. Len(new) /\ (a - 1) + 1 = a
    BY <1>1, <1>2
  <2> QED
    BY <1>1, <2>1
<1>5. \A a \in 1 .. Len(new) : FrameFits(new[a], tables[new[a].session])
  BY <1>3 DEF Stack
<1>6. ASSUME NEW a \in 1 .. Len(new), NEW b \in 1 .. Len(new), a < b
      PROVE  new[b].session < new[a].session
  <2>1. a + 1 < b + 1
    BY <1>6
  <2> QED
    BY <1>3, <2>1 DEF Stack
<1>7. ASSUME NEW a \in 1 .. Len(new), a > 1
      PROVE  StandsAt(new[a], tables[new[a].session], new[a - 1].session)
  <2>1. a + 1 \in 1 .. Len(frs) /\ a + 1 > 1 /\ (a + 1) - 1 = a /\ new[a] = frs[a + 1]
    BY <1>3
  <2>2. a - 1 \in 1 .. Len(new) /\ (a - 1) + 1 = a
    BY <1>7
  <2>3. new[a - 1] = frs[a]
    BY <1>3, <2>2
  <2>4. StandsAt(frs[a + 1], tables[frs[a + 1].session], frs[(a + 1) - 1].session)
    BY <2>1 DEF Stack
  <2> QED
    BY <2>1, <2>3, <2>4
<1>8. Stack(new, tables)
  BY <1>1, <1>5, <1>6, <1>7 DEF Stack
<1>9. SameElsewhere(frs, new, tables, frs[1].session)
  <2> SUFFICES ASSUME NEW t \in Session, t # frs[1].session, NEW k, NEW i
               PROVE  /\ IsRead(new, tables, t, k, i) <=> IsRead(frs, tables, t, k, i)
                      /\ IsOut(new, tables, t, k, i) <=> IsOut(frs, tables, t, k, i)
    BY DEF SameElsewhere
  <2>1. \A a \in 1 .. Len(frs) : frs[a].session = t => a - 1 \in 1 .. Len(new) /\ new[a - 1] = frs[a]
    BY <1>4
  <2>2. \A a \in 1 .. Len(new) : a + 1 \in 1 .. Len(frs) /\ new[a] = frs[a + 1]
    BY <1>3
  <2>3. ASSUME IsRead(new, tables, t, k, i) PROVE IsRead(frs, tables, t, k, i)
    BY <2>1, <2>3 DEF IsRead
  <2>4. ASSUME IsRead(frs, tables, t, k, i) PROVE IsRead(new, tables, t, k, i)
    BY <2>2, <2>4 DEF IsRead
  <2>5. ASSUME IsOut(new, tables, t, k, i) PROVE IsOut(frs, tables, t, k, i)
    BY <2>1, <2>5 DEF IsOut
  <2>6. ASSUME IsOut(frs, tables, t, k, i) PROVE IsOut(new, tables, t, k, i)
    BY <2>2, <2>6 DEF IsOut
  <2> QED
    BY <2>3, <2>4, <2>5, <2>6
<1>10. \A k, i : IsRead(new, tables, frs[1].session, k, i) /\ IsOut(new, tables, frs[1].session, k, i)
  <2>1. \A a \in 1 .. Len(new) : new[a].session # frs[1].session
    BY <1>2, <1>3
  <2> QED
    BY <2>1 DEF IsRead, IsOut
<1>11. new # <<>> => new[Len(new)].session = frs[Len(frs)].session
  <2>1. new # <<>> => Len(new) \in 1 .. Len(new) /\ Len(new) + 1 = Len(frs)
    BY <1>1, <1>2
  <2> QED
    BY <1>1, <2>1
<1> QED
  BY <1>8, <1>9, <1>10, <1>11

----------------------------------------------------------------------------
(* What the output prn of the fetch of the tables promises.                *)

Came(tables, prn, s, p, n) == \E m \in 1 .. n : prn[m] = Entry(s, tables[s], p)

Valid(tables, prn) ==
  \A n \in 1 .. Len(prn) :
    \/ prn[n].what = <<Nul>>
    \/ /\ \E s \in Session : \E k, i : /\ IsPlace(tables[s], k, i)
                                       /\ prn[n] = Entry(s, tables[s], <<k, i>>)
       /\ \A m \in 1 .. n - 1 : prn[m] # prn[n]

InOrder(tables, prn) ==
  \A s \in Session : \A k, i, l, j : \A n \in 1 .. Len(prn) :
    /\ IsPlace(tables[s], k, i) /\ IsPlace(tables[s], l, j)
    /\ Earlier(<<k, i>>, <<l, j>>) /\ prn[n] = Entry(s, tables[s], <<l, j>>)
    => Came(tables, prn, s, <<k, i>>, n)

Before(prn, n, text) == \E m \in 1 .. n : prn[m].what = <<text>>

\* Where entry n starts the session at place j, the texts of the row are in place.
Placed(prn, o, n, j) ==
  o[j] \in Session /\ prn[n].what = <<o[j], 1>> =>
    \A i \in 1 .. Len(o) : IsText(o[i]) =>
      /\ Before(prn, n, o[i]) => i < j
      /\ (\E m \in i .. j : o[m] \in Marker) => Before(prn, n, o[i])

InPlace(tables, prn) ==
  \A s \in Session : \A k \in 1 .. Len(tables[s]) : \A n \in 1 .. Len(prn) :
    \A j \in 1 .. Len(tables[s][k].output) : Placed(prn, tables[s][k].output, n, j)

Promises(tables, prn) ==
  prn \in Seq(Printable) /\ Valid(tables, prn) /\ InOrder(tables, prn) /\ InPlace(tables, prn)

\* What has come out is what the frames have behind them.
OutIff(frs, tables, prn) ==
  \A s \in Session : \A k, i : IsPlace(tables[s], k, i) =>
    (Came(tables, prn, s, <<k, i>>, Len(prn)) <=> IsOut(frs, tables, s, k, i))

\* Sessions are fetched for an indicator that has been read, but for the first.
AskedFor(frs, tables) ==
  frs # <<>> => \A v \in Session : tables[v] # <<>> =>
    \/ v = frs[Len(frs)].session
    \/ /\ v > frs[Len(frs)].session
       /\ \E s \in Session : \E k, i \in Nat : At(tables[s], k, i, v) /\ IsRead(frs, tables, s, k, i - 1)

\* The step of a frame lets the places Q out.
LetsOut(f, g, table, Q) ==
  /\ \A k, i : IsPlace(table, k, i) =>
       (CameOutOf(g, table, k, i) <=> CameOutOf(f, table, k, i) \/ <<k, i>> \in Q)
  /\ \A k, i, l, j :
       IsPlace(table, k, i) /\ <<l, j>> \in Q /\ Earlier(<<k, i>>, <<l, j>>) =>
         CameOutOf(f, table, k, i)
  /\ \A k, i : <<k, i>> \in Q => ~ CameOutOf(f, table, k, i)

LEMMA Lengthened ==
  ASSUME NEW S, NEW prn \in Seq(S), NEW out \in Seq(S)
  PROVE  /\ prn \o out \in Seq(S) /\ Len(prn \o out) = Len(prn) + Len(out)
         /\ Len(prn) \in Nat /\ Len(out) \in Nat
         /\ \A n \in 1 .. Len(prn) : (prn \o out)[n] = prn[n]
         /\ \A n \in 1 .. Len(out) : (prn \o out)[Len(prn) + n] = out[n]
         /\ \A n \in 1 .. Len(prn \o out) :
              n \in 1 .. Len(prn) \/ \E m \in 1 .. Len(out) : n = Len(prn) + m
<1>1. /\ prn \o out \in Seq(S) /\ Len(prn \o out) = Len(prn) + Len(out)
      /\ \A n \in 1 .. Len(prn) + Len(out) :
           (prn \o out)[n] = IF n <= Len(prn) THEN prn[n] ELSE out[n - Len(prn)]
  BY ConcatProperties
<1>2. Len(prn) \in Nat /\ Len(out) \in Nat
  BY LenProperties
<1> DEFINE a == Len(prn)
           b == Len(out)
           c == prn \o out
<1>3. a \in Nat /\ b \in Nat /\ Len(c) = a + b
      /\ \A n \in 1 .. a + b : c[n] = IF n <= a THEN prn[n] ELSE out[n - a]
  BY <1>1, <1>2
<1>4. c \in Seq(S)
  BY <1>1
<1> HIDE DEF a, b, c
<1>5. \A n \in 1 .. a : c[n] = prn[n]
  BY <1>3
<1>6. \A n \in 1 .. b : c[a + n] = out[n]
  <2> SUFFICES ASSUME NEW n \in 1 .. b PROVE c[a + n] = out[n]
    OBVIOUS
  <2>1. a + n \in 1 .. a + b /\ ~ (a + n <= a) /\ (a + n) - a = n
    BY <1>3
  <2> QED
    BY <1>3, <2>1
<1>7. \A n \in 1 .. a + b : n \in 1 .. a \/ \E m \in 1 .. b : n = a + m
  <2> SUFFICES ASSUME NEW n \in 1 .. a + b, n \notin 1 .. a PROVE \E m \in 1 .. b : n = a + m
    OBVIOUS
  <2>1. n - a \in 1 .. b /\ n = a + (n - a)
    BY <1>3
  <2> QED
    BY <2>1
<1> QED
  BY <1>4, <1>3, <1>5, <1>6, <1>7 DEF a, b, c

\* A text has been printed when its place has come out.
LEMMA TextBefore ==
  ASSUME NEW tables, NEW w, NEW K, Tables(tables, w, K), NEW prn, Valid(tables, prn),
         NEW n \in Nat, n <= Len(prn), Len(prn) \in Nat, NEW s \in Session, NEW k, NEW i,
         IsPlace(tables[s], k, i), i # 0
  PROVE  Before(prn, n, tables[s][k].output[i]) <=> Came(tables, prn, s, <<k, i>>, n)
<1> DEFINE x == tables[s][k].output[i]
           e == Entry(s, tables[s], <<k, i>>)
<1>1. e.what = <<x>> /\ e.what # <<Nul>>
  <2>1. EntryIs(s, tables[s], k, i)
    BY EntryOf DEF Tables
  <2>2. e.what # <<Nul>>
    BY EntriesDiffer
  <2>3. e = [to |-> tables[s][k].output[i - 1], what |-> <<x>>]
    BY <2>1 DEF EntryIs
  <2>4. \A d, y : [to |-> d, what |-> y].what = y
    OBVIOUS
  <2>5. e.what = <<x>>
    BY <2>3, <2>4, Zenon
  <2> QED
    BY <2>2, <2>5
<1> HIDE DEF x, e
<1>2. ASSUME NEW m \in 1 .. n, prn[m].what = <<x>> PROVE prn[m] = e
  <2>1. m \in 1 .. Len(prn)
    OBVIOUS
  <2>2. prn[m].what # <<Nul>>
    BY <1>1, <1>2
  <2>3. PICK t \in Session : \E l, j : IsPlace(tables[t], l, j) /\ prn[m] = Entry(t, tables[t], <<l, j>>)
    BY <2>1, <2>2 DEF Valid
  <2>4. PICK l, j : IsPlace(tables[t], l, j) /\ prn[m] = Entry(t, tables[t], <<l, j>>)
    BY <2>3
  <2>5. Entry(s, tables[s], <<k, i>>).what = Entry(t, tables[t], <<l, j>>).what
    BY <1>1, <1>2, <2>4 DEF e
  <2>6. s = t /\ k = l /\ i = j
    BY <2>4, <2>5, EntriesDiffer
  <2> QED
    BY <2>4, <2>6 DEF e
<1>3. Before(prn, n, x) <=> \E m \in 1 .. n : prn[m] = e
  BY <1>1, <1>2 DEF Before
<1> QED
  BY <1>3 DEF Came, e, x

----------------------------------------------------------------------------
(* The innermost frame makes a step from f to g and prints out.            *)

TopSteps(frs, tables, w, K, g, out, Q) ==
  /\ Tables(tables, w, K) /\ Stack(frs, tables) /\ frs # <<>>
  /\ g \in GoodFrames(Session) /\ g.session = frs[1].session
  /\ FrameFits(g, tables[g.session])
  /\ Brings(out, g.session, tables[g.session], Q)
  /\ LetsOut(frs[1], g, tables[g.session], Q)

LEMMA SessionTable ==
  ASSUME NEW tables, NEW w, NEW K, Tables(tables, w, K), NEW s \in Session
  PROVE  tables[s] \in Seq(Row) /\ GoodTable(s, tables[s], w, K)
BY DEF Tables

LEMMA NewEntries ==
  ASSUME NEW frs, NEW tables, NEW w, NEW K, NEW g, NEW out, NEW Q,
         TopSteps(frs, tables, w, K, g, out, Q),
         NEW t \in Session, NEW k, NEW i, IsPlace(tables[t], k, i),
         NEW n \in 1 .. Len(out), out[n].what = Entry(t, tables[t], <<k, i>>).what
  PROVE  n = 1 /\ t = g.session /\ <<k, i>> \in Q /\ out[1] = Entry(t, tables[t], <<k, i>>)
<1> DEFINE s == g.session
<1>1. Tables(tables, w, K) /\ Brings(out, s, tables[s], Q) /\ s \in Session
  BY FrameTypes DEF TopSteps
<1>2. out[n].what # <<Nul>>
  BY <1>1, EntriesDiffer
<1>3. n = 1 /\ \E l, j : /\ <<l, j>> \in Q /\ IsPlace(tables[s], l, j)
                         /\ out[1] = Entry(s, tables[s], <<l, j>>)
  BY <1>1, <1>2 DEF Brings
<1>4. PICK l, j : /\ <<l, j>> \in Q /\ IsPlace(tables[s], l, j)
                  /\ out[1] = Entry(s, tables[s], <<l, j>>)
  BY <1>3
<1>5. t = s /\ k = l /\ i = j
  <2>1. Entry(t, tables[t], <<k, i>>).what = Entry(s, tables[s], <<l, j>>).what
    BY <1>3, <1>4
  <2> QED
    BY <1>1, <1>4, <2>1, EntriesDiffer
<1> QED
  BY <1>3, <1>4, <1>5

LEMMA CameNext ==
  ASSUME NEW frs, NEW tables, NEW w, NEW K, NEW g, NEW out, NEW Q,
         TopSteps(frs, tables, w, K, g, out, Q), NEW prn \in Seq(Printable),
         NEW t \in Session, NEW k, NEW i, IsPlace(tables[t], k, i)
  PROVE  /\ \A n \in 1 .. Len(prn) :
              Came(tables, prn \o out, t, <<k, i>>, n) <=> Came(tables, prn, t, <<k, i>>, n)
         /\ Came(tables, prn \o out, t, <<k, i>>, Len(prn \o out)) <=>
              Came(tables, prn, t, <<k, i>>, Len(prn)) \/ (t = g.session /\ <<k, i>> \in Q)
<1> DEFINE e == Entry(t, tables[t], <<k, i>>)
           N == Len(prn)
           L == Len(out)
           c == prn \o out
<1>1. out \in Seq(Printable)
  BY DEF TopSteps, Brings
<1>2. /\ Len(c) = N + L /\ N \in Nat /\ L \in Nat
      /\ \A n \in 1 .. N : c[n] = prn[n]
      /\ \A n \in 1 .. L : c[N + n] = out[n]
      /\ \A n \in 1 .. Len(c) : n \in 1 .. N \/ \E m \in 1 .. L : n = N + m
  BY <1>1, Lengthened
<1> HIDE DEF c, N, L
<1>3. ASSUME NEW n \in 1 .. N
      PROVE  (\E m \in 1 .. n : c[m] = e) <=> (\E m \in 1 .. n : prn[m] = e)
  <2>1. \A m \in 1 .. n : m \in 1 .. N
    BY <1>2
  <2> QED
    BY <1>2, <2>1
<1>4. (\E m \in 1 .. Len(c) : c[m] = e) <=>
        (\E m \in 1 .. N : prn[m] = e) \/ (\E m \in 1 .. L : out[m] = e)
  <2>1. ASSUME NEW m \in 1 .. Len(c), c[m] = e
        PROVE  (\E a \in 1 .. N : prn[a] = e) \/ (\E a \in 1 .. L : out[a] = e)
    BY <1>2, <2>1
  <2>2. ASSUME NEW m \in 1 .. N, prn[m] = e PROVE \E a \in 1 .. Len(c) : c[a] = e
    <3>1. m \in 1 .. Len(c)
      BY <1>2
    <3> QED
      BY <1>2, <2>2, <3>1
  <2>3. ASSUME NEW m \in 1 .. L, out[m] = e PROVE \E a \in 1 .. Len(c) : c[a] = e
    <3>1. N + m \in 1 .. Len(c)
      BY <1>2
    <3> QED
      BY <1>2, <2>3, <3>1
  <2> QED
    BY <2>1, <2>2, <2>3
<1>5. (\E m \in 1 .. L : out[m] = e) <=> (t = g.session /\ <<k, i>> \in Q)
  <2>1. ASSUME NEW m \in 1 .. L, out[m] = e PROVE t = g.session /\ <<k, i>> \in Q
    <3>1. m \in 1 .. Len(out) /\ out[m].what = Entry(t, tables[t], <<k, i>>).what
      BY <2>1 DEF L
    <3> QED
      BY <3>1, NewEntries
  <2>2. ASSUME t = g.session, <<k, i>> \in Q PROVE \E m \in 1 .. L : out[m] = e
    <3>1. L >= 1 /\ out[1] = e
      BY <2>2 DEF TopSteps, Brings, L
    <3>2. 1 \in 1 .. L
      BY <1>2, <3>1
    <3> QED
      BY <3>1, <3>2
  <2> QED
    BY <2>1, <2>2
<1> QED
  BY <1>3, <1>4, <1>5 DEF Came, c, N

\* The frames after the step still say what has come out.
LEMMA OutIffNext ==
  ASSUME NEW frs, NEW tables, NEW w, NEW K, NEW g, NEW out, NEW Q,
         TopSteps(frs, tables, w, K, g, out, Q), NEW prn \in Seq(Printable),
         OutIff(frs, tables, prn)
  PROVE  OutIff(<<g>> \o Tail(frs), tables, prn \o out)
<1>1. PICK new : new = <<g>> \o Tail(frs)
  OBVIOUS
<1>2. PICK c : c = prn \o out
  OBVIOUS
<1> DEFINE s == g.session
<1>3. /\ Stack(frs, tables) /\ frs # <<>> /\ g \in GoodFrames(Session) /\ s = frs[1].session
      /\ FrameFits(g, tables[s]) /\ LetsOut(frs[1], g, tables[s], Q)
  BY DEF TopSteps
<1>4. /\ Stack(new, tables) /\ new # <<>> /\ new[1] = g
      /\ SameElsewhere(frs, new, tables, s)
  <2>1. Replaced(frs, new, tables, g)
    BY <1>1, <1>3, StackTop
  <2> QED
    BY <2>1 DEF Replaced
<1> SUFFICES ASSUME NEW t \in Session, NEW k, NEW i, IsPlace(tables[t], k, i)
             PROVE  Came(tables, c, t, <<k, i>>, Len(c)) <=> IsOut(new, tables, t, k, i)
  BY <1>1, <1>2 DEF OutIff
<1>5. Came(tables, c, t, <<k, i>>, Len(c)) <=>
        Came(tables, prn, t, <<k, i>>, Len(prn)) \/ (t = s /\ <<k, i>> \in Q)
  BY <1>2, CameNext
<1>6. Came(tables, prn, t, <<k, i>>, Len(prn)) <=> IsOut(frs, tables, t, k, i)
  BY DEF OutIff
<1>7. CASE t = s
  <2>1. IsOut(frs, tables, t, k, i) <=> CameOutOf(frs[1], tables[s], k, i)
    BY <1>3, <1>7, TopOnly
  <2>2. IsOut(new, tables, t, k, i) <=> CameOutOf(g, tables[s], k, i)
    BY <1>4, <1>7, TopOnly
  <2>3. CameOutOf(g, tables[s], k, i) <=> CameOutOf(frs[1], tables[s], k, i) \/ <<k, i>> \in Q
    BY <1>3, <1>7 DEF LetsOut
  <2> QED
    BY <1>5, <1>6, <1>7, <2>1, <2>2, <2>3
<1>8. CASE t # s
  <2>1. IsOut(new, tables, t, k, i) <=> IsOut(frs, tables, t, k, i)
    BY <1>4, <1>8 DEF SameElsewhere
  <2> QED
    BY <1>5, <1>6, <1>8, <2>1
<1> QED
  BY <1>7, <1>8

\* Nothing comes out twice, and nothing that was not recorded.
LEMMA ValidNext ==
  ASSUME NEW frs, NEW tables, NEW w, NEW K, NEW g, NEW out, NEW Q,
         TopSteps(frs, tables, w, K, g, out, Q), NEW prn \in Seq(Printable),
         OutIff(frs, tables, prn), Valid(tables, prn)
  PROVE  Valid(tables, prn \o out)
<1> DEFINE N == Len(prn)
           L == Len(out)
           c == prn \o out
           s == g.session
<1>1. /\ out \in Seq(Printable) /\ Brings(out, s, tables[s], Q) /\ s \in Session
      /\ LetsOut(frs[1], g, tables[s], Q) /\ Stack(frs, tables) /\ frs # <<>>
      /\ s = frs[1].session
  BY FrameTypes DEF TopSteps, Brings
<1>2. /\ Len(c) = N + L /\ N \in Nat /\ L \in Nat
      /\ \A n \in 1 .. N : c[n] = prn[n]
      /\ \A n \in 1 .. L : c[N + n] = out[n]
      /\ \A n \in 1 .. Len(c) : n \in 1 .. N \/ \E m \in 1 .. L : n = N + m
  BY <1>1, Lengthened
<1> HIDE DEF c, N, L
<1> DEFINE Good(n) ==
             \/ c[n].what = <<Nul>>
             \/ /\ \E t \in Session : \E k, i : /\ IsPlace(tables[t], k, i)
                                                /\ c[n] = Entry(t, tables[t], <<k, i>>)
                /\ \A m \in 1 .. n - 1 : c[m] # c[n]
<1>3. ASSUME NEW n \in 1 .. N PROVE Good(n)
  <2>1. c[n] = prn[n] /\ \A m \in 1 .. n - 1 : c[m] = prn[m]
    BY <1>2
  <2>2. \/ prn[n].what = <<Nul>>
        \/ /\ \E t \in Session : \E k, i : /\ IsPlace(tables[t], k, i)
                                           /\ prn[n] = Entry(t, tables[t], <<k, i>>)
           /\ \A m \in 1 .. n - 1 : prn[m] # prn[n]
    BY DEF Valid, N
  <2>3. (\A m \in 1 .. n - 1 : prn[m] # prn[n]) => (\A m \in 1 .. n - 1 : c[m] # c[n])
    BY <2>1
  <2> QED
    BY <2>1, <2>2, <2>3, Zenon
<1>4. ASSUME NEW m \in 1 .. L PROVE Good(N + m)
  <2>1. c[N + m] = out[m]
    BY <1>2
  <2>2. CASE out[m].what = <<Nul>>
    BY <2>1, <2>2
  <2>3. CASE out[m].what # <<Nul>>
    <3>1. m = 1 /\ \E k, i : /\ <<k, i>> \in Q /\ IsPlace(tables[s], k, i)
                             /\ out[1] = Entry(s, tables[s], <<k, i>>)
      BY <1>1, <2>3 DEF Brings, L
    <3>2. PICK k, i : /\ <<k, i>> \in Q /\ IsPlace(tables[s], k, i)
                      /\ out[1] = Entry(s, tables[s], <<k, i>>)
      BY <3>1
    <3>3. ~ CameOutOf(frs[1], tables[s], k, i)
      BY <1>1, <3>2 DEF LetsOut
    <3>4. ~ IsOut(frs, tables, s, k, i)
      BY <1>1, <3>3, TopOnly
    <3>5. ~ Came(tables, prn, s, <<k, i>>, N)
      BY <1>1, <3>2, <3>4 DEF OutIff, N
    <3>6. \A a \in 1 .. (N + m) - 1 : a \in 1 .. N
      BY <1>2, <3>1
    <3>7. \A a \in 1 .. (N + m) - 1 : c[a] # Entry(s, tables[s], <<k, i>>)
      BY <1>2, <3>5, <3>6 DEF Came
    <3>8. c[N + m] = Entry(s, tables[s], <<k, i>>)
      BY <2>1, <3>1, <3>2
    <3> QED
      BY <1>1, <3>2, <3>7, <3>8
  <2> QED
    BY <2>2, <2>3
<1> HIDE DEF Good
<1>5. \A n \in 1 .. Len(c) : Good(n)
  BY <1>2, <1>3, <1>4
<1>6. Valid(tables, c)
  BY <1>5 DEF Valid, Good
<1> QED
  BY <1>6 DEF c

\* The earlier places come out first.
LEMMA InOrderNext ==
  ASSUME NEW frs, NEW tables, NEW w, NEW K, NEW g, NEW out, NEW Q,
         TopSteps(frs, tables, w, K, g, out, Q), NEW prn \in Seq(Printable),
         OutIff(frs, tables, prn), InOrder(tables, prn)
  PROVE  InOrder(tables, prn \o out)
<1> DEFINE N == Len(prn)
           L == Len(out)
           c == prn \o out
           s == g.session
<1>1. /\ out \in Seq(Printable) /\ s \in Session
      /\ LetsOut(frs[1], g, tables[s], Q) /\ Stack(frs, tables) /\ frs # <<>>
      /\ s = frs[1].session
  BY FrameTypes DEF TopSteps, Brings
<1>2. /\ Len(c) = N + L /\ N \in Nat /\ L \in Nat
      /\ \A n \in 1 .. N : c[n] = prn[n]
      /\ \A n \in 1 .. L : c[N + n] = out[n]
      /\ \A n \in 1 .. Len(c) : n \in 1 .. N \/ \E m \in 1 .. L : n = N + m
  BY <1>1, Lengthened
<1> SUFFICES ASSUME NEW t \in Session, NEW k, NEW i, NEW l, NEW j, NEW n \in 1 .. Len(c),
                    IsPlace(tables[t], k, i), IsPlace(tables[t], l, j),
                    Earlier(<<k, i>>, <<l, j>>), c[n] = Entry(t, tables[t], <<l, j>>)
             PROVE  Came(tables, c, t, <<k, i>>, n)
  BY DEF InOrder
<1>3. CASE n \in 1 .. N
  <2>1. prn[n] = Entry(t, tables[t], <<l, j>>)
    BY <1>2, <1>3
  <2>2. Came(tables, prn, t, <<k, i>>, n)
    BY <1>3, <2>1 DEF InOrder
  <2>3. Came(tables, prn \o out, t, <<k, i>>, n)
    BY <1>3, <2>2, CameNext
  <2> QED
    BY <2>3
<1>4. ASSUME NEW m \in 1 .. L, n = N + m PROVE Came(tables, c, t, <<k, i>>, n)
  <2>1. out[m] = Entry(t, tables[t], <<l, j>>)
    BY <1>2, <1>4
  <2>2. m = 1 /\ t = s /\ <<l, j>> \in Q
    <3>1. out[m].what = Entry(t, tables[t], <<l, j>>).what
      BY <2>1
    <3> QED
      BY <3>1, NewEntries
  <2>3. CameOutOf(frs[1], tables[s], k, i)
    BY <1>1, <2>2 DEF LetsOut
  <2>4. IsOut(frs, tables, s, k, i)
    BY <1>1, <2>3, TopOnly
  <2>5. Came(tables, prn, s, <<k, i>>, N)
    BY <1>1, <2>2, <2>4 DEF OutIff
  <2> HIDE DEF c, N, L, s
  <2>6. \A a \in 1 .. N : a \in 1 .. n /\ c[a] = prn[a]
    BY <1>2, <1>4
  <2> QED
    BY <2>2, <2>5, <2>6 DEF Came
<1> QED
  BY <1>2, <1>3, <1>4

\* The session of an inner frame is announced in one place: where the outer frame
\* waits.
Waits(frs, tables, t, k, j) ==
  /\ 2 \in 1 .. Len(frs) /\ frs[2].session = t /\ frs[2].busy /\ frs[2].row = k
  /\ Pos(frs[2], tables[t][k].output) + 1 = j
  /\ Pos(frs[2], tables[t][k].output) \in 1 .. Len(tables[t][k].output)
  /\ \A a \in 1 .. Len(frs) : frs[a].session = t => a = 2
  /\ t # frs[1].session

LEMMA OuterWaits ==
  ASSUME NEW frs, NEW tables, NEW w, NEW K, Tables(tables, w, K),
         Stack(frs, tables), frs # <<>>, AskedFor(frs, tables),
         NEW t \in Session, NEW k, NEW j, At(tables[t], k, j, frs[1].session)
  PROVE  Waits(frs, tables, t, k, j)
<1> DEFINE s == frs[1].session
<1>1. /\ Len(frs) \in Nat /\ 1 \in 1 .. Len(frs) /\ s \in Session
      /\ \A a \in 1 .. Len(frs) : frs[a].session \in Nat /\ frs[a].session \in Session
  BY StackIs
<1>2. tables[t] # <<>>
  BY EmptySeq DEF At
<1>3. t \in Nat /\ s \in Nat
  BY <1>1, SessionAssumption
<1>4. s > t
  <2>1. GoodTable(t, tables[t], w, K)
    BY DEF Tables
  <2>2. GoodOutput(t, tables[t][k].output, w, K)
    BY <2>1 DEF GoodTable, At
  <2> QED
    BY <1>1, <2>2 DEF GoodOutput, At
<1>5. 2 \in 1 .. Len(frs)
  <2> SUFFICES ASSUME 2 \notin 1 .. Len(frs) PROVE FALSE
    OBVIOUS
  <2>1. Len(frs) = 1
    <3>1. PICK n \in Nat : n = Len(frs)
      BY <1>1
    <3>2. 1 \in 1 .. n /\ 2 \notin 1 .. n
      BY <1>1, <3>1
    <3> QED
      BY <3>1, <3>2
  <2>2. t = s \/ t > s
    BY <1>2, <2>1 DEF AskedFor
  <2> QED
    BY <1>3, <1>4, <2>2
<1>6. StandsAt(frs[2], tables[frs[2].session], s)
  <2>1. 2 > 1 /\ 2 - 1 = 1
    OBVIOUS
  <2> QED
    BY <1>5, <2>1 DEF Stack
<1> DEFINE u == frs[2].session
           o == tables[u][frs[2].row].output
<1>7. At(tables[u], frs[2].row, Pos(frs[2], o) + 1, s) /\ u \in Session
  BY <1>1, <1>5, <1>6 DEF StandsAt
<1>8. u = t /\ frs[2].row = k /\ Pos(frs[2], o) + 1 = j
  <2>1. PICK r, p, v, x : r = frs[2].row /\ p = Pos(frs[2], o) + 1 /\ v = u /\ x = s
    OBVIOUS
  <2>2. At(tables[v], r, p, x) /\ At(tables[t], k, j, x) /\ v \in Session /\ x \in Session
    <3> HIDE DEF u, o
    <3> QED
      BY <1>1, <1>7, <2>1
  <2>3. OnePlace(tables)
    BY DEF Tables
  <2>4. v = t /\ r = k /\ p = j
    BY <2>2, <2>3 DEF OnePlace
  <2> QED
    BY <2>1, <2>4
<1>9. frs[2].busy /\ Pos(frs[2], o) \in 1 .. Len(o)
  BY <1>6 DEF StandsAt
<1>10. ASSUME NEW a \in 1 .. Len(frs), frs[a].session = t PROVE a = 2
  <2>1. a < 2 \/ a > 2 \/ a = 2
    OBVIOUS
  <2>2. a < 2 => frs[2].session < frs[a].session
    BY <1>5 DEF Stack
  <2>3. a > 2 => frs[a].session < frs[2].session
    BY <1>5 DEF Stack
  <2> QED
    BY <1>3, <1>8, <1>10, <2>1, <2>2, <2>3
<1>11. t # s
  BY <1>3, <1>4
<1> QED
  BY <1>5, <1>8, <1>9, <1>10, <1>11 DEF Waits

\* A session starts where the outer one waits.
LEMMA InPlaceNext ==
  ASSUME NEW frs, NEW tables, NEW w, NEW K, NEW g, NEW out, NEW Q,
         TopSteps(frs, tables, w, K, g, out, Q), NEW prn, Promises(tables, prn),
         OutIff(frs, tables, prn), AskedFor(frs, tables)
  PROVE  InPlace(tables, prn \o out)
<1> DEFINE N == Len(prn)
           L == Len(out)
           c == prn \o out
           s == g.session
<1>1. /\ out \in Seq(Printable) /\ prn \in Seq(Printable) /\ s \in Session
      /\ Stack(frs, tables) /\ frs # <<>> /\ Tables(tables, w, K)
      /\ s = frs[1].session /\ Brings(out, s, tables[s], Q) /\ InPlace(tables, prn)
  BY FrameTypes DEF TopSteps, Brings, Promises
<1>2. /\ Len(c) = N + L /\ N \in Nat /\ L \in Nat /\ c \in Seq(Printable)
      /\ \A n \in 1 .. N : c[n] = prn[n]
      /\ \A n \in 1 .. L : c[N + n] = out[n]
      /\ \A n \in 1 .. Len(c) : n \in 1 .. N \/ \E m \in 1 .. L : n = N + m
  BY <1>1, Lengthened
<1>3. Valid(tables, c) /\ OutIff(<<g>> \o Tail(frs), tables, c)
  BY <1>1, ValidNext, OutIffNext DEF Promises
<1> HIDE DEF c, N, L
<1> SUFFICES ASSUME NEW t \in Session, NEW k \in 1 .. Len(tables[t]), NEW n \in 1 .. Len(c),
                    NEW j \in 1 .. Len(tables[t][k].output)
             PROVE  Placed(c, tables[t][k].output, n, j)
  BY DEF InPlace, c
<1> DEFINE o == tables[t][k].output
<1>4. CASE n \in 1 .. N
  <2>1. \A x : Before(c, n, x) <=> Before(prn, n, x)
    <3>1. \A m \in 1 .. n : c[m] = prn[m]
      BY <1>2, <1>4
    <3> QED
      BY <3>1 DEF Before
  <2>2. Placed(prn, o, n, j)
    BY <1>1, <1>4 DEF InPlace, N
  <2>3. c[n] = prn[n]
    BY <1>2, <1>4
  <2> HIDE DEF o
  <2>4. Placed(c, o, n, j)
    BY <2>1, <2>2, <2>3 DEF Placed
  <2> QED
    BY <2>4 DEF o
<1>5. ASSUME NEW m \in 1 .. L, n = N + m PROVE Placed(c, o, n, j)
  <2> SUFFICES ASSUME o[j] \in Session, c[n].what = <<o[j], 1>>,
                      NEW i \in 1 .. Len(o), IsText(o[i])
               PROVE  /\ Before(c, n, o[i]) => i < j
                      /\ (\E a \in i .. j : o[a] \in Marker) => Before(c, n, o[i])
    BY DEF Placed
  <2>1. out[m].what = <<o[j], 1>>
    BY <1>2, <1>5
  <2>2. \A a, b, x : <<a, b>> # <<x>>
    <3>1. \A a, b, x : Len(<<a, b>>) = 2 /\ Len(<<x>>) = 1
      OBVIOUS
    <3> QED
      BY <3>1
  <2>3. m = 1 /\ o[j] = s
    <3>1. m = 1 /\ \E l, b : /\ <<l, b>> \in Q /\ IsPlace(tables[s], l, b)
                             /\ out[1] = Entry(s, tables[s], <<l, b>>)
      <4>1. out[m].what # <<Nul>>
        BY <2>1, <2>2
      <4> QED
        BY <1>1, <4>1 DEF Brings, L
    <3>2. PICK l, b : IsPlace(tables[s], l, b) /\ out[1] = Entry(s, tables[s], <<l, b>>)
      BY <3>1
    <3>3. EntryIs(s, tables[s], l, b)
      BY <1>1, <3>2, SessionTable, EntryOf
    <3>4. \A d, y : [to |-> d, what |-> y].what = y
      OBVIOUS
    <3>5. CASE b # 0
      <4>1. out[1] = [to |-> tables[s][l].output[b - 1], what |-> <<tables[s][l].output[b]>>]
        BY <3>2, <3>3, <3>5 DEF EntryIs
      <4>2. out[1].what = <<tables[s][l].output[b]>>
        BY <3>4, <4>1, Zenon
      <4> QED
        BY <2>1, <2>2, <3>1, <4>2
    <3>6. CASE b = 0
      <4>1. out[1] = [to |-> Out, what |-> <<s, l>>]
        BY <3>2, <3>3, <3>6 DEF EntryIs
      <4>2. out[1].what = <<s, l>>
        BY <3>4, <4>1, Zenon
      <4>3. \A a, d, x, y : <<a, d>> = <<x, y>> => a = x
        OBVIOUS
      <4>4. <<o[j], 1>> = <<s, l>>
        BY <2>1, <3>1, <4>2
      <4> QED
        BY <3>1, <4>3, <4>4
    <3> QED
      BY <3>5, <3>6
  <2>4. At(tables[t], k, j, frs[1].session)
    BY <1>1, <2>3 DEF At
  <2>5. /\ 2 \in 1 .. Len(frs) /\ frs[2].session = t /\ frs[2].busy /\ frs[2].row = k
        /\ Pos(frs[2], o) + 1 = j /\ Pos(frs[2], o) \in 1 .. Len(o)
        /\ \A a \in 1 .. Len(frs) : frs[a].session = t => a = 2
        /\ t # s
    <3>1. Waits(frs, tables, t, k, j)
      BY <1>1, <2>4, OuterWaits
    <3> QED
      BY <1>1, <3>1 DEF Waits
  <2> DEFINE f == frs[2]
             p == Pos(f, o)
  <2>6. IsPlace(tables[t], k, i) /\ i # 0
    <3>1. FrameFits(f, tables[t])
      BY <1>1, <2>5 DEF Stack
    <3>2. tables[t][k].command
      BY <2>5, <3>1 DEF FrameFits
    <3> QED
      BY <3>2 DEF IsPlace
  <2>7. n \in Nat /\ n <= Len(c) /\ n = N + 1 /\ Len(c) \in Nat
    BY <1>2, <1>5, <2>3
  <2>8. Before(c, n, o[i]) <=> Came(tables, c, t, <<k, i>>, n)
    BY <1>1, <1>3, <2>6, <2>7, TextBefore
  <2>9. ASSUME Before(c, n, o[i]) PROVE i < j
    <3>1. Came(tables, c, t, <<k, i>>, Len(c))
      <4>1. \A a \in 1 .. n : a \in 1 .. Len(c)
        BY <2>7
      <4> QED
        BY <2>8, <2>9, <4>1 DEF Came
    <3>2. IsOut(<<g>> \o Tail(frs), tables, t, k, i)
      BY <1>3, <2>6, <3>1 DEF OutIff
    <3>3. IsOut(frs, tables, t, k, i)
      <4>1. PICK new : new = <<g>> \o Tail(frs)
        OBVIOUS
      <4>2. Replaced(frs, new, tables, g)
        BY <1>1, <4>1, StackTop DEF TopSteps
      <4> QED
        BY <2>5, <3>2, <4>1, <4>2 DEF Replaced, SameElsewhere
    <3>4. ReadIn(f, tables[t], k, i)
      BY <2>5, <3>3 DEF IsOut, CameOutOf
    <3>5. i <= p
      <4>1. ~ (k < k)
        OBVIOUS
      <4> QED
        BY <2>5, <3>4, <4>1 DEF ReadIn
    <3> QED
      BY <2>5, <3>5
  <2>10. ASSUME NEW a \in i .. j, o[a] \in Marker PROVE Before(c, n, o[i])
    <3>1. a # i /\ a # j
      BY <2>10, Tokens
    <3>2. a \in i + 1 .. p /\ i <= p
      BY <2>5, <3>1
    <3>3. ~ PendingAt(o, p, i)
      BY <2>10, <3>2 DEF PendingAt
    <3>4. CameOutOf(f, tables[t], k, i)
      BY <2>5, <3>2, <3>3 DEF CameOutOf, ReadIn, PendingIn
    <3>5. IsOut(frs, tables, t, k, i)
      BY <2>5, <3>4 DEF IsOut
    <3>6. Came(tables, prn, t, <<k, i>>, N)
      BY <2>6, <3>5 DEF OutIff, N
    <3>7. Came(tables, c, t, <<k, i>>, n)
      <4>1. \A b \in 1 .. N : b \in 1 .. n /\ c[b] = prn[b]
        BY <1>2, <2>7
      <4> QED
        BY <3>6, <4>1 DEF Came
    <3> QED
      BY <2>8, <3>7
  <2> QED
    BY <2>9, <2>10
<1> QED
  BY <1>2, <1>4, <1>5

----------------------------------------------------------------------------
(* What the frames have to do with the output, after each kind of step.    *)

ReaderSays(frs, tables, prn) ==
  /\ Stack(frs, tables) /\ Promises(tables, prn)
  /\ OutIff(frs, tables, prn) /\ AskedFor(frs, tables)

\* The sessions whose markers have been read are among S.
NestedAsked(frs, tables, S) ==
  \A s \in Session : \A k \in 1 .. Len(tables[s]) : \A i \in 1 .. Len(tables[s][k].output) :
    /\ tables[s][k].command /\ tables[s][k].output[i] = Nested
    /\ IsRead(frs, tables, s, k, i)
    => tables[s][k].output[i + 1] \in S

ReadsOn(f, g, table) == \A k, i \in Nat : ReadIn(f, table, k, i) => ReadIn(g, table, k, i)

LEMMA TopKeeps ==
  ASSUME NEW frs, NEW tables, NEW w, NEW K, NEW g, NEW out, NEW Q,
         TopSteps(frs, tables, w, K, g, out, Q), ReadsOn(frs[1], g, tables[g.session]),
         NEW prn, ReaderSays(frs, tables, prn), NEW new, new = <<g>> \o Tail(frs)
  PROVE  ReaderSays(new, tables, prn \o out)
<1> DEFINE s == g.session
<1>1. /\ out \in Seq(Printable) /\ prn \in Seq(Printable) /\ s \in Session
      /\ Stack(frs, tables) /\ frs # <<>> /\ s = frs[1].session
      /\ Promises(tables, prn) /\ OutIff(frs, tables, prn) /\ AskedFor(frs, tables)
      /\ Valid(tables, prn) /\ InOrder(tables, prn)
  BY FrameTypes DEF TopSteps, Brings, Promises, ReaderSays
<1>2. Replaced(frs, new, tables, g)
  BY StackTop DEF TopSteps
<1>3. prn \o out \in Seq(Printable)
  BY <1>1, Lengthened
<1>4. Valid(tables, prn \o out)
  BY <1>1, ValidNext
<1>5. InOrder(tables, prn \o out)
  BY <1>1, InOrderNext
<1>6. InPlace(tables, prn \o out)
  BY <1>1, InPlaceNext
<1>7. OutIff(new, tables, prn \o out)
  BY <1>1, OutIffNext
<1>8. ASSUME NEW t \in Session, NEW k \in Nat, NEW i \in Nat, IsRead(frs, tables, t, k, i)
      PROVE  IsRead(new, tables, t, k, i)
  <2>1. CASE t = s
    <3>1. ReadIn(frs[1], tables[s], k, i)
      BY <1>1, <1>8, <2>1, TopOnly
    <3>2. ReadIn(g, tables[s], k, i)
      BY <3>1 DEF ReadsOn
    <3>3. Stack(new, tables) /\ new # <<>> /\ new[1] = g
      BY <1>2 DEF Replaced
    <3> QED
      BY <2>1, <3>2, <3>3, TopOnly
  <2>2. CASE t # s
    BY <1>2, <1>8, <2>2 DEF Replaced, SameElsewhere
  <2> QED
    BY <2>1, <2>2
<1>9. AskedFor(new, tables)
  <2> SUFFICES ASSUME NEW v \in Session, tables[v] # <<>>, v # new[Len(new)].session
               PROVE  /\ v > new[Len(new)].session
                      /\ \E t \in Session : \E k, i \in Nat :
                           At(tables[t], k, i, v) /\ IsRead(new, tables, t, k, i - 1)
    BY DEF AskedFor
  <2>1. new[Len(new)].session = frs[Len(frs)].session
    BY <1>2 DEF Replaced
  <2>2. /\ v > frs[Len(frs)].session
        /\ \E t \in Session : \E k, i \in Nat :
             At(tables[t], k, i, v) /\ IsRead(frs, tables, t, k, i - 1)
    BY <1>1, <2>1 DEF AskedFor
  <2>3. PICK t \in Session : \E k, i \in Nat : At(tables[t], k, i, v) /\ IsRead(frs, tables, t, k, i - 1)
    BY <2>2
  <2>4. PICK k \in Nat, i \in Nat : At(tables[t], k, i, v) /\ IsRead(frs, tables, t, k, i - 1)
    BY <2>3
  <2>5. i - 1 \in Nat
    BY <2>4 DEF At
  <2>6. IsRead(new, tables, t, k, i - 1)
    BY <1>8, <2>4, <2>5
  <2> QED
    BY <2>1, <2>2, <2>4, <2>6
<1> QED
  BY <1>2, <1>3, <1>4, <1>5, <1>6, <1>7, <1>9 DEF ReaderSays, Promises, Replaced

LEMMA TopKeepsAsked ==
  ASSUME NEW frs, NEW tables, Stack(frs, tables), frs # <<>>, NEW S, NestedAsked(frs, tables, S),
         NEW g, NEW new, Replaced(frs, new, tables, g), g.session = frs[1].session,
         Continues(frs[1], g, tables[g.session])
  PROVE  NestedAsked(new, tables, S)
<1> SUFFICES ASSUME NEW s \in Session, NEW k \in 1 .. Len(tables[s]),
                    NEW i \in 1 .. Len(tables[s][k].output),
                    tables[s][k].command, tables[s][k].output[i] = Nested,
                    IsRead(new, tables, s, k, i)
             PROVE  tables[s][k].output[i + 1] \in S
  BY DEF NestedAsked
<1>1. IsRead(frs, tables, s, k, i)
  <2>1. CASE s = g.session
    <3>1. Stack(new, tables) /\ new # <<>> /\ new[1] = g
      BY DEF Replaced
    <3>2. ReadIn(g, tables[s], k, i)
      BY <2>1, <3>1, TopOnly
    <3>3. ReadIn(frs[1], tables[s], k, i)
      BY <2>1, <3>2 DEF Continues
    <3> QED
      BY <2>1, <3>3, TopOnly
  <2>2. CASE s # g.session
    BY <2>2 DEF Replaced, SameElsewhere
  <2> QED
    BY <2>1, <2>2
<1> QED
  BY <1>1 DEF NestedAsked

\* The end of a session.
LEMMA PopKeeps ==
  ASSUME NEW frs, NEW tables, NEW prn, ReaderSays(frs, tables, prn), frs # <<>>,
         tables \in [Session -> Seq(Row)],
         ~ frs[1].busy, frs[1].rows = <<>>, NEW new, new = Tail(frs)
  PROVE  /\ ReaderSays(new, tables, prn)
         /\ \A S : NestedAsked(frs, tables, S) => NestedAsked(new, tables, S)
<1> DEFINE f == frs[1]
           s == f.session
<1>1. /\ Stack(frs, tables) /\ Promises(tables, prn) /\ OutIff(frs, tables, prn)
      /\ AskedFor(frs, tables)
  BY DEF ReaderSays
<1>2. f \in GoodFrames(Session) /\ s \in Session /\ FrameFits(f, tables[s])
      /\ 1 \in 1 .. Len(frs)
  BY <1>1, StackIs DEF Stack
<1>3. /\ Stack(new, tables) /\ SameElsewhere(frs, new, tables, s)
      /\ \A k, i : IsRead(new, tables, s, k, i) /\ IsOut(new, tables, s, k, i)
      /\ new # <<>> => new[Len(new)].session = frs[Len(frs)].session
  <2>1. Stack(new, tables) /\ SameElsewhere(frs, new, tables, s)
    BY <1>1, StackPop
  <2>2. \A k, i : IsRead(new, tables, s, k, i) /\ IsOut(new, tables, s, k, i)
    BY <1>1, StackPop
  <2>3. new # <<>> => new[Len(new)].session = frs[Len(frs)].session
    BY <1>1, StackPop
  <2> QED
    BY <2>1, <2>2, <2>3
<1>4. \A k \in 1 .. Len(tables[s]) : \A i : ReadIn(f, tables[s], k, i) /\ CameOutOf(f, tables[s], k, i)
  <2>1. Len(f.rows) = 0
    BY EmptySeq
  <2>2. Len(tables[s]) \in Nat
    BY <1>2, LenProperties
  <2>3. f.row = Len(tables[s])
    BY <1>2, <2>1, <2>2 DEF FrameFits
  <2>4. \A k \in 1 .. Len(tables[s]) : k < f.row \/ k = f.row
    BY <2>2, <2>3
  <2> QED
    BY <2>4 DEF ReadIn, CameOutOf, PendingIn
<1>5. ASSUME NEW t \in Session, NEW k \in 1 .. Len(tables[t]), NEW i
      PROVE  /\ IsRead(new, tables, t, k, i) <=> IsRead(frs, tables, t, k, i)
             /\ IsOut(new, tables, t, k, i) <=> IsOut(frs, tables, t, k, i)
  <2>1. CASE t = s
    BY <1>1, <1>3, <1>4, <2>1, TopOnly
  <2>2. CASE t # s
    BY <1>3, <2>2 DEF SameElsewhere
  <2> QED
    BY <2>1, <2>2
<1>6. OutIff(new, tables, prn)
  <2> SUFFICES ASSUME NEW t \in Session, NEW k, NEW i, IsPlace(tables[t], k, i)
               PROVE  Came(tables, prn, t, <<k, i>>, Len(prn)) <=> IsOut(new, tables, t, k, i)
    BY DEF OutIff
  <2>1. k \in 1 .. Len(tables[t])
    BY DEF IsPlace
  <2> QED
    BY <1>1, <1>5, <2>1 DEF OutIff
<1>7. AskedFor(new, tables)
  <2> SUFFICES ASSUME new # <<>>, NEW v \in Session, tables[v] # <<>>, v # new[Len(new)].session
               PROVE  /\ v > new[Len(new)].session
                      /\ \E t \in Session : \E k, i \in Nat :
                           At(tables[t], k, i, v) /\ IsRead(new, tables, t, k, i - 1)
    BY DEF AskedFor
  <2>1. new[Len(new)].session = frs[Len(frs)].session
    BY <1>3
  <2>2. /\ v > frs[Len(frs)].session
        /\ \E t \in Session : \E k, i \in Nat :
             At(tables[t], k, i, v) /\ IsRead(frs, tables, t, k, i - 1)
    BY <1>1, <2>1 DEF AskedFor
  <2>3. PICK t \in Session : \E k, i \in Nat : At(tables[t], k, i, v) /\ IsRead(frs, tables, t, k, i - 1)
    BY <2>2
  <2>4. PICK k \in Nat, i \in Nat : At(tables[t], k, i, v) /\ IsRead(frs, tables, t, k, i - 1)
    BY <2>3
  <2>5. k \in 1 .. Len(tables[t])
    BY <2>4 DEF At
  <2>6. IsRead(new, tables, t, k, i - 1)
    BY <1>5, <2>4, <2>5
  <2> QED
    BY <2>1, <2>2, <2>4, <2>6
<1>8. ASSUME NEW S, NestedAsked(frs, tables, S) PROVE NestedAsked(new, tables, S)
  BY <1>5, <1>8 DEF NestedAsked
<1> QED
  BY <1>1, <1>3, <1>6, <1>7, <1>8 DEF ReaderSays

\* A command in the output is that of a row that is fetched.
LEMMA CommandOf ==
  ASSUME NEW tables, NEW w, NEW K, Tables(tables, w, K), NEW prn, Valid(tables, prn),
         NEW n \in 1 .. Len(prn), NEW v, NEW x, prn[n].what = <<v, x>>
  PROVE  v \in Session /\ IsPlace(tables[v], x, 0)
<1>1. \A a, b, y : <<a, b>> # <<y>>
  <2>1. \A a, b, y : Len(<<a, b>>) = 2 /\ Len(<<y>>) = 1
    OBVIOUS
  <2> QED
    BY <2>1
<1>2. PICK s \in Session : \E l, b : IsPlace(tables[s], l, b) /\ prn[n] = Entry(s, tables[s], <<l, b>>)
  <2>1. prn[n].what # <<Nul>>
    BY <1>1
  <2> QED
    BY <2>1 DEF Valid
<1>3. PICK l, b : IsPlace(tables[s], l, b) /\ prn[n] = Entry(s, tables[s], <<l, b>>)
  BY <1>2
<1>4. EntryIs(s, tables[s], l, b)
  BY <1>3, SessionTable, EntryOf
<1>5. \A d, y : [to |-> d, what |-> y].what = y
  OBVIOUS
<1>6. CASE b # 0
  <2>1. prn[n] = [to |-> tables[s][l].output[b - 1], what |-> <<tables[s][l].output[b]>>]
    BY <1>3, <1>4, <1>6 DEF EntryIs
  <2>2. prn[n].what = <<tables[s][l].output[b]>>
    BY <1>5, <2>1, Zenon
  <2> QED
    BY <1>1, <2>2
<1>7. CASE b = 0
  <2>1. prn[n] = [to |-> Out, what |-> <<s, l>>]
    BY <1>3, <1>4, <1>7 DEF EntryIs
  <2>2. prn[n].what = <<s, l>>
    BY <1>5, <2>1, Zenon
  <2>3. \A a, d, y, z : <<a, d>> = <<y, z>> => a = y /\ d = z
    OBVIOUS
  <2>4. <<v, x>> = <<s, l>>
    BY <2>2
  <2>5. v = s /\ x = l
    BY <2>3, <2>4
  <2> QED
    BY <1>3, <1>7, <2>5
<1> QED
  BY <1>6, <1>7

\* The frame of a session that has just been queried.
Fresh(h, table) ==
  /\ h \in GoodFrames(Session) /\ h.row = 0 /\ h.rows = table /\ ~ h.busy
  /\ h.output = <<>> /\ h.stdout = <<>> /\ h.stderr = <<>>

LEMMA FreshFits ==
  ASSUME NEW table \in Seq(Row), NEW h, Fresh(h, table)
  PROVE  /\ FrameFits(h, table)
         /\ \A k \in 1 .. Len(table) : \A i : ~ ReadIn(h, table, k, i) /\ ~ CameOutOf(h, table, k, i)
<1>1. Len(table) \in Nat
  BY LenProperties
<1>2. \A k \in 1 .. Len(table) : 0 + k = k
  OBVIOUS
<1>3. FrameFits(h, table)
  <2>1. h.row \in 0 .. Len(table) /\ Len(h.rows) = Len(table) - h.row
    BY <1>1 DEF Fresh
  <2>2. \A k \in 1 .. Len(h.rows) : h.rows[k] = table[h.row + k]
    BY <1>2 DEF Fresh
  <2> QED
    BY <2>1, <2>2 DEF Fresh, FrameFits
<1>4. \A k \in 1 .. Len(table) : ~ (k < 0) /\ k # 0
  OBVIOUS
<1> QED
  BY <1>3, <1>4 DEF Fresh, ReadIn, CameOutOf

\* A query: the table of u is fetched and its frame is the innermost.
Queries(frs, tables, w, K, u, h, more, prn) ==
  /\ Tables(tables, w, K) /\ Tables(more, w, K) /\ ReaderSays(frs, tables, prn)
  /\ u \in Session /\ tables[u] = <<>> /\ more[u] # <<>>
  /\ \A s \in Session : s # u => more[s] = tables[s]
  /\ Fresh(h, more[u]) /\ h.session = u
  /\ frs # <<>> => /\ StandsAt(frs[1], tables[frs[1].session], u)
                   /\ frs[1].session < u
  /\ frs = <<>> => prn = <<>> /\ \A s \in Session : tables[s] = <<>>

LEMMA NotAPlace ==
  ASSUME NEW k, NEW i
  PROVE  ~ IsPlace(<<>>, k, i)
<1>1. Len(<<>>) = 0
  BY EmptySeq
<1> QED
  BY <1>1 DEF IsPlace

\* Nothing of the new session has come out.
LEMMA NotCame ==
  ASSUME NEW frs, NEW tables, NEW w, NEW K, NEW u, NEW h, NEW more, NEW prn,
         Queries(frs, tables, w, K, u, h, more, prn)
  PROVE  /\ Valid(more, prn)
         /\ \A k, i : IsPlace(more[u], k, i) =>
              \A n \in 1 .. Len(prn) : prn[n] # Entry(u, more[u], <<k, i>>)
<1>1. /\ Tables(more, w, K) /\ Valid(tables, prn) /\ u \in Session /\ tables[u] = <<>>
      /\ \A s \in Session : s # u => more[s] = tables[s]
  BY DEF Queries, ReaderSays, Promises
<1>2. ASSUME NEW n \in 1 .. Len(prn), prn[n].what # <<Nul>>
      PROVE  /\ \E s \in Session : /\ s # u
                                   /\ \E k, i : IsPlace(more[s], k, i) /\ prn[n] = Entry(s, more[s], <<k, i>>)
             /\ \A m \in 1 .. n - 1 : prn[m] # prn[n]
  <2>1. PICK s \in Session : \E k, i : IsPlace(tables[s], k, i) /\ prn[n] = Entry(s, tables[s], <<k, i>>)
    BY <1>1, <1>2 DEF Valid
  <2>2. s # u
    BY <1>1, <2>1, NotAPlace
  <2>3. \A m \in 1 .. n - 1 : prn[m] # prn[n]
    BY <1>1, <1>2 DEF Valid
  <2> QED
    BY <1>1, <2>1, <2>2, <2>3
<1>3. Valid(more, prn)
  BY <1>2 DEF Valid
<1>4. ASSUME NEW k, NEW i, IsPlace(more[u], k, i), NEW n \in 1 .. Len(prn),
             prn[n] = Entry(u, more[u], <<k, i>>)
      PROVE  FALSE
  <2>1. prn[n].what # <<Nul>>
    BY <1>1, <1>4, EntriesDiffer
  <2>2. PICK s \in Session : /\ s # u
                             /\ \E l, j : IsPlace(more[s], l, j) /\ prn[n] = Entry(s, more[s], <<l, j>>)
    BY <1>2, <2>1
  <2>3. PICK l, j : IsPlace(more[s], l, j) /\ prn[n] = Entry(s, more[s], <<l, j>>)
    BY <2>2
  <2>4. Entry(u, more[u], <<k, i>>).what = Entry(s, more[s], <<l, j>>).what
    BY <1>4, <2>3
  <2>5. u = s
    BY <1>1, <1>4, <2>3, <2>4, EntriesDiffer
  <2> QED
    BY <2>2, <2>5
<1> QED
  BY <1>3, <1>4

LEMMA PushKeepsPromises ==
  ASSUME NEW frs, NEW tables, NEW w, NEW K, NEW u, NEW h, NEW more, NEW prn,
         Queries(frs, tables, w, K, u, h, more, prn)
  PROVE  Promises(more, prn)
<1>1. /\ Tables(tables, w, K) /\ Tables(more, w, K) /\ prn \in Seq(Printable) /\ Valid(tables, prn)
      /\ InOrder(tables, prn) /\ InPlace(tables, prn) /\ Stack(frs, tables)
      /\ u \in Session /\ tables[u] = <<>> /\ AskedFor(frs, tables)
      /\ \A s \in Session : s # u => more[s] = tables[s]
  BY DEF Queries, ReaderSays, Promises
<1>2. /\ Valid(more, prn)
      /\ \A k, i : IsPlace(more[u], k, i) =>
           \A n \in 1 .. Len(prn) : prn[n] # Entry(u, more[u], <<k, i>>)
  BY NotCame
<1>3. InOrder(more, prn)
  <2> SUFFICES ASSUME NEW s \in Session, NEW k, NEW i, NEW l, NEW j, NEW n \in 1 .. Len(prn),
                      IsPlace(more[s], k, i), IsPlace(more[s], l, j),
                      Earlier(<<k, i>>, <<l, j>>), prn[n] = Entry(s, more[s], <<l, j>>)
               PROVE  Came(more, prn, s, <<k, i>>, n)
    BY DEF InOrder
  <2>1. s # u
    BY <1>2
  <2>2. more[s] = tables[s]
    BY <1>1, <2>1
  <2>3. Came(tables, prn, s, <<k, i>>, n)
    BY <1>1, <2>2 DEF InOrder
  <2> QED
    BY <2>2, <2>3 DEF Came
<1>4. InPlace(more, prn)
  <2> SUFFICES ASSUME NEW s \in Session, NEW k \in 1 .. Len(more[s]), NEW n \in 1 .. Len(prn),
                      NEW j \in 1 .. Len(more[s][k].output)
               PROVE  Placed(prn, more[s][k].output, n, j)
    BY DEF InPlace
  <2>1. CASE s # u
    <3>1. more[s] = tables[s]
      BY <1>1, <2>1
    <3> QED
      BY <1>1, <3>1 DEF InPlace
  <2>2. CASE s = u
    <3> DEFINE o == more[s][k].output
               v == o[j]
    <3> SUFFICES ASSUME v \in Session, prn[n].what = <<v, 1>> PROVE FALSE
      BY DEF Placed
    <3>1. IsPlace(tables[v], 1, 0)
      BY <1>1, CommandOf
    <3>2. tables[v] # <<>>
      BY <3>1, NotAPlace
    <3>3. v > u /\ At(more[u], k, j, v)
      <4>1. GoodOutput(s, o, w, K)
        BY <1>1 DEF Tables, GoodTable
      <4> QED
        BY <2>2, <4>1 DEF GoodOutput, At
    <3>4. frs # <<>>
      BY <3>2 DEF Queries
    <3>5. frs[Len(frs)].session <= frs[1].session /\ frs[1].session < u
      BY <1>1, <3>4, StackIs DEF Queries
    <3>6. u \in Nat /\ v \in Nat /\ frs[1].session \in Nat /\ frs[Len(frs)].session \in Nat
      <4>1. Len(frs) \in 1 .. Len(frs) /\ 1 \in 1 .. Len(frs)
            /\ \A a \in 1 .. Len(frs) : frs[a].session \in Nat
        BY <1>1, <3>4, StackIs
      <4> QED
        BY <1>1, <4>1, SessionAssumption
    <3>7. v # frs[Len(frs)].session
      <4> HIDE DEF v
      <4> QED
        BY <3>3, <3>5, <3>6
    <3>8. PICK t \in Session : \E l, i \in Nat : At(tables[t], l, i, v)
      BY <1>1, <3>2, <3>4, <3>7 DEF AskedFor
    <3>9. PICK l \in Nat, i \in Nat : At(tables[t], l, i, v)
      BY <3>8
    <3>10. t # u
      BY <1>1, <3>9, EmptySeq DEF At
    <3>11. At(more[t], l, i, v)
      BY <1>1, <3>9, <3>10
    <3>12. OnePlace(more)
      BY <1>1 DEF Tables
    <3> HIDE DEF v
    <3>13. t = u
      BY <1>1, <3>3, <3>11, <3>12 DEF OnePlace
    <3> QED
      BY <3>10, <3>13
  <2> QED
    BY <2>1, <2>2
<1> QED
  BY <1>1, <1>2, <1>3, <1>4 DEF Promises

LEMMA PushKeeps ==
  ASSUME NEW frs, NEW tables, NEW w, NEW K, NEW u, NEW h, NEW more, NEW prn,
         Queries(frs, tables, w, K, u, h, more, prn), NEW new, new = <<h>> \o frs
  PROVE  /\ ReaderSays(new, more, prn)
         /\ \A S : NestedAsked(frs, tables, S) => NestedAsked(new, more, S)
<1>1. /\ Tables(tables, w, K) /\ Tables(more, w, K) /\ Stack(frs, tables)
      /\ u \in Session /\ tables[u] = <<>> /\ more[u] # <<>>
      /\ \A s \in Session : s # u => more[s] = tables[s]
      /\ OutIff(frs, tables, prn) /\ AskedFor(frs, tables)
      /\ Fresh(h, more[u]) /\ h.session = u /\ h \in GoodFrames(Session)
  BY DEF Queries, ReaderSays, Fresh
<1>2. more[u] \in Seq(Row)
  BY <1>1, SessionTable
<1>3. /\ FrameFits(h, more[u])
      /\ \A k \in 1 .. Len(more[u]) : \A i : ~ ReadIn(h, more[u], k, i) /\ ~ CameOutOf(h, more[u], k, i)
  BY <1>1, <1>2, FreshFits
<1>4. /\ Stack(new, more) /\ new # <<>> /\ new[1] = h
      /\ frs # <<>> => new[Len(new)].session = frs[Len(frs)].session
      /\ frs = <<>> => new[Len(new)].session = u
      /\ \A t \in Session : t # u => \A k, i :
           /\ IsRead(new, more, t, k, i) <=> IsRead(frs, tables, t, k, i)
           /\ IsOut(new, more, t, k, i) <=> IsOut(frs, tables, t, k, i)
  <2>1. /\ Stack(frs, tables) /\ h \in GoodFrames(Session)
        /\ \A s \in Session : s # h.session => more[s] = tables[s]
        /\ FrameFits(h, more[h.session])
        /\ frs # <<>> => /\ StandsAt(frs[1], tables[frs[1].session], h.session)
                         /\ frs[1].session < h.session
    BY <1>1, <1>3 DEF Queries
  <2>2. OnFrames(frs, new, tables, more, h)
    BY <2>1, StackPush
  <2> QED
    BY <1>1, <2>2 DEF OnFrames
<1>5. \A k \in 1 .. Len(more[u]) : \A i : ~ IsRead(new, more, u, k, i) /\ ~ IsOut(new, more, u, k, i)
  <2> SUFFICES ASSUME NEW k \in 1 .. Len(more[u]), NEW i
               PROVE  ~ IsRead(new, more, u, k, i) /\ ~ IsOut(new, more, u, k, i)
    OBVIOUS
  <2>1. Stack(new, more) /\ new # <<>> /\ new[1] = h /\ new[1].session = u
    BY <1>1, <1>4
  <2>2. ~ ReadIn(h, more[u], k, i) /\ ~ CameOutOf(h, more[u], k, i)
    BY <1>3
  <2>3. /\ IsRead(new, more, new[1].session, k, i) <=> ReadIn(new[1], more[new[1].session], k, i)
        /\ IsOut(new, more, new[1].session, k, i) <=> CameOutOf(new[1], more[new[1].session], k, i)
    BY <2>1, TopOnly
  <2> QED
    BY <2>1, <2>2, <2>3
<1>6. OutIff(new, more, prn)
  <2> SUFFICES ASSUME NEW t \in Session, NEW k, NEW i, IsPlace(more[t], k, i)
               PROVE  Came(more, prn, t, <<k, i>>, Len(prn)) <=> IsOut(new, more, t, k, i)
    BY DEF OutIff
  <2>1. CASE t = u
    <3>1. \A n \in 1 .. Len(prn) : prn[n] # Entry(u, more[u], <<k, i>>)
      BY <2>1, NotCame
    <3>2. k \in 1 .. Len(more[u])
      BY <2>1 DEF IsPlace
    <3> QED
      BY <1>5, <2>1, <3>1, <3>2 DEF Came
  <2>2. CASE t # u
    <3>1. more[t] = tables[t]
      BY <1>1, <2>2
    <3>2. Came(tables, prn, t, <<k, i>>, Len(prn)) <=> IsOut(frs, tables, t, k, i)
      BY <1>1, <3>1 DEF OutIff
    <3> QED
      BY <1>4, <2>2, <3>1, <3>2 DEF Came
  <2> QED
    BY <2>1, <2>2
<1>7. AskedFor(new, more)
  <2> SUFFICES ASSUME NEW v \in Session, more[v] # <<>>, v # new[Len(new)].session
               PROVE  /\ v > new[Len(new)].session
                      /\ \E t \in Session : \E k, i \in Nat :
                           At(more[t], k, i, v) /\ IsRead(new, more, t, k, i - 1)
    BY DEF AskedFor
  <2>1. frs # <<>>
    <3>1. ASSUME frs = <<>> PROVE FALSE
      <4>1. \A s \in Session : tables[s] = <<>>
        BY <3>1 DEF Queries
      <4>2. v # u
        BY <1>4, <3>1
      <4> QED
        BY <1>1, <4>1, <4>2
    <3> QED
      BY <3>1
  <2>2. new[Len(new)].session = frs[Len(frs)].session
    BY <1>4, <2>1
  <2>3. ASSUME NEW t \in Session, NEW k \in Nat, NEW i \in Nat,
               At(tables[t], k, i, v), IsRead(frs, tables, t, k, i - 1)
        PROVE  At(more[t], k, i, v) /\ IsRead(new, more, t, k, i - 1)
    <3>1. t # u
      BY <1>1, <2>3, EmptySeq DEF At
    <3> QED
      BY <1>1, <1>4, <2>3, <3>1
  <2>4. CASE v # u
    <3>1. tables[v] # <<>>
      BY <1>1, <2>4
    <3>2. /\ v > frs[Len(frs)].session
          /\ \E t \in Session : \E k, i \in Nat :
               At(tables[t], k, i, v) /\ IsRead(frs, tables, t, k, i - 1)
      BY <1>1, <2>1, <2>2, <3>1 DEF AskedFor
    <3> QED
      BY <2>2, <2>3, <3>2
  <2>5. CASE v = u
    <3> DEFINE f == frs[1]
               s == f.session
               o == tables[s][f.row].output
               p == Pos(f, o)
    <3>1. f.busy /\ f.row \in 1 .. Len(tables[s]) /\ p \in 1 .. Len(o) /\ At(tables[s], f.row, p + 1, u)
          /\ s < u
      BY <2>1 DEF Queries, StandsAt
    <3>2. s \in Session /\ s \in Nat /\ frs[Len(frs)].session \in Nat
          /\ frs[Len(frs)].session <= s
      <4>1. Len(frs) \in 1 .. Len(frs) /\ 1 \in 1 .. Len(frs)
            /\ (\A a \in 1 .. Len(frs) : frs[a].session \in Nat) /\ s \in Session
        BY <1>1, <2>1, StackIs
      <4>2. frs[Len(frs)].session <= s
        BY <1>1, <2>1, StackIs
      <4> QED
        BY <4>1, <4>2
    <3>3. p + 1 \in Nat /\ (p + 1) - 1 = p /\ f.row \in Nat
      <4>1. PICK q : q = p /\ q \in 1 .. Len(o)
        BY <3>1
      <4>2. q + 1 \in Nat /\ (q + 1) - 1 = q
        BY <4>1
      <4>3. PICK r : r = f.row /\ r \in 1 .. Len(tables[s])
        BY <3>1
      <4>4. r \in Nat
        BY <4>3
      <4> HIDE DEF f, p
      <4> QED
        BY <4>1, <4>2, <4>3, <4>4
    <3>4. ReadIn(f, tables[s], f.row, p)
      <4>1. p <= p
        BY <3>1
      <4> QED
        BY <4>1 DEF ReadIn
    <3>5. IsRead(frs, tables, s, f.row, p)
      BY <1>1, <2>1, <3>4, TopOnly
    <3>6. At(more[s], f.row, p + 1, u) /\ IsRead(new, more, s, f.row, (p + 1) - 1)
      BY <2>3, <2>5, <3>1, <3>2, <3>3, <3>5
    <3>7. u > frs[Len(frs)].session
      BY <1>1, <3>1, <3>2, SessionAssumption
    <3> QED
      BY <2>2, <2>5, <3>2, <3>3, <3>6, <3>7
  <2> QED
    BY <2>4, <2>5
<1>8. ASSUME NEW S, NestedAsked(frs, tables, S) PROVE NestedAsked(new, more, S)
  <2> SUFFICES ASSUME NEW s \in Session, NEW k \in 1 .. Len(more[s]),
                      NEW i \in 1 .. Len(more[s][k].output),
                      more[s][k].command, more[s][k].output[i] = Nested,
                      IsRead(new, more, s, k, i)
               PROVE  more[s][k].output[i + 1] \in S
    BY DEF NestedAsked
  <2>1. s # u
    BY <1>5
  <2>2. more[s] = tables[s] /\ IsRead(frs, tables, s, k, i)
    BY <1>1, <1>4, <2>1
  <2> QED
    BY <1>8, <2>2 DEF NestedAsked
<1> QED
  BY <1>4, <1>6, <1>7, <1>8, PushKeepsPromises DEF ReaderSays

----------------------------------------------------------------------------
(* The database under the fetch.                                           *)

InRecord(s, k, i, x) == At(rows[s], k, i, x) \/ At(fetched[s], k, i, x)

OneRecord ==
  \A x, k, i, l, j : \A s, t \in Session :
    (IsText(x) \/ x \in Session) /\ InRecord(s, k, i, x) /\ InRecord(t, l, j, x) =>
      s = t /\ k = l /\ i = j

GoodRecord ==
  /\ rows \in [Session -> Seq(Row)] /\ fetched \in [Session -> Seq(Row)]
  /\ \A s \in Session : /\ GoodTable(s, rows[s], written, Announced)
                        /\ GoodTable(s, fetched[s], written, Announced)
  /\ OneRecord

LEMMA GoodTables ==
  ASSUME GoodRecord
  PROVE  /\ Tables(fetched, written, Announced)
         /\ \A s \in Session : Tables([fetched EXCEPT ![s] = rows[s]], written, Announced)
<1>1. Tables(fetched, written, Announced)
  <2>1. OnePlace(fetched)
    BY DEF GoodRecord, OneRecord, InRecord, OnePlace
  <2> QED
    BY <2>1 DEF GoodRecord, Tables
<1>2. ASSUME NEW s \in Session
      PROVE  Tables([fetched EXCEPT ![s] = rows[s]], written, Announced)
  <2> DEFINE more == [fetched EXCEPT ![s] = rows[s]]
  <2>1. more \in [Session -> Seq(Row)] /\ \A t \in Session : more[t] = IF t = s THEN rows[s] ELSE fetched[t]
    BY DEF GoodRecord
  <2> HIDE DEF more
  <2>2. \A t \in Session : GoodTable(t, more[t], written, Announced)
    BY <2>1 DEF GoodRecord
  <2>3. \A t \in Session : \A k, i, x : At(more[t], k, i, x) => InRecord(t, k, i, x)
    BY <2>1 DEF InRecord
  <2>4. ASSUME NEW x, NEW k, NEW i, NEW l, NEW j, NEW t \in Session, NEW v \in Session,
               IsText(x) \/ x \in Session, At(more[t], k, i, x), At(more[v], l, j, x)
        PROVE  t = v /\ k = l /\ i = j
    <3>1. InRecord(t, k, i, x) /\ InRecord(v, l, j, x)
      BY <2>3, <2>4
    <3> QED
      BY <2>4, <3>1 DEF GoodRecord, OneRecord
  <2>5. OnePlace(more)
    BY <2>4 DEF OnePlace
  <2>6. Tables(more, written, Announced)
    BY <2>1, <2>2, <2>5 DEF Tables
  <2> QED
    BY <2>6 DEF more
<1> QED
  BY <1>1, <1>2

\* What is good stays so as more is recorded.
LEMMA GoodStays ==
  ASSUME NEW s, NEW table \in Seq(Row), NEW w \in Nat, NEW v \in Nat, w <= v, NEW K, NEW J, K \subseteq J,
         GoodTable(s, table, w, K)
  PROVE  GoodTable(s, table, v, J)
<1> SUFFICES ASSUME NEW k \in 1 .. Len(table), NEW i \in 1 .. Len(table[k].output)
             PROVE  LET o == table[k].output
                    IN  /\ o[i] # Nul
                        /\ IsText(o[i]) => o[i] <= v /\ i > 1 /\ o[i - 1] \in Marker
                        /\ o[i] \in Session => o[i] \in J /\ o[i] > s /\ i > 1 /\ o[i - 1] = Nested
  BY DEF GoodTable, GoodOutput
<1> DEFINE o == table[k].output
<1>1. /\ o[i] # Nul
      /\ IsText(o[i]) => o[i] <= w /\ i > 1 /\ o[i - 1] \in Marker
      /\ o[i] \in Session => o[i] \in K /\ o[i] > s /\ i > 1 /\ o[i - 1] = Nested
  BY DEF GoodTable, GoodOutput
<1>2. IsText(o[i]) => o[i] \in Nat
  BY DEF IsText
<1> HIDE DEF o
<1>3. IsText(o[i]) => o[i] <= v
  BY <1>1, <1>2
<1>4. o[i] \in Session => o[i] \in J
  BY <1>1
<1> QED
  BY <1>1, <1>3, <1>4 DEF o

\* At most one text or indicator y is new, and it is recorded in one place.
GrowsBy(y, u, a, b) ==
  /\ GoodRecord /\ rows' \in [Session -> Seq(Row)] /\ UNCHANGED fetched
  /\ written \in Nat /\ written' \in Nat /\ written <= written' /\ Announced \subseteq Announced'
  /\ \A s \in Session : GoodTable(s, rows'[s], written', Announced')
  /\ \A s \in Session : \A k, i : ~ InRecord(s, k, i, y)
  /\ \A s \in Session : \A k, i, x :
       (IsText(x) \/ x \in Session) /\ At(rows'[s], k, i, x) =>
         At(rows[s], k, i, x) \/ (x = y /\ s = u /\ k = a /\ i = b)

LEMMA RecordGrows ==
  ASSUME NEW y, NEW u, NEW a, NEW b, GrowsBy(y, u, a, b)
  PROVE  GoodRecord'
<1> USE DEF GrowsBy
<1>1. \A s \in Session : GoodTable(s, fetched'[s], written', Announced')
  <2> SUFFICES ASSUME NEW s \in Session PROVE GoodTable(s, fetched[s], written', Announced')
    OBVIOUS
  <2>1. fetched[s] \in Seq(Row) /\ GoodTable(s, fetched[s], written, Announced)
    BY DEF GoodRecord
  <2>2. PICK v, J : v = written' /\ J = Announced'
    OBVIOUS
  <2>3. GoodTable(s, fetched[s], v, J)
    BY <2>1, <2>2, GoodStays
  <2> QED
    BY <2>2, <2>3
<1>2. ASSUME NEW s \in Session, NEW k, NEW i, NEW x, IsText(x) \/ x \in Session, InRecord(s, k, i, x)'
      PROVE  InRecord(s, k, i, x) \/ (x = y /\ s = u /\ k = a /\ i = b)
  BY <1>2 DEF InRecord, At
<1>3. ASSUME NEW x, NEW k, NEW i, NEW l, NEW j, NEW s \in Session, NEW t \in Session,
             IsText(x) \/ x \in Session, InRecord(s, k, i, x)', InRecord(t, l, j, x)'
      PROVE  s = t /\ k = l /\ i = j
  <2>1. CASE x = y
    BY <1>2, <1>3, <2>1
  <2>2. CASE x # y
    <3>1. InRecord(s, k, i, x) /\ InRecord(t, l, j, x)
      BY <1>2, <1>3, <2>2
    <3> QED
      BY <1>3, <3>1 DEF GoodRecord, OneRecord
  <2> QED
    BY <2>1, <2>2
<1>4. OneRecord'
  BY <1>3 DEF OneRecord, IsText
<1> QED
  BY <1>1, <1>4 DEF GoodRecord

----------------------------------------------------------------------------
(* The row an UPDATE changes.                                              *)

LEMMA OutputGrows ==
  ASSUME NEW o \in Outputs, NEW a, NEW b, NEW s, NEW w, NEW K, GoodOutput(s, o, w, K),
         \/ a \in Marker /\ IsText(b) /\ b <= w
         \/ a = Nested /\ b \in K /\ b \in Session /\ b > s
  PROVE  /\ GoodOutput(s, o \o <<a, b>>, w, K)
         /\ \A i \in 1 .. Len(o \o <<a, b>>) :
              IsText((o \o <<a, b>>)[i]) \/ (o \o <<a, b>>)[i] \in Session =>
                \/ i \in 1 .. Len(o) /\ (o \o <<a, b>>)[i] = o[i]
                \/ i = Len(o) + 2 /\ (o \o <<a, b>>)[i] = b
<1> DEFINE t == <<a, b>>
           m == Len(o)
           c == o \o t
<1>1. m \in Nat /\ o \in Seq(Token)
  BY OutputBytes DEF Outputs
<1>2. t \in Seq({a, b}) /\ Len(t) = 2 /\ t[1] = a /\ t[2] = b
  OBVIOUS
<1> HIDE DEF t
<1>3. Len(c) = m + 2 /\ \A i \in 1 .. m + 2 : c[i] = IF i <= m THEN o[i] ELSE t[i - m]
  <2>1. o \in Seq(Token \cup {a, b}) /\ t \in Seq(Token \cup {a, b})
    BY <1>1, <1>2, SeqMonotonic
  <2>2. /\ Len(c) = Len(o) + Len(t)
        /\ \A i \in 1 .. Len(o) + Len(t) : c[i] = IF i <= Len(o) THEN o[i] ELSE t[i - Len(o)]
    BY <2>1, ConcatProperties
  <2> QED
    BY <1>2, <2>2
<1> HIDE DEF c, m
<1>4. \A i \in 1 .. m : c[i] = o[i]
  BY <1>1, <1>3
<1>5. c[m + 1] = a /\ c[m + 2] = b
  <2>1. m + 1 \in 1 .. m + 2 /\ ~ (m + 1 <= m) /\ (m + 1) - m = 1
    BY <1>1
  <2>2. m + 2 \in 1 .. m + 2 /\ ~ (m + 2 <= m) /\ (m + 2) - m = 2
    BY <1>1
  <2> QED
    BY <1>2, <1>3, <2>1, <2>2
<1>6. \A i \in 1 .. m + 2 : i \in 1 .. m \/ i = m + 1 \/ i = m + 2
  BY <1>1
<1>7. /\ a # Nul /\ ~ IsText(a) /\ a \notin Session
      /\ b # Nul /\ (IsText(b) => b <= w /\ a \in Marker)
      /\ (b \in Session => b \in K /\ b > s /\ a = Nested)
  BY Tokens
<1>8. GoodOutput(s, c, w, K)
  <2> SUFFICES ASSUME NEW i \in 1 .. m + 2
               PROVE  /\ c[i] # Nul
                      /\ IsText(c[i]) => c[i] <= w /\ i > 1 /\ c[i - 1] \in Marker
                      /\ c[i] \in Session => c[i] \in K /\ c[i] > s /\ i > 1 /\ c[i - 1] = Nested
    BY <1>3 DEF GoodOutput
  <2>1. CASE i \in 1 .. m
    <3>1. /\ o[i] # Nul
          /\ IsText(o[i]) => o[i] <= w /\ i > 1 /\ o[i - 1] \in Marker
          /\ o[i] \in Session => o[i] \in K /\ o[i] > s /\ i > 1 /\ o[i - 1] = Nested
      BY <2>1 DEF GoodOutput, m
    <3>2. c[i] = o[i] /\ (i > 1 => c[i - 1] = o[i - 1])
      <4>1. i > 1 => i - 1 \in 1 .. m
        BY <1>1, <2>1
      <4> QED
        BY <1>4, <2>1, <4>1
    <3> QED
      BY <3>1, <3>2
  <2>2. CASE i = m + 1
    BY <1>5, <1>7, <2>2
  <2>3. CASE i = m + 2
    <3>1. i - 1 = m + 1 /\ i > 1
      BY <1>1, <2>3
    <3> QED
      BY <1>5, <1>7, <2>3, <3>1
  <2> QED
    BY <1>6, <2>1, <2>2, <2>3
<1>9. \A i \in 1 .. Len(c) : IsText(c[i]) \/ c[i] \in Session =>
        (i \in 1 .. m /\ c[i] = o[i]) \/ (i = m + 2 /\ c[i] = b)
  BY <1>3, <1>4, <1>5, <1>6, <1>7
<1> QED
  BY <1>8, <1>9 DEF c, m, t

\* Where the new text or indicator b stands.
LEMMA TableGrows ==
  ASSUME NEW table \in Seq(Row), table # <<>>, NEW a, NEW b, NEW s, NEW w, NEW K,
         GoodTable(s, table, w, K),
         \/ a \in Marker /\ IsText(b) /\ b <= w
         \/ a = Nested /\ b \in K /\ b \in Session /\ b > s,
         NEW new, new = WithOutput(table, <<a, b>>)
  PROVE  /\ GoodTable(s, new, w, K)
         /\ \A k, i, x : (IsText(x) \/ x \in Session) /\ At(new, k, i, x) =>
              \/ At(table, k, i, x)
              \/ x = b /\ k = Len(table) /\ i = Len(table[Len(table)].output) + 2
<1> DEFINE n == Len(table)
           o == table[n].output
           c == o \o <<a, b>>
<1>1. n \in Nat /\ n \in 1 .. n
  BY EmptySeq
<1>2. o \in Outputs /\ GoodOutput(s, o, w, K)
  BY <1>1, RowsOfTable DEF GoodTable
<1>3. /\ GoodOutput(s, c, w, K)
      /\ \A i \in 1 .. Len(c) : IsText(c[i]) \/ c[i] \in Session =>
           (i \in 1 .. Len(o) /\ c[i] = o[i]) \/ (i = Len(o) + 2 /\ c[i] = b)
  <2>1. GoodOutput(s, c, w, K)
    BY <1>2, OutputGrows
  <2>2. \A i \in 1 .. Len(c) : IsText(c[i]) \/ c[i] \in Session =>
           (i \in 1 .. Len(o) /\ c[i] = o[i]) \/ (i = Len(o) + 2 /\ c[i] = b)
    BY <1>2, OutputGrows
  <2> QED
    BY <2>1, <2>2
<1>4. /\ Len(new) = n /\ new[n].output = c /\ \A k \in 1 .. n : k # n => new[k] = table[k]
  <2>1. new = [table EXCEPT ![n] = [table[n] EXCEPT !.output = c]]
    BY DEF WithOutput
  <2>2. table \in [1 .. n -> Row] /\ DOMAIN table = 1 .. n
    BY LenProperties
  <2>3. [table[n] EXCEPT !.output = c].output = c
    <3>1. table[n] \in Row
      BY <1>1, <2>2
    <3> HIDE DEF c
    <3> QED
      BY <3>1 DEF Row
  <2> DEFINE r == [table[n] EXCEPT !.output = c]
  <2>4. new = [table EXCEPT ![n] = r]
    BY <2>1
  <2> HIDE DEF r, c
  <2>5. Len(new) = Len(table)
    <3>1. DOMAIN new = 1 .. n
      BY <2>2, <2>4
    <3>2. new \in Seq(Row \cup {r})
      <4>1. new \in [1 .. n -> Row \cup {r}]
        BY <2>2, <2>4
      <4> QED
        BY <1>1, <4>1, SeqDef
    <3>3. DOMAIN new = 1 .. Len(new) /\ Len(new) \in Nat
      BY <3>2, LenProperties
    <3> QED
      BY <1>1, <3>1, <3>3
  <2>6. new[n] = r /\ \A k \in 1 .. n : k # n => new[k] = table[k]
    BY <1>1, <2>2, <2>4
  <2> QED
    BY <2>3, <2>5, <2>6 DEF r
<1> HIDE DEF c
<1>5. GoodTable(s, new, w, K)
  <2> SUFFICES ASSUME NEW k \in 1 .. n PROVE GoodOutput(s, new[k].output, w, K)
    BY <1>4 DEF GoodTable
  <2>1. CASE k = n
    BY <1>3, <1>4, <2>1
  <2>2. CASE k # n
    BY <1>4, <2>2 DEF GoodTable
  <2> QED
    BY <2>1, <2>2
<1>6. ASSUME NEW k, NEW i, NEW x, IsText(x) \/ x \in Session, At(new, k, i, x)
      PROVE  At(table, k, i, x) \/ (x = b /\ k = n /\ i = Len(o) + 2)
  <2>1. k \in 1 .. n /\ i \in 1 .. Len(new[k].output) /\ new[k].output[i] = x
    BY <1>4, <1>6 DEF At
  <2>2. CASE k = n
    BY <1>3, <1>4, <1>6, <2>1, <2>2 DEF At
  <2>3. CASE k # n
    BY <1>4, <2>1, <2>3 DEF At
  <2> QED
    BY <2>2, <2>3
<1> QED
  BY <1>5, <1>6

LEMMA FinishGrows ==
  ASSUME NEW table \in Seq(Row), table # <<>>, NEW s, NEW w, NEW K, GoodTable(s, table, w, K),
         NEW command \in BOOLEAN, NEW new, new = Append(Finished(table, command), NewRow)
  PROVE  /\ GoodTable(s, new, w, K)
         /\ \A k, i, x : At(new, k, i, x) => At(table, k, i, x)
<1> DEFINE n == Len(table)
           r == [table[n] EXCEPT !.command = command]
           mid == Finished(table, command)
<1>1. n \in Nat /\ n \in 1 .. n
  BY EmptySeq
<1>2. table[n] \in Row
  BY <1>1, ElementOfSeq
<1>3. r \in Row /\ r.output = table[n].output
  BY <1>2 DEF Row
<1>4. mid = [table EXCEPT ![n] = r]
  BY DEF Finished
<1> HIDE DEF r, mid
<1>5. mid \in Seq(Row) /\ Len(mid) = n
  BY <1>1, <1>3, <1>4, ExceptSeq
<1>6. \A k \in 1 .. n : mid[k].output = table[k].output
  <2>1. DOMAIN table = 1 .. n
    BY LenProperties
  <2> QED
    BY <1>1, <1>3, <1>4, <2>1
<1>7. NewRow.output = <<>> /\ Len(NewRow.output) = 0 /\ NewRow \in Row
  <2>1. NewRow \in RowIn({})
    BY NewRowOK
  <2>2. NewRow.output = <<>> /\ Len(NewRow.output) = 0
    BY EmptySeq DEF NewRow
  <2> QED
    BY <2>1, <2>2, OutputsAreOutputs
<1>8. new = Append(mid, NewRow)
  BY DEF mid
<1>9. /\ Len(new) = n + 1 /\ new[n + 1] = NewRow
      /\ \A k \in 1 .. n : new[k] = mid[k]
  BY <1>5, <1>7, <1>8, AppendProperties
<1>10. \A k \in 1 .. n + 1 : k \in 1 .. n \/ k = n + 1
  BY <1>1
<1>11. GoodTable(s, new, w, K)
  <2> SUFFICES ASSUME NEW k \in 1 .. n + 1 PROVE GoodOutput(s, new[k].output, w, K)
    BY <1>9 DEF GoodTable
  <2>1. CASE k \in 1 .. n
    BY <1>6, <1>9, <2>1 DEF GoodTable
  <2>2. CASE k = n + 1
    BY <1>7, <1>9, <2>2 DEF GoodOutput
  <2> QED
    BY <1>10, <2>1, <2>2
<1>12. ASSUME NEW k, NEW i, NEW x, At(new, k, i, x) PROVE At(table, k, i, x)
  <2>1. k \in 1 .. n + 1 /\ i \in 1 .. Len(new[k].output) /\ new[k].output[i] = x
    BY <1>9, <1>12 DEF At
  <2>2. CASE k \in 1 .. n
    BY <1>6, <1>9, <2>1, <2>2 DEF At
  <2>3. CASE k = n + 1
    BY <1>7, <1>9, <2>1, <2>3
  <2> QED
    BY <1>10, <2>1, <2>2, <2>3
<1> QED
  BY <1>11, <1>12

\* A table nobody has written to.
LEMMA NothingIn ==
  /\ \A s, w, K : GoodTable(s, <<>>, w, K) /\ GoodTable(s, <<NewRow>>, w, K)
  /\ \A k, i, x : ~ At(<<>>, k, i, x) /\ ~ At(<<NewRow>>, k, i, x)
<1>1. NewRow.output = <<>> /\ Len(NewRow.output) = 0
  BY EmptySeq DEF NewRow
<1> DEFINE one == <<NewRow>>
<1>2. Len(one) = 1 /\ one[1] = NewRow
  OBVIOUS
<1> HIDE DEF one
<1>3. \A s, w, K : GoodTable(s, <<>>, w, K)
  BY EmptySeq DEF GoodTable
<1>4. \A s, w, K : GoodTable(s, one, w, K)
  BY <1>1, <1>2 DEF GoodTable, GoodOutput
<1>5. \A k, i, x : ~ At(<<>>, k, i, x)
  BY EmptySeq DEF At
<1>6. \A k, i, x : ~ At(one, k, i, x)
  BY <1>1, <1>2 DEF At
<1> QED
  BY <1>3, <1>4, <1>5, <1>6 DEF one

LEMMA NotInRecord ==
  ASSUME GoodRecord, written \in Nat, NEW y,
         y = Nul \/ (IsText(y) /\ y > written) \/ (y \in Session /\ y \notin Announced),
         NEW s \in Session, NEW k, NEW i
  PROVE  ~ InRecord(s, k, i, y)
<1>1. ASSUME NEW table, GoodTable(s, table, written, Announced), At(table, k, i, y) PROVE FALSE
  <2>1. GoodOutput(s, table[k].output, written, Announced) /\ i \in 1 .. Len(table[k].output)
        /\ table[k].output[i] = y
    BY <1>1 DEF GoodTable, At
  <2>2. y # Nul /\ (IsText(y) => y <= written) /\ (y \in Session => y \in Announced)
    BY <2>1 DEF GoodOutput
  <2>3. IsText(y) => y \in Nat
    BY DEF IsText
  <2>4. ~ (IsText(y) /\ y > written)
    BY <2>2, <2>3
  <2> QED
    BY <2>2, <2>4
<1> QED
  BY <1>1 DEF InRecord, GoodRecord

LEMMA RowsAreRows ==
  ASSUME FetchInv
  PROVE  rows \in [Session -> Seq(Row)] /\ written \in Nat /\ Announced \subseteq Session
         /\ created \subseteq Announced
<1>1. \A t \in Seq(RowIn(Announced)) : t \in Seq(Row)
  BY OutputsAreOutputs, SeqMonotonic DEF FetchInv, RecordedOK
<1>2. rows \in [Session -> Seq(Row)]
  BY <1>1 DEF FetchInv, RecordedOK
<1>3. written \in Nat
  BY BoundAssumption DEF FetchInv, RecordedOK
<1>4. Announced \subseteq Session /\ created \subseteq Announced
  BY DEF FetchInv, RecordedOK, Announced
<1> QED
  BY <1>2, <1>3, <1>4

\* One table changes, and gets at most one text or indicator y.
TableGrowsBy(s, table, y, a, b) ==
  /\ rows' = [rows EXCEPT ![s] = table] /\ UNCHANGED fetched
  /\ written <= written' /\ Announced \subseteq Announced'
  /\ GoodTable(s, table, written', Announced')
  /\ y = Nul \/ (IsText(y) /\ y > written) \/ (y \in Session /\ y \notin Announced)
  /\ \A k, i, x : (IsText(x) \/ x \in Session) /\ At(table, k, i, x) =>
       At(rows[s], k, i, x) \/ (x = y /\ k = a /\ i = b)

LEMMA OneTableGrows ==
  ASSUME FetchInv, FetchInv', GoodRecord, NEW s \in Session, NEW table, NEW y, NEW a, NEW b,
         TableGrowsBy(s, table, y, a, b)
  PROVE  GoodRecord'
<1> USE DEF TableGrowsBy
<1>1. rows \in [Session -> Seq(Row)] /\ written \in Nat
  BY RowsAreRows
<1>2. rows' \in [Session -> Seq(Row)] /\ written' \in Nat
  <2>1. PICK r, v : r = rows' /\ v = written'
    OBVIOUS
  <2>2. \A t \in Seq(RowIn(Announced')) : t \in Seq(Row)
    <3>1. PICK J : J = Announced'
      OBVIOUS
    <3>2. J \subseteq Session
      BY <3>1 DEF FetchInv, RecordedOK
    <3>3. \A t \in Seq(RowIn(J)) : t \in Seq(Row)
      BY <3>2, OutputsAreOutputs, SeqMonotonic
    <3> QED
      BY <3>1, <3>3
  <2>3. rows' \in [Session -> Seq(RowIn(Announced'))] /\ written' \in 0 .. MaxWrites
    BY DEF FetchInv, RecordedOK
  <2> QED
    BY <2>2, <2>3, BoundAssumption
<1>3. \A t \in Session : rows'[t] = IF t = s THEN table ELSE rows[t]
  BY <1>1
<1>4. \A t \in Session : GoodTable(t, rows'[t], written', Announced')
  <2> SUFFICES ASSUME NEW t \in Session PROVE GoodTable(t, rows'[t], written', Announced')
    OBVIOUS
  <2>1. PICK v, J : v = written' /\ J = Announced'
    OBVIOUS
  <2>2. CASE t = s
    BY <1>3, <2>2
  <2>3. CASE t # s
    <3>1. rows[t] \in Seq(Row) /\ GoodTable(t, rows[t], written, Announced)
      BY <1>1 DEF GoodRecord
    <3>2. GoodTable(t, rows[t], v, J)
      BY <1>1, <1>2, <2>1, <3>1, GoodStays
    <3> QED
      BY <1>3, <2>1, <2>3, <3>2
  <2> QED
    BY <2>2, <2>3
<1>5. \A t \in Session : \A k, i : ~ InRecord(t, k, i, y)
  BY <1>1, NotInRecord
<1>6. \A t \in Session : \A k, i, x :
        (IsText(x) \/ x \in Session) /\ At(rows'[t], k, i, x) =>
          At(rows[t], k, i, x) \/ (x = y /\ t = s /\ k = a /\ i = b)
  BY <1>3
<1>7. GrowsBy(y, s, a, b)
  BY <1>1, <1>2, <1>4, <1>5, <1>6 DEF GrowsBy
<1> QED
  BY <1>7, RecordGrows

----------------------------------------------------------------------------
(* Whatever nhid records, or a remove deletes, the record stays good. *)

LEMMA RecordingKeepsRecord ==
  ASSUME FetchInv, FetchInv', GoodRecord, Recording
  PROVE  GoodRecord'
<1>1. rows \in [Session -> Seq(Row)] /\ written \in Nat /\ Announced \subseteq Session
      /\ created \subseteq Announced
  BY RowsAreRows
<1>2. ASSUME NEW s \in created
      PROVE  /\ s \in Session /\ rows[s] \in Seq(Row) /\ rows[s] # <<>>
             /\ GoodTable(s, rows[s], written, Announced)
  BY <1>1, <1>2 DEF GoodRecord, FetchInv, RecordedOK
<1>3. ASSUME NEW s \in Session, NEW stream \in {Out, Err}, RecordOutput(s, stream)
      PROVE  GoodRecord'
  <2>1. s \in created /\ written' = written + 1 /\ written < MaxWrites
        /\ rows' = [rows EXCEPT ![s] = WithOutput(rows[s], <<stream, written'>>)]
        /\ UNCHANGED <<created, starting, removed, fetchVars>>
    BY <1>3 DEF RecordOutput, AddOutput
  <2>2. Announced' = Announced /\ UNCHANGED fetched
    BY <2>1 DEF Announced, fetchVars
  <2>3. PICK v : v = written'
    OBVIOUS
  <2>4. v = written + 1 /\ v \in Nat /\ IsText(v) /\ v > written /\ written <= v
    BY <1>1, <2>1, <2>3, BoundAssumption DEF IsText
  <2> DEFINE table == WithOutput(rows[s], <<stream, v>>)
  <2>5. GoodTable(s, rows[s], v, Announced)
    BY <1>2, <1>1, <2>1, <2>4, GoodStays
  <2>6. /\ GoodTable(s, table, v, Announced)
        /\ \A k, i, x : (IsText(x) \/ x \in Session) /\ At(table, k, i, x) =>
             \/ At(rows[s], k, i, x)
             \/ x = v /\ k = Len(rows[s]) /\ i = Len(rows[s][Len(rows[s])].output) + 2
    <3>1. stream \in Marker /\ IsText(v) /\ v <= v
      BY <2>4 DEF Marker
    <3>2. rows[s] \in Seq(Row) /\ rows[s] # <<>>
      BY <1>2, <2>1
    <3>3. GoodTable(s, table, v, Announced)
      BY <2>5, <3>1, <3>2, TableGrows
    <3>4. \A k, i, x : (IsText(x) \/ x \in Session) /\ At(table, k, i, x) =>
             \/ At(rows[s], k, i, x)
             \/ x = v /\ k = Len(rows[s]) /\ i = Len(rows[s][Len(rows[s])].output) + 2
      BY <2>5, <3>1, <3>2, TableGrows
    <3> QED
      BY <3>3, <3>4
  <2>7. rows' = [rows EXCEPT ![s] = table]
    BY <2>1, <2>3
  <2> HIDE DEF table
  <2>8. PICK a, b : a = Len(rows[s]) /\ b = Len(rows[s][Len(rows[s])].output) + 2
    OBVIOUS
  <2>9. GoodTable(s, table, written', Announced') /\ written <= written'
    BY <2>2, <2>3, <2>4, <2>6
  <2>10. \A k, i, x : (IsText(x) \/ x \in Session) /\ At(table, k, i, x) =>
             At(rows[s], k, i, x) \/ (x = v /\ k = a /\ i = b)
    BY <2>6, <2>8
  <2>11. TableGrowsBy(s, table, v, a, b)
    BY <2>2, <2>4, <2>7, <2>9, <2>10 DEF TableGrowsBy
  <2> QED
    BY <2>11, OneTableGrows
<1>4. ASSUME NEW s \in Session, NEW nested \in Session, AnnounceNested(s, nested)
      PROVE  GoodRecord'
  <2>1. s \in created /\ starting = {} /\ starting' = {nested}
        /\ (\A t \in created \cup removed : t < nested)
        /\ rows' = [rows EXCEPT ![s] = WithOutput(rows[s], <<Nested, nested>>)]
        /\ UNCHANGED <<created, written, removed, fetchVars>>
    BY <1>4 DEF AnnounceNested, None, AddOutput
  <2>2. /\ Announced' = Announced \cup {nested} /\ UNCHANGED fetched /\ written' = written
        /\ nested \notin Announced /\ nested > s
    <3>1. nested \in Nat /\ \A t \in created \cup removed : t \in Nat
      BY <1>1, SessionAssumption DEF Announced
    <3> QED
      BY <2>1, <3>1 DEF Announced, fetchVars
  <2> DEFINE table == WithOutput(rows[s], <<Nested, nested>>)
  <2>3. PICK J : J = Announced'
    OBVIOUS
  <2>4. GoodTable(s, rows[s], written, J)
    BY <1>1, <1>2, <2>1, <2>2, <2>3, GoodStays
  <2>5. /\ GoodTable(s, table, written, J)
        /\ \A k, i, x : (IsText(x) \/ x \in Session) /\ At(table, k, i, x) =>
             \/ At(rows[s], k, i, x)
             \/ x = nested /\ k = Len(rows[s]) /\ i = Len(rows[s][Len(rows[s])].output) + 2
    <3>1. nested \in J /\ nested \in Session /\ nested > s
      BY <2>2, <2>3
    <3>2. rows[s] \in Seq(Row) /\ rows[s] # <<>>
      BY <1>2, <2>1
    <3>3. GoodTable(s, table, written, J)
      BY <2>4, <3>1, <3>2, TableGrows
    <3>4. \A k, i, x : (IsText(x) \/ x \in Session) /\ At(table, k, i, x) =>
             \/ At(rows[s], k, i, x)
             \/ x = nested /\ k = Len(rows[s]) /\ i = Len(rows[s][Len(rows[s])].output) + 2
      BY <2>4, <3>1, <3>2, TableGrows
    <3> QED
      BY <3>3, <3>4
  <2>6. rows' = [rows EXCEPT ![s] = table]
    BY <2>1
  <2> HIDE DEF table
  <2>7. PICK a, b : a = Len(rows[s]) /\ b = Len(rows[s][Len(rows[s])].output) + 2
    OBVIOUS
  <2>8. GoodTable(s, table, written', Announced') /\ written <= written'
        /\ Announced \subseteq Announced'
    BY <1>1, <2>2, <2>3, <2>5
  <2>9. \A k, i, x : (IsText(x) \/ x \in Session) /\ At(table, k, i, x) =>
             At(rows[s], k, i, x) \/ (x = nested /\ k = a /\ i = b)
    BY <2>5, <2>7
  <2>10. TableGrowsBy(s, table, nested, a, b)
    BY <2>2, <2>6, <2>8, <2>9 DEF TableGrowsBy
  <2> QED
    BY <2>10, OneTableGrows
<1>5. ASSUME NEW s \in Session, NEW table, rows' = [rows EXCEPT ![s] = table],
             UNCHANGED <<written, fetchVars>>, Announced' = Announced,
             GoodTable(s, table, written, Announced),
             \A k, i, x : At(table, k, i, x) => At(rows[s], k, i, x)
      PROVE  GoodRecord'
  <2>1. GoodTable(s, table, written', Announced') /\ written <= written'
        /\ Announced \subseteq Announced' /\ UNCHANGED fetched
    BY <1>1, <1>5 DEF fetchVars
  <2>2. PICK y : y = Nul
    OBVIOUS
  <2>3. \A k, i, x : (IsText(x) \/ x \in Session) /\ At(table, k, i, x) =>
             At(rows[s], k, i, x) \/ (x = y /\ k = 0 /\ i = 0)
    BY <1>5
  <2>4. TableGrowsBy(s, table, y, 0, 0)
    BY <1>5, <2>1, <2>2, <2>3 DEF TableGrowsBy
  <2> QED
    BY <2>4, OneTableGrows
<1>6. ASSUME NEW s \in Session, NEW command \in BOOLEAN, FinishRow(s, command) PROVE GoodRecord'
  <2>1. s \in created /\ UNCHANGED <<created, written, starting, removed, fetchVars>>
    BY <1>6 DEF FinishRow
  <2>2. PICK table : table = Append(Finished(rows[s], command), NewRow)
    OBVIOUS
  <2>3. GoodTable(s, table, written, Announced)
    BY <1>2, <2>1, <2>2, FinishGrows
  <2>4. \A k, i, x : At(table, k, i, x) => At(rows[s], k, i, x)
    BY <1>2, <2>1, <2>2, FinishGrows
  <2>5. rows' = [rows EXCEPT ![s] = table] /\ Announced' = Announced
    BY <1>6, <2>1, <2>2 DEF FinishRow, Announced
  <2> QED
    BY <1>5, <2>1, <2>3, <2>4, <2>5
<1>7. ASSUME NEW s \in Session, RemoveSession(s) PROVE GoodRecord'
  <2>1. /\ s \in created /\ created' = created \ {s} /\ removed' = removed \cup {s}
        /\ rows' = [rows EXCEPT ![s] = <<>>]
        /\ UNCHANGED <<written, starting, fetchVars>>
    BY <1>7 DEF RemoveSession
  <2>2. Announced' = Announced
    BY <2>1 DEF Announced
  <2>3. PICK table : table = <<>>
    OBVIOUS
  <2>4. GoodTable(s, table, written, Announced) /\ \A k, i, x : ~ At(table, k, i, x)
    BY <2>3, NothingIn
  <2> QED
    BY <1>5, <2>1, <2>2, <2>3, <2>4
<1>8. ASSUME CreateNested PROVE GoodRecord'
  <2>1. /\ starting # {} /\ created' = created \cup starting /\ starting' = {}
        /\ rows' = [s \in Session |-> IF s \in starting THEN <<NewRow>> ELSE rows[s]]
        /\ UNCHANGED <<written, removed, fetchVars>>
    BY <1>8 DEF CreateNested, None
  <2>2. Announced' = Announced /\ UNCHANGED fetched /\ written' = written
    BY <2>1 DEF Announced, fetchVars
  <2>3. PICK table : table = <<NewRow>>
    OBVIOUS
  <2>4. table \in Seq(Row)
    <3>1. NewRow \in Row
      BY NewRowOK, OutputsAreOutputs
    <3> QED
      BY <2>3, <3>1
  <2>5. \A s \in Session : rows'[s] = IF s \in starting THEN table ELSE rows[s]
    BY <2>1, <2>3
  <2>6. rows' \in [Session -> Seq(Row)]
    BY <1>1, <2>1, <2>3, <2>4
  <2>7. \A s, w, K : GoodTable(s, table, w, K)
    BY <2>3, NothingIn
  <2>8. \A k, i, x : ~ At(table, k, i, x)
    BY <2>3, NothingIn
  <2>9. \A s \in Session : GoodTable(s, rows'[s], written', Announced')
    BY <2>2, <2>5, <2>7 DEF GoodRecord
  <2>10. \A s \in Session : \A k, i : ~ InRecord(s, k, i, Nul)
    BY <1>1, NotInRecord
  <2>11. \A s \in Session : \A k, i, x :
           (IsText(x) \/ x \in Session) /\ At(rows'[s], k, i, x) =>
             At(rows[s], k, i, x) \/ (x = Nul /\ s = 0 /\ k = 0 /\ i = 0)
    BY <2>5, <2>8
  <2>12. written <= written' /\ Announced \subseteq Announced' /\ written' \in Nat
    BY <1>1, <2>2
  <2>13. GrowsBy(Nul, 0, 0, 0)
    BY <1>1, <2>2, <2>6, <2>9, <2>10, <2>11, <2>12 DEF GrowsBy
  <2> QED
    BY <2>13, RecordGrows
<1> QED
  BY <1>3, <1>4, <1>6, <1>7, <1>8 DEF Recording

LEMMA SessionFrames == ASSUME NEW K, K \subseteq Session PROVE GoodFrames(K) \subseteq GoodFrames(Session)
BY OutputsGrow DEF GoodFrames, FrameIn

LEMMA FirstOf ==
  ASSUME NEW S, NEW T, NEW g, NEW below \in Seq(T), <<g>> \o below \in Seq(S)
  PROVE  g \in S
<1> DEFINE one == <<g>>
<1>1. one \in Seq(T \cup {g}) /\ Len(one) = 1 /\ one[1] = g
  OBVIOUS
<1> HIDE DEF one
<1>2. below \in Seq(T \cup {g}) /\ Len(below) \in Nat
  BY SeqMonotonic, LenProperties
<1>3. Len(one \o below) = 1 + Len(below) /\ (one \o below)[1] = g
  <2>1. /\ Len(one \o below) = Len(one) + Len(below)
        /\ \A i \in 1 .. Len(one) + Len(below) :
             (one \o below)[i] = IF i <= Len(one) THEN one[i] ELSE below[i - Len(one)]
    BY <1>1, <1>2, ConcatProperties
  <2>2. 1 \in 1 .. Len(one) + Len(below) /\ 1 <= Len(one)
    BY <1>1, <1>2
  <2> QED
    BY <1>1, <2>1, <2>2
<1>4. 1 \in 1 .. Len(one \o below) /\ one \o below \in Seq(S)
  BY <1>2, <1>3 DEF one
<1> QED
  BY <1>3, <1>4, ElementOfSeq

\* What a step of the innermost frame lets out.
LEMMA HoldingLetsNothingOut ==
  ASSUME NEW f, NEW g, NEW table, Holds(f, g, table)
  PROVE  LetsOut(f, g, table, {})
BY DEF Holds, LetsOut

LEMMA FlushingLetsPendingOut ==
  ASSUME NEW f \in GoodFrames(Session), NEW table \in Seq(Row), FrameFits(f, table), f.busy,
         NEW s, NEW w, NEW K, GoodTable(s, table, w, K),
         NEW g, Flushes(f, g, table)
  PROVE  LetsOut(f, g, table, PendingPlaces(f, table))
<1> DEFINE P == PendingPlaces(f, table)
           o == table[f.row].output
           p == Pos(f, o)
<1>1. /\ f.row \in 1 .. Len(table) /\ o \in Outputs /\ Len(o) \in Nat /\ p \in 0 .. Len(o)
      /\ f.row \in Nat
  BY BusyFrame, FrameTypes
<1>2. GoodOutput(s, o, w, K)
  BY <1>1 DEF GoodTable
<1>3. \A k, i : <<k, i>> \in P <=> i \in Nat /\ PendingIn(f, table, k, i)
  BY ArePending
<1> HIDE DEF P
<1>4. \A k, i : PendingIn(f, table, k, i) => k = f.row /\ PendingAt(o, p, i) /\ i \in 1 .. p
  BY DEF PendingIn, PendingAt
<1>5. ASSUME NEW k, NEW i, IsPlace(table, k, i)
      PROVE  CameOutOf(g, table, k, i) <=> CameOutOf(f, table, k, i) \/ <<k, i>> \in P
  <2>1. i \in Nat
    BY <1>5, PlaceNumbers
  <2> QED
    BY <1>3, <1>5, <2>1 DEF Flushes
<1>6. ASSUME NEW k, NEW i, NEW l, NEW j,
             IsPlace(table, k, i), <<l, j>> \in P, Earlier(<<k, i>>, <<l, j>>)
      PROVE  CameOutOf(f, table, k, i)
  <2>1. k \in Nat /\ i \in Nat
    BY <1>6, PlaceNumbers
  <2>2. l = f.row /\ PendingAt(o, p, j) /\ j \in 1 .. p
    BY <1>3, <1>4, <1>6
  <2>3. k < l \/ (k = l /\ i < j)
    BY <1>6 DEF Earlier
  <2>4. ReadIn(f, table, k, i)
    <3>1. CASE k < l
      BY <2>2, <3>1 DEF ReadIn
    <3>2. CASE k = l /\ i < j
      <4>1. i <= p
        BY <1>1, <2>1, <2>2, <3>2
      <4> QED
        BY <2>2, <3>2, <4>1 DEF ReadIn
    <3> QED
      BY <2>3, <3>1, <3>2
  <2>5. ~ PendingIn(f, table, k, i)
    <3>1. ASSUME PendingIn(f, table, k, i) PROVE FALSE
      <4>1. k = l /\ PendingAt(o, p, i)
        BY <1>4, <2>2, <3>1
      <4>2. i = j
        <5>1. p \in Nat /\ p <= Len(o)
          BY <1>1
        <5> HIDE DEF o, p
        <5> QED
          BY <1>1, <1>2, <2>2, <4>1, <5>1, PendingIsOne
      <4>3. ~ (k < l) /\ ~ (i < j)
        BY <1>1, <2>1, <2>2, <4>1, <4>2
      <4> QED
        BY <2>3, <4>3
    <3> QED
      BY <3>1
  <2> QED
    BY <2>4, <2>5 DEF CameOutOf
<1>7. \A k, i : <<k, i>> \in P => ~ CameOutOf(f, table, k, i)
  BY <1>3 DEF CameOutOf
<1>8. LetsOut(f, g, table, P)
  BY <1>5, <1>6, <1>7 DEF LetsOut
<1> QED
  BY <1>8 DEF P

\* The next row lets its command out, and nothing when it has none.
LEMMA RowLetsCommandOut ==
  ASSUME NEW f \in GoodFrames(Session), NEW table \in Seq(Row), FrameFits(f, table),
         ~ f.busy, f.rows # <<>>, NEW g \in GoodFrames(Session),
         g.rows = Tail(f.rows), g.row = f.row + 1, g.session = f.session,
         \/ /\ Head(f.rows).command /\ g.busy /\ g.output = Head(f.rows).output
            /\ g.stdout = <<>> /\ g.stderr = <<>>
         \/ /\ ~ Head(f.rows).command /\ ~ g.busy /\ g.output = f.output
            /\ g.stdout = f.stdout /\ g.stderr = f.stderr
  PROVE  /\ FrameFits(g, table) /\ Continues(f, g, table)
         /\ f.row + 1 \in 1 .. Len(table) /\ Head(f.rows) = table[f.row + 1]
         /\ Head(f.rows).command => LetsOut(f, g, table, {<<f.row + 1, 0>>})
         /\ ~ Head(f.rows).command => LetsOut(f, g, table, {})
<1> DEFINE n == f.row + 1
<1>1. PICK r : r = f.row
  OBVIOUS
<1>2. /\ FrameFits(g, table) /\ n \in 1 .. Len(table) /\ Head(f.rows) = table[n]
      /\ \A k, i \in Nat : ReadIn(f, table, k, i) => ReadIn(g, table, k, i)
      /\ \A k, i \in Nat : ReadIn(g, table, k, i) =>
           ReadIn(f, table, k, i) \/ (k = n /\ (table[k].command => i = 0))
      /\ ReadIn(g, table, n, 0) /\ ~ ReadIn(f, table, n, 0)
      /\ \A k, i : ~ PendingIn(g, table, k, i) /\ ~ PendingIn(f, table, k, i)
  BY RowBegins
<1>3. r \in Nat /\ n = r + 1
  BY <1>1, FrameTypes
<1> HIDE DEF n
<1>4. Continues(f, g, table)
  <2>1. ASSUME NEW k \in 1 .. Len(table), NEW i \in 1 .. Len(table[k].output),
               table[k].command, ReadIn(g, table, k, i)
        PROVE  ReadIn(f, table, k, i)
    <3>1. k \in Nat /\ i \in Nat /\ i # 0
      OBVIOUS
    <3> QED
      BY <1>2, <2>1, <3>1
  <2> QED
    BY <1>2, <2>1 DEF Continues
<1>5. ASSUME NEW k, NEW i, IsPlace(table, k, i)
      PROVE  /\ k \in Nat /\ i \in Nat /\ table[k].command
             /\ CameOutOf(g, table, k, i) <=> CameOutOf(f, table, k, i) \/ (k = n /\ i = 0)
             /\ CameOutOf(f, table, k, i) <=> ReadIn(f, table, k, i)
  <2>1. k \in Nat /\ i \in Nat /\ table[k].command
    BY <1>5, PlaceNumbers DEF IsPlace
  <2>2. CameOutOf(g, table, k, i) <=> ReadIn(g, table, k, i)
    BY <1>2 DEF CameOutOf
  <2>3. CameOutOf(f, table, k, i) <=> ReadIn(f, table, k, i)
    BY <1>2 DEF CameOutOf
  <2> QED
    BY <1>2, <2>1, <2>2, <2>3
<1>6. ASSUME Head(f.rows).command PROVE LetsOut(f, g, table, {<<n, 0>>})
  <2>1. \A k, i : <<k, i>> \in {<<n, 0>>} <=> k = n /\ i = 0
    OBVIOUS
  <2> DEFINE Q == {<<n, 0>>}
  <2> HIDE DEF Q
  <2>2. \A k, i : <<k, i>> \in Q <=> k = n /\ i = 0
    BY <2>1 DEF Q
  <2>3. ASSUME NEW k, NEW i, NEW l, NEW j,
               IsPlace(table, k, i), <<l, j>> \in Q, Earlier(<<k, i>>, <<l, j>>)
        PROVE  CameOutOf(f, table, k, i)
    <3>1. l = n /\ j = 0 /\ k \in Nat /\ i \in Nat
      BY <1>5, <2>2, <2>3
    <3>2. k < n
      BY <2>3, <3>1 DEF Earlier
    <3>3. k < r \/ k = r
      BY <1>3, <3>1, <3>2
    <3>4. ReadIn(f, table, k, i)
      BY <1>1, <3>3 DEF ReadIn
    <3> QED
      BY <1>5, <2>3, <3>4
  <2>4. ASSUME NEW k, NEW i, <<k, i>> \in Q PROVE ~ CameOutOf(f, table, k, i)
    BY <1>2, <2>2, <2>4 DEF CameOutOf
  <2>5. LetsOut(f, g, table, Q)
    BY <1>5, <2>2, <2>3, <2>4 DEF LetsOut
  <2> QED
    BY <2>5 DEF Q
<1>7. ASSUME ~ Head(f.rows).command PROVE LetsOut(f, g, table, {})
  <2>1. ASSUME NEW k, NEW i, IsPlace(table, k, i)
        PROVE  CameOutOf(g, table, k, i) <=> CameOutOf(f, table, k, i)
    <3>1. k # n
      BY <1>2, <1>5, <1>7, <2>1
    <3> QED
      BY <1>5, <2>1, <3>1
  <2> QED
    BY <2>1 DEF LetsOut
<1> QED
  BY <1>2, <1>4, <1>6, <1>7 DEF n

----------------------------------------------------------------------------
(* The state between the steps. *)

Fetches == {s \in Session : fetched[s] # <<>>}

Printing ==
  /\ GoodRecord /\ Promises(fetched, printed)
  /\ result # "failed" => ReaderSays(frames, fetched, printed)
  /\ result # "failed" /\ recursive => NestedAsked(frames, fetched, Fetches)
  /\ result = "idle" => printed = <<>> /\ \A s \in Session : fetched[s] = <<>>

\* The innermost frame is in its session's table.
TopFits(table) ==
  /\ Tables(fetched, written, Announced) /\ Stack(frames, fetched) /\ frames # <<>>
  /\ Top = frames[1] /\ Top \in GoodFrames(Session) /\ Top.session \in Session
  /\ table \in Seq(Row) /\ table = fetched[Top.session]
  /\ GoodTable(Top.session, table, written, Announced) /\ FrameFits(Top, table)

LEMMA TopIsAFrame ==
  ASSUME FetchInv, Printing, Active
  PROVE  TopFits(fetched[Top.session])
<1>1. Tables(fetched, written, Announced) /\ Stack(frames, fetched) /\ frames # <<>>
  BY GoodTables DEF Printing, Active, ReaderSays, FetchInv, ReaderOK
<1>2. Top = frames[1] /\ Top \in GoodFrames(Session) /\ Top.session \in Session /\ 1 \in 1 .. Len(frames)
  BY <1>1, StackIs DEF Top
<1>3. FrameFits(Top, fetched[Top.session])
  BY <1>1, <1>2 DEF Stack
<1>4. fetched[Top.session] \in Seq(Row) /\ GoodTable(Top.session, fetched[Top.session], written, Announced)
  BY <1>1, <1>2, SessionTable
<1> QED
  BY <1>1, <1>2, <1>3, <1>4 DEF TopFits

LEMMA SameRecord ==
  ASSUME GoodRecord, UNCHANGED <<dbVars, fetched>>
  PROVE  GoodRecord'
<1>1. rows' = rows /\ fetched' = fetched /\ written' = written /\ Announced' = Announced
  BY DEF dbVars, Announced
<1>2. ASSUME NEW s \in Session, NEW k, NEW i, NEW x
      PROVE  InRecord(s, k, i, x)' <=> InRecord(s, k, i, x)
  BY <1>1 DEF InRecord, At
<1>3. OneRecord'
  BY <1>2 DEF GoodRecord, OneRecord, IsText
<1> QED
  BY <1>1, <1>3 DEF GoodRecord

\* A step of the innermost frame to g, which prints out.
Steps(g, out, Q) ==
  /\ UNCHANGED <<dbVars, result, recursive, fetched>>
  /\ SetTop(g) /\ printed' = printed \o out
  /\ g \in GoodFrames(Session) /\ g.session = Top.session
  /\ FrameFits(g, fetched[Top.session])
  /\ Brings(out, Top.session, fetched[Top.session], Q)
  /\ LetsOut(Top, g, fetched[Top.session], Q)
  /\ ReadsOn(Top, g, fetched[Top.session])
  /\ recursive => Continues(Top, g, fetched[Top.session])

LEMMA StepsKeepPrinting ==
  ASSUME FetchInv, Printing, Active, NEW g, NEW out, NEW Q, Steps(g, out, Q)
  PROVE  Printing'
<1>1. TopFits(fetched[Top.session])
  BY TopIsAFrame
<1>2. TopSteps(frames, fetched, written, Announced, g, out, Q)
  BY <1>1 DEF TopFits, Steps, TopSteps
<1>3. ReaderSays(frames, fetched, printed)
  BY DEF Printing, Active
<1>4. frames' = <<g>> \o Tail(frames)
  BY DEF Steps, SetTop
<1>5. PICK new : new = frames'
  OBVIOUS
<1>6. ReadsOn(frames[1], g, fetched[g.session])
  BY <1>1 DEF TopFits, Steps
<1>7. ReaderSays(new, fetched, printed \o out)
  BY <1>2, <1>3, <1>4, <1>5, <1>6, TopKeeps
<1>8. ReaderSays(frames', fetched', printed')
  BY <1>5, <1>7 DEF Steps
<1>9. recursive => NestedAsked(new, fetched, Fetches)
  <2> SUFFICES ASSUME recursive PROVE NestedAsked(new, fetched, Fetches)
    OBVIOUS
  <2>1. NestedAsked(frames, fetched, Fetches)
    BY DEF Printing, Active
  <2>2. Stack(frames, fetched) /\ frames # <<>> /\ g \in GoodFrames(Session)
        /\ g.session = frames[1].session /\ FrameFits(g, fetched[g.session])
        /\ Continues(frames[1], g, fetched[g.session])
    BY <1>1 DEF TopFits, Steps
  <2>3. Replaced(frames, new, fetched, g)
    BY <1>4, <1>5, <2>2, StackTop
  <2> QED
    BY <2>1, <2>2, <2>3, TopKeepsAsked
<1>10. recursive' => NestedAsked(frames', fetched', Fetches')
  BY <1>5, <1>9 DEF Steps, Fetches
<1>11. GoodRecord'
  BY SameRecord DEF Steps, Printing
<1>12. result' = "running"
  BY DEF Steps, Active
<1>13. Promises(fetched', printed')
  BY <1>8 DEF ReaderSays
<1> QED
  BY <1>8, <1>10, <1>11, <1>12, <1>13 DEF Printing

----------------------------------------------------------------------------
(* The steps of the reader. *)

LEMMA SetTopIsAFrame ==
  ASSUME FetchInv, FetchInv', Active, NEW g, SetTop(g)
  PROVE  g \in GoodFrames(Session)
<1>1. Tail(frames) \in Seq(GoodFrames(Announced))
  BY TopOK DEF FetchInv
<1>2. PICK K, new : K = Announced' /\ new = frames'
  OBVIOUS
<1>3. new \in Seq(GoodFrames(K)) /\ K \subseteq Session /\ new = <<g>> \o Tail(frames)
  BY <1>2 DEF FetchInv, ReaderOK, RecordedOK, SetTop
<1>4. g \in GoodFrames(K)
  BY <1>1, <1>3, FirstOf
<1> QED
  BY <1>3, <1>4, SessionFrames

LEMMA ContinuesReadsOn ==
  ASSUME NEW f, NEW g, NEW table, Continues(f, g, table)
  PROVE  ReadsOn(f, g, table)
BY DEF Continues, ReadsOn

\* A frame after a marker, and at the end of a row.
BehindMarker(f, o, b) == [Empty([f EXCEPT !.output = o]) EXCEPT !.writeStdout = b]

LEMMA MarkerFrame ==
  ASSUME NEW f \in GoodFrames(Session), NEW o, NEW b \in BOOLEAN,
         NEW g, g = BehindMarker(f, o, b)
  PROVE  /\ g.row = f.row /\ g.rows = f.rows /\ g.busy = f.busy /\ g.session = f.session
         /\ g.output = o /\ g.stdout = <<>> /\ g.stderr = <<>> /\ g.writeStdout = b
<1>1. f \in FrameIn(Session) /\ (f.stdout = <<>> \/ f.stderr = <<>>)
  BY DEF GoodFrames, FrameIn
<1>2. PICK r : r = [f EXCEPT !.output = o]
  OBVIOUS
<1>3. r = [session |-> f.session, row |-> f.row, rows |-> f.rows, output |-> o, stdout |-> f.stdout,
           stderr |-> f.stderr, writeStdout |-> f.writeStdout, busy |-> f.busy]
  BY <1>2, <1>1 DEF FrameIn
<1> DEFINE e == Empty(r)
<1>4. /\ e.row = f.row /\ e.rows = f.rows /\ e.busy = f.busy /\ e.session = f.session
      /\ e.output = o /\ e.stdout = <<>> /\ e.stderr = <<>>
      /\ DOMAIN e = {"session", "row", "rows", "output", "stdout", "stderr", "writeStdout", "busy"}
  <2>1. CASE f.stdout # <<>>
    <3>1. e = [r EXCEPT !.stdout = <<>>] /\ f.stderr = <<>>
      BY <1>1, <1>3, <2>1 DEF Empty
    <3> HIDE DEF e
    <3> QED
      BY <1>3, <3>1
  <2>2. CASE f.stdout = <<>>
    <3>1. e = [r EXCEPT !.stderr = <<>>]
      BY <1>3, <2>2 DEF Empty
    <3> HIDE DEF e
    <3> QED
      BY <1>3, <2>2, <3>1
  <2> QED
    BY <2>1, <2>2
<1>5. g = [e EXCEPT !.writeStdout = b]
  BY <1>2 DEF e, BehindMarker
<1> HIDE DEF e
<1> QED
  BY <1>4, <1>5

LEMMA EndedFrame ==
  ASSUME NEW f \in GoodFrames(Session), NEW g, g = [Empty(f) EXCEPT !.busy = FALSE]
  PROVE  /\ g.row = f.row /\ g.rows = f.rows /\ ~ g.busy /\ g.session = f.session
         /\ g.output = f.output /\ g.stdout = <<>> /\ g.stderr = <<>>
<1>1. f \in FrameIn(Session) /\ (f.stdout = <<>> \/ f.stderr = <<>>)
  BY DEF GoodFrames, FrameIn
<1> DEFINE e == Empty(f)
<1>2. /\ e.row = f.row /\ e.rows = f.rows /\ e.session = f.session
      /\ e.output = f.output /\ e.stdout = <<>> /\ e.stderr = <<>>
      /\ DOMAIN e = {"session", "row", "rows", "output", "stdout", "stderr", "writeStdout", "busy"}
  <2>1. CASE f.stdout # <<>>
    <3>1. e = [f EXCEPT !.stdout = <<>>] /\ f.stderr = <<>>
      BY <1>1, <2>1 DEF Empty
    <3> HIDE DEF e
    <3> QED
      BY <1>1, <3>1 DEF FrameIn
  <2>2. CASE f.stdout = <<>>
    <3>1. e = [f EXCEPT !.stderr = <<>>]
      BY <2>2 DEF Empty
    <3> HIDE DEF e
    <3> QED
      BY <1>1, <2>2, <3>1 DEF FrameIn
  <2> QED
    BY <2>1, <2>2
<1>3. g = [e EXCEPT !.busy = FALSE]
  BY DEF e
<1> HIDE DEF e
<1> QED
  BY <1>2, <1>3

\* A text or a zero goes to the buffer.
WithRest(f, o) == [f EXCEPT !.output = o]
BehindText(f, r, x) ==
  IF f.writeStdout THEN [r EXCEPT !.stdout = Append(@, x)] ELSE [r EXCEPT !.stderr = Append(@, x)]

LEMMA TextFrame ==
  ASSUME NEW f \in GoodFrames(Session), NEW o, NEW x,
         NEW r, r = WithRest(f, o), NEW g, g = BehindText(f, r, x)
  PROVE  /\ g.row = f.row /\ g.rows = f.rows /\ g.busy = f.busy /\ g.session = f.session
         /\ g.output = o /\ g.writeStdout = f.writeStdout
         /\ Buffer(g) = Append(Buffer(f), x)
<1>1. f \in FrameIn(Session)
  BY DEF GoodFrames
<1>2. r = [session |-> f.session, row |-> f.row, rows |-> f.rows, output |-> o, stdout |-> f.stdout,
           stderr |-> f.stderr, writeStdout |-> f.writeStdout, busy |-> f.busy]
  BY <1>1 DEF FrameIn, WithRest
<1>3. PICK a, b : a = Append(f.stdout, x) /\ b = Append(f.stderr, x)
  OBVIOUS
<1>4. r.stdout = f.stdout /\ r.stderr = f.stderr
  BY <1>2
<1>5. CASE f.writeStdout
  <2>1. g = [r EXCEPT !.stdout = a]
    BY <1>3, <1>4, <1>5 DEF BehindText
  <2>2. /\ g.row = f.row /\ g.rows = f.rows /\ g.busy = f.busy /\ g.session = f.session
        /\ g.output = o /\ g.writeStdout = f.writeStdout /\ g.stdout = a
    BY <1>2, <2>1
  <2> QED
    BY <1>3, <1>5, <2>2 DEF Buffer
<1>6. CASE ~ f.writeStdout
  <2>1. g = [r EXCEPT !.stderr = b]
    BY <1>3, <1>4, <1>6 DEF BehindText
  <2>2. /\ g.row = f.row /\ g.rows = f.rows /\ g.busy = f.busy /\ g.session = f.session
        /\ g.output = o /\ g.writeStdout = f.writeStdout /\ g.stderr = b
    BY <1>2, <2>1
  <2> QED
    BY <1>3, <1>6, <2>2 DEF Buffer
<1> QED
  BY <1>5, <1>6

LEMMA NestedFrame ==
  ASSUME NEW f \in GoodFrames(Session), NEW o, NEW g, g = WithRest(f, o)
  PROVE  /\ g.row = f.row /\ g.rows = f.rows /\ g.busy = f.busy /\ g.session = f.session
         /\ g.output = o /\ g.writeStdout = f.writeStdout /\ Buffer(g) = Buffer(f)
BY DEF GoodFrames, FrameIn, Buffer, WithRest

\* The frame of a row, and one that passes a row over.
LEMMA RowFrame ==
  ASSUME NEW f \in GoodFrames(Session), NEW rest, NEW n, NEW o
  PROVE  /\ LET g == [f EXCEPT !.rows = rest, !.row = n, !.busy = TRUE, !.output = o,
                              !.writeStdout = FALSE, !.stdout = <<>>, !.stderr = <<>>]
            IN  /\ g.rows = rest /\ g.row = n /\ g.session = f.session /\ g.busy /\ g.output = o
                /\ g.stdout = <<>> /\ g.stderr = <<>>
         /\ LET g == [f EXCEPT !.rows = rest, !.row = n]
            IN  /\ g.rows = rest /\ g.row = n /\ g.session = f.session /\ g.busy = f.busy
                /\ g.output = f.output /\ g.stdout = f.stdout /\ g.stderr = f.stderr
BY DEF GoodFrames, FrameIn

----------------------------------------------------------------------------
(* What each action of printRows does to the output. *)

LEMMA NothingMore == ASSUME NEW S, NEW prn \in Seq(S) PROVE prn \o <<>> = prn
<1> DEFINE e == <<>>
<1>1. e \in Seq(S) /\ Len(e) = 0
  BY EmptySeq
<1>2. Len(prn) \in Nat /\ prn \in [1 .. Len(prn) -> S]
  BY LenProperties
<1>3. /\ prn \o e \in Seq(S) /\ Len(prn \o e) = Len(prn)
      /\ \A i \in 1 .. Len(prn) : (prn \o e)[i] = prn[i]
  <2>1. /\ prn \o e \in Seq(S) /\ Len(prn \o e) = Len(prn) + Len(e)
        /\ \A i \in 1 .. Len(prn) + Len(e) :
             (prn \o e)[i] = IF i <= Len(prn) THEN prn[i] ELSE e[i - Len(prn)]
    BY <1>1, ConcatProperties
  <2> QED
    BY <1>1, <1>2, <2>1
<1> QED
  BY <1>3, SeqEqual

LEMMA NextRowKeepsPrinting ==
  ASSUME FetchInv, FetchInv', Printing, NextRow
  PROVE  Printing'
<1>1. Active /\ ~ Top.busy /\ Top.rows # <<>> /\ UNCHANGED <<result, recursive, fetched, dbVars>>
  BY DEF NextRow
<1>2. PICK table, s, f : table = fetched[s] /\ s = Top.session /\ f = Top
  OBVIOUS
<1>3. TopFits(table)
  BY <1>1, <1>2, TopIsAFrame
<1>4. /\ f \in GoodFrames(Session) /\ s \in Session /\ table \in Seq(Row) /\ FrameFits(f, table)
      /\ GoodTable(s, table, written, Announced) /\ ~ f.busy /\ f.rows # <<>>
  BY <1>1, <1>2, <1>3 DEF TopFits
<1>5. PICK rest, n, o : rest = Tail(f.rows) /\ n = f.row + 1 /\ o = Head(f.rows).output
  OBVIOUS
<1>6. printed \in Seq(Printable)
  BY DEF Printing, Promises
<1>7. CASE Head(f.rows).command
  <2> DEFINE g == [f EXCEPT !.rows = rest, !.row = n, !.busy = TRUE, !.output = o,
                           !.writeStdout = FALSE, !.stdout = <<>>, !.stderr = <<>>]
             out == <<[to |-> Out, what |-> <<s, n>>]>>
  <2>1. SetTop(g) /\ printed' = printed \o out
    BY <1>2, <1>5, <1>7 DEF NextRow, PutOut
  <2>2. /\ g.rows = rest /\ g.row = n /\ g.session = f.session /\ g.busy /\ g.output = o
        /\ g.stdout = <<>> /\ g.stderr = <<>>
    BY <1>4, RowFrame
  <2> HIDE DEF g
  <2>3. g \in GoodFrames(Session)
    BY <1>1, <2>1, SetTopIsAFrame
  <2>4. /\ FrameFits(g, table) /\ Continues(f, g, table) /\ n \in 1 .. Len(table)
        /\ Head(f.rows) = table[n] /\ LetsOut(f, g, table, {<<n, 0>>})
    BY <1>4, <1>5, <1>7, <2>2, <2>3, RowLetsCommandOut
  <2>5. Brings(out, s, table, {<<n, 0>>})
    BY <1>4, <1>7, <2>4, CommandBrings
  <2>6. ReadsOn(f, g, table)
    BY <2>4, ContinuesReadsOn
  <2> HIDE DEF out
  <2>7. PICK Q : Q = {<<n, 0>>}
    OBVIOUS
  <2>8. Steps(g, out, Q)
    BY <1>1, <1>2, <2>1, <2>2, <2>3, <2>4, <2>5, <2>6, <2>7 DEF Steps
  <2> QED
    BY <1>1, <2>8, StepsKeepPrinting
<1>8. CASE ~ Head(f.rows).command
  <2> DEFINE g == [f EXCEPT !.rows = rest, !.row = n]
  <2>1. SetTop(g) /\ printed' = printed
    BY <1>2, <1>5, <1>8 DEF NextRow
  <2>2. /\ g.rows = rest /\ g.row = n /\ g.session = f.session /\ ~ g.busy /\ g.output = f.output
        /\ g.stdout = f.stdout /\ g.stderr = f.stderr
    BY <1>4, RowFrame
  <2> HIDE DEF g
  <2>3. g \in GoodFrames(Session)
    BY <1>1, <2>1, SetTopIsAFrame
  <2>4. FrameFits(g, table) /\ Continues(f, g, table) /\ LetsOut(f, g, table, {})
    BY <1>4, <1>5, <1>8, <2>2, <2>3, RowLetsCommandOut
  <2>5. PICK out, Q : out = <<>> /\ Q = {}
    OBVIOUS
  <2>6. Brings(out, s, table, Q) /\ ReadsOn(f, g, table)
    BY <2>4, <2>5, NothingBrings, ContinuesReadsOn
  <2>7. printed' = printed \o out
    BY <1>6, <2>1, <2>5, NothingMore
  <2>8. Steps(g, out, Q)
    BY <1>1, <1>2, <2>1, <2>2, <2>3, <2>4, <2>5, <2>6, <2>7 DEF Steps
  <2> QED
    BY <1>1, <2>8, StepsKeepPrinting
<1> QED
  BY <1>7, <1>8

\* A byte of the row.
TopReads(f, s, table, o, p) ==
  /\ f = Top /\ s = f.session /\ table = fetched[s] /\ TopFits(table)
  /\ f \in GoodFrames(Session) /\ s \in Session /\ table \in Seq(Row) /\ FrameFits(f, table)
  /\ f.busy /\ GoodTable(s, table, written, Announced)
  /\ f.row \in 1 .. Len(table) /\ o = table[f.row].output /\ p = Pos(f, o)
  /\ GoodOutput(s, o, written, Announced) /\ Reads(f, table, o, p)

LEMMA TopReadsAByte ==
  ASSUME FetchInv, Printing, Reading
  PROVE  \E f, s, table, o, p : TopReads(f, s, table, o, p)
<1>1. PICK f, s, table, o, p : /\ f = Top /\ s = f.session /\ table = fetched[s]
                               /\ o = table[f.row].output /\ p = Pos(f, o)
  OBVIOUS
<1>2. TopFits(table)
  BY <1>1, TopIsAFrame DEF Reading
<1>3. /\ f \in GoodFrames(Session) /\ s \in Session /\ table \in Seq(Row) /\ FrameFits(f, table)
      /\ GoodTable(s, table, written, Announced) /\ f.busy /\ f.output # <<>>
  BY <1>1, <1>2 DEF TopFits, Reading
<1>4. f.row \in 1 .. Len(table)
  BY <1>3, BusyFrame
<1>5. GoodOutput(s, o, written, Announced)
  BY <1>1, <1>3, <1>4 DEF GoodTable
<1>6. TopReads(f, s, table, o, p)
  BY <1>1, <1>2, <1>3, <1>4, <1>5 DEF TopReads, Reads
<1> QED
  BY <1>6

LEMMA ReadMarkerKeepsPrinting ==
  ASSUME FetchInv, FetchInv', Printing, ReadMarker
  PROVE  Printing'
<1>1. Reading /\ Active /\ Byte \in Marker /\ UNCHANGED <<result, recursive, fetched, dbVars>>
  BY DEF ReadMarker, Reading, Marker
<1>2. PICK f, s, table, o, p : TopReads(f, s, table, o, p)
  BY <1>1, TopReadsAByte
<1>3. PICK t, b, x : t = Tail(f.output) /\ x = Head(f.output) /\ b = (x = Out)
  OBVIOUS
<1>4. x = Byte /\ b \in BOOLEAN /\ x \in Marker
  BY <1>1, <1>2, <1>3 DEF TopReads, Byte
<1>5. PICK g : g = BehindMarker(f, t, b)
  OBVIOUS
<1> DEFINE out == Flushed(f)
           Q == PendingPlaces(f, table)
<1>6. SetTop(g) /\ printed' = printed \o out
  BY <1>2, <1>3, <1>4, <1>5 DEF ReadMarker, Rest, PutOut, TopReads, BehindMarker
<1>7. /\ f \in GoodFrames(Session) /\ s \in Session /\ table \in Seq(Row) /\ FrameFits(f, table)
      /\ f.busy /\ GoodTable(s, table, written, Announced)
      /\ GoodOutput(s, o, written, Announced) /\ Reads(f, table, o, p)
  BY <1>2 DEF TopReads
<1>8. /\ g.row = f.row /\ g.rows = f.rows /\ g.busy = f.busy /\ g.session = f.session
      /\ g.output = t /\ g.stdout = <<>> /\ g.stderr = <<>> /\ g.writeStdout = b
  <2>1. f \in GoodFrames(Session) /\ b \in BOOLEAN
    BY <1>4, <1>7
  <2> QED
    BY <2>1, <1>5, MarkerFrame
<1>9. g \in GoodFrames(Session)
  BY <1>1, <1>6, SetTopIsAFrame
<1>10. FrameFits(g, table) /\ Flushes(f, g, table) /\ Continues(f, g, table)
  BY <1>3, <1>4, <1>7, <1>8, <1>9, MarkerFlushes
<1>11. Brings(out, s, table, Q)
  BY <1>7, FlushBrings
<1>12. LetsOut(f, g, table, Q)
  BY <1>7, <1>10, FlushingLetsPendingOut
<1>13. ReadsOn(f, g, table)
  BY <1>10, ContinuesReadsOn
<1> HIDE DEF out, Q
<1>14. Steps(g, out, Q)
  BY <1>1, <1>2, <1>6, <1>8, <1>9, <1>10, <1>11, <1>12, <1>13 DEF Steps, TopReads
<1> QED
  BY <1>1, <1>14, StepsKeepPrinting

LEMMA EndRowKeepsPrinting ==
  ASSUME FetchInv, FetchInv', Printing, EndRow
  PROVE  Printing'
<1>1. Active /\ Top.busy /\ Top.output = <<>> /\ UNCHANGED <<result, recursive, fetched, dbVars>>
  BY DEF EndRow
<1>2. PICK f, s, table : f = Top /\ s = f.session /\ table = fetched[s]
  OBVIOUS
<1>3. TopFits(table)
  BY <1>1, <1>2, TopIsAFrame
<1> DEFINE g == [Empty(f) EXCEPT !.busy = FALSE]
           out == Flushed(f)
           Q == PendingPlaces(f, table)
<1>4. SetTop(g) /\ printed' = printed \o out
  BY <1>2 DEF EndRow, PutOut
<1>5. /\ f \in GoodFrames(Session) /\ s \in Session /\ table \in Seq(Row) /\ FrameFits(f, table)
      /\ f.busy /\ GoodTable(s, table, written, Announced) /\ f.output = <<>>
  BY <1>1, <1>2, <1>3 DEF TopFits
<1>6. /\ g.row = f.row /\ g.rows = f.rows /\ ~ g.busy /\ g.session = f.session
      /\ g.output = f.output /\ g.stdout = <<>> /\ g.stderr = <<>>
  BY <1>5, EndedFrame
<1> HIDE DEF g
<1>7. g \in GoodFrames(Session)
  BY <1>1, <1>4, SetTopIsAFrame
<1>8. FrameFits(g, table) /\ Flushes(f, g, table) /\ Continues(f, g, table)
  BY <1>5, <1>6, <1>7, RowEnds
<1>9. Brings(out, s, table, Q)
  BY <1>5, FlushBrings
<1>10. LetsOut(f, g, table, Q)
  BY <1>5, <1>8, FlushingLetsPendingOut
<1>11. ReadsOn(f, g, table)
  BY <1>8, ContinuesReadsOn
<1> HIDE DEF out, Q
<1>12. Steps(g, out, Q)
  BY <1>1, <1>2, <1>4, <1>6, <1>7, <1>8, <1>9, <1>10, <1>11 DEF Steps
<1> QED
  BY <1>1, <1>12, StepsKeepPrinting

LEMMA ReadTextKeepsPrinting ==
  ASSUME FetchInv, FetchInv', Printing, ReadText
  PROVE  Printing'
<1>1. Reading /\ Active /\ Byte \notin Marker /\ Byte # Nested
      /\ UNCHANGED <<printed, result, recursive, fetched, dbVars>>
  BY DEF ReadText, Reading, Marker
<1>2. PICK f, s, table, o, p : TopReads(f, s, table, o, p)
  BY <1>1, TopReadsAByte
<1>3. PICK t, x : t = Tail(f.output) /\ x = Head(f.output)
  OBVIOUS
<1>4. PICK r : r = WithRest(f, t)
  OBVIOUS
<1>5. PICK g : g = BehindText(f, r, x)
  OBVIOUS
<1>6. SetTop(g) /\ x = Byte /\ x \notin Marker /\ x # Nested
  <2>1. f = Top /\ Rest = r /\ Byte = x
    BY <1>2, <1>3, <1>4 DEF TopReads, Rest, Byte, WithRest
  <2> QED
    BY <1>1, <1>5, <2>1 DEF ReadText, BehindText
<1>7. /\ f \in GoodFrames(Session) /\ s \in Session /\ table \in Seq(Row) /\ FrameFits(f, table)
      /\ GoodOutput(s, o, written, Announced) /\ Reads(f, table, o, p)
  BY <1>2 DEF TopReads
<1>8. /\ g.row = f.row /\ g.rows = f.rows /\ g.busy = f.busy /\ g.session = f.session
      /\ g.output = t /\ g.writeStdout = f.writeStdout
      /\ Buffer(g) = Append(Buffer(f), x)
  <2>1. f \in GoodFrames(Session)
    BY <1>7
  <2> QED
    BY <2>1, <1>4, <1>5, TextFrame
<1>9. g \in GoodFrames(Session)
  BY <1>1, <1>6, SetTopIsAFrame
<1>10. FrameFits(g, table) /\ Holds(f, g, table) /\ Continues(f, g, table)
  BY <1>3, <1>6, <1>7, <1>8, <1>9, TextIsHeld
<1>11. PICK out, Q : out = <<>> /\ Q = {}
  OBVIOUS
<1>12. Brings(out, s, table, Q) /\ ReadsOn(f, g, table) /\ LetsOut(f, g, table, Q)
  BY <1>10, <1>11, NothingBrings, ContinuesReadsOn, HoldingLetsNothingOut
<1>13. printed' = printed \o out
  <2>1. printed \in Seq(Printable)
    BY DEF Printing, Promises
  <2> QED
    BY <1>1, <1>11, <2>1, NothingMore
<1>14. Steps(g, out, Q)
  BY <1>1, <1>2, <1>6, <1>8, <1>9, <1>10, <1>12, <1>13 DEF Steps, TopReads
<1> QED
  BY <1>1, <1>14, StepsKeepPrinting

\* The innermost frame f meets the marker of a nested session u.
MeetsNested(f, s, table, o, p, u, z) ==
  /\ TopReads(f, s, table, o, p)
  /\ u = Head(Tail(f.output)) /\ u \in Session
  /\ z \in GoodFrames(Session) /\ z = Zeroed /\ z.session = s /\ z.busy /\ z.row = f.row
  /\ FrameFits(z, table) /\ Holds(f, z, table) /\ Pos(z, o) = p + 1
  /\ p \in Nat /\ p + 1 \in 1 .. Len(o) /\ o[p + 1] = Nested /\ p + 1 < Len(o) /\ o[p + 2] = u
  /\ \A k, i \in Nat : ReadIn(z, table, k, i) <=>
       ReadIn(f, table, k, i) \/ (k = f.row /\ i = p + 1)

LEMMA NestedIsMet ==
  ASSUME FetchInv, Printing, Reading, Byte = Nested
  PROVE  \E f, s, table, o, p, u, z : MeetsNested(f, s, table, o, p, u, z)
<1>1. PICK f, s, table, o, p : TopReads(f, s, table, o, p)
  BY TopReadsAByte
<1>2. f = Top /\ f \in GoodFrames(Session) /\ Reads(f, table, o, p) /\ s = f.session /\ f.busy
      /\ GoodOutput(s, o, written, Announced)
  BY <1>1 DEF TopReads
<1>3. PICK u, t, z : u = Head(Tail(f.output)) /\ t = <<Nul>> \o Tail(Tail(f.output))
                     /\ z = WithRest(f, t)
  OBVIOUS
<1>4. /\ Top.output \in OutputsIn(Announced) /\ Top.output # <<>> /\ Head(Top.output) = Nested
      /\ Top \in GoodFrames(Announced) /\ Announced \subseteq Session
  BY RestOK, TopOK DEF Byte, Reading, FetchInv, RecordedOK
<1>5. t \in OutputsIn(Announced)
  BY <1>2, <1>3, <1>4, OutputNested
<1>6. z \in GoodFrames(Session)
  <2>1. z \in GoodFrames(Announced)
    BY <1>2, <1>3, <1>4, <1>5, ReadFrame DEF WithRest
  <2> QED
    BY <1>4, <2>1, SessionFrames
<1>7. z = Zeroed
  <2>1. Rest = [f EXCEPT !.output = Tail(f.output)]
    BY <1>2 DEF Rest
  <2>2. Rest.output = Tail(f.output)
    BY <1>2, RestOK DEF FetchInv
  <2>3. Zeroed = [Rest EXCEPT !.output = t]
    BY <1>3, <2>2 DEF Zeroed
  <2>4. f \in FrameIn(Session)
    BY <1>2 DEF GoodFrames
  <2>5. PICK q : q = Tail(f.output)
    OBVIOUS
  <2>6. [[f EXCEPT !.output = q] EXCEPT !.output = t] = [f EXCEPT !.output = t]
    BY <2>4 DEF FrameIn
  <2> QED
    BY <1>3, <2>1, <2>3, <2>5, <2>6 DEF WithRest
<1>8. /\ z.row = f.row /\ z.rows = f.rows /\ z.busy = f.busy /\ z.session = f.session
      /\ z.output = t /\ z.writeStdout = f.writeStdout /\ Buffer(z) = Buffer(f)
  <2>1. f \in GoodFrames(Session) /\ z = WithRest(f, t)
    BY <1>2, <1>3
  <2> QED
    BY <2>1, NestedFrame
<1>9. Head(f.output) = Nested
  BY <1>2, <1>4
<1>10. /\ FrameFits(z, table) /\ Holds(f, z, table) /\ Pos(z, o) = p + 1
       /\ p + 1 \in 1 .. Len(o) /\ o[p + 1] = Nested
       /\ p + 1 < Len(o) /\ o[p + 2] = Head(Tail(f.output)) /\ o[p + 2] \in Session
       /\ \A k, i \in Nat : ReadIn(z, table, k, i) <=>
            ReadIn(f, table, k, i) \/ (k = f.row /\ i = p + 1)
  <2>1. z.output = <<Nul>> \o Tail(Tail(f.output))
    BY <1>3, <1>8
  <2>2. PICK w, K : w = written /\ K = Announced
    OBVIOUS
  <2>3. GoodOutput(s, o, w, K) /\ Reads(f, table, o, p)
    BY <1>2, <2>2
  <2> QED
    BY <1>6, <1>8, <1>9, <2>1, <2>3, NestedIsHeld
<1>11. p \in Nat
  BY <1>2, ByteRead
<1>12. MeetsNested(f, s, table, o, p, u, z)
  BY <1>1, <1>2, <1>3, <1>6, <1>7, <1>8, <1>10, <1>11 DEF MeetsNested
<1> QED
  BY <1>12

LEMMA PassedNestedKeepsPrinting ==
  ASSUME FetchInv, FetchInv', Printing, ReadNested, ~ recursive
  PROVE  Printing'
<1>1. Reading /\ Active /\ Byte = Nested /\ SetTop(Zeroed)
      /\ UNCHANGED <<printed, result, recursive, fetched, dbVars>>
  BY DEF ReadNested, Reading
<1>2. PICK f, s, table, o, p, u, z : MeetsNested(f, s, table, o, p, u, z)
  BY <1>1, NestedIsMet
<1>3. PICK out, Q : out = <<>> /\ Q = {}
  OBVIOUS
<1>4. Brings(out, s, table, Q) /\ ReadsOn(f, z, table) /\ LetsOut(f, z, table, Q)
  BY <1>2, <1>3, NothingBrings, HoldingLetsNothingOut DEF MeetsNested, ReadsOn
<1>5. printed' = printed \o out
  <2>1. printed \in Seq(Printable)
    BY DEF Printing, Promises
  <2> QED
    BY <1>1, <1>3, <2>1, NothingMore
<1>6. Steps(z, out, Q)
  BY <1>1, <1>2, <1>4, <1>5 DEF Steps, TopReads, MeetsNested
<1> QED
  BY <1>1, <1>6, StepsKeepPrinting

LEMMA FailedKeepsPrinting ==
  ASSUME Printing, result' = "failed", UNCHANGED <<printed, fetched, dbVars>>
  PROVE  Printing'
<1>1. GoodRecord'
  BY SameRecord DEF Printing
<1>2. Promises(fetched', printed')
  BY DEF Printing
<1> QED
  BY <1>1, <1>2 DEF Printing

\* A query adds nothing to the record.
LEMMA QueryKeepsRecord ==
  ASSUME GoodRecord, NEW u \in Session, fetched' = [fetched EXCEPT ![u] = rows[u]], UNCHANGED dbVars
  PROVE  GoodRecord'
<1>1. rows' = rows /\ written' = written /\ Announced' = Announced
  BY DEF dbVars, Announced
<1>2. \A s \in Session : fetched'[s] = IF s = u THEN rows[u] ELSE fetched[s]
  BY DEF GoodRecord
<1>3. fetched' \in [Session -> Seq(Row)]
  BY DEF GoodRecord
<1>4. ASSUME NEW s \in Session, NEW k, NEW i, NEW x, InRecord(s, k, i, x)'
      PROVE  InRecord(s, k, i, x)
  BY <1>1, <1>2, <1>4 DEF InRecord, At
<1>5. OneRecord'
  BY <1>4 DEF GoodRecord, OneRecord, IsText
<1>6. \A s \in Session : GoodTable(s, fetched'[s], written', Announced')
  BY <1>1, <1>2 DEF GoodRecord
<1> QED
  BY <1>1, <1>3, <1>5, <1>6 DEF GoodRecord

LEMMA FreshFrame ==
  ASSUME GoodRecord, NEW s \in Session
  PROVE  Fresh(Frame(s), rows[s]) /\ Frame(s).session = s
<1>1. rows[s] \in Seq(RowIn(Session))
  BY SameRows DEF GoodRecord
<1>2. <<>> \in Seq(Token) /\ <<>> \in OutputsIn(Session)
  BY EmptySeq, EmptyOutput
<1>3. Frame(s) \in GoodFrames(Session)
  BY <1>1, <1>2 DEF Frame, GoodFrames, FrameIn
<1> QED
  BY <1>3 DEF Fresh, Frame

\* Once a session is queried its rows are there.
LEMMA Queried ==
  ASSUME FetchInv, Printing, NEW u \in created, NEW frs,
         fetched' = [fetched EXCEPT ![u] = rows[u]], UNCHANGED <<printed, dbVars>>,
         frames' = <<Frame(u)>> \o frs, result' = "running",
         ReaderSays(frs, fetched, printed), fetched[u] = <<>>,
         frs # <<>> => /\ StandsAt(frs[1], fetched[frs[1].session], u)
                       /\ frs[1].session < u,
         frs = <<>> => printed = <<>> /\ \A s \in Session : fetched[s] = <<>>,
         recursive' => NestedAsked(frs, fetched, Fetches \cup {u})
  PROVE  Printing'
<1>1. u \in Session /\ rows[u] # <<>> /\ GoodRecord
  BY RowsAreRows DEF FetchInv, RecordedOK, Printing
<1>2. PICK more, h, new : more = fetched' /\ h = Frame(u) /\ new = frames'
  OBVIOUS
<1>3. Tables(fetched, written, Announced) /\ Tables(more, written, Announced)
  BY <1>1, <1>2, GoodTables
<1>4. /\ more[u] = rows[u] /\ \A s \in Session : s # u => more[s] = fetched[s]
  BY <1>1, <1>2 DEF GoodRecord
<1>5. Fresh(h, more[u]) /\ h.session = u
  BY <1>1, <1>2, <1>4, FreshFrame
<1>6. Queries(frs, fetched, written, Announced, u, h, more, printed)
  BY <1>1, <1>3, <1>4, <1>5 DEF Queries
<1>7. new = <<h>> \o frs
  BY <1>2
<1>8. ReaderSays(new, more, printed)
  BY <1>6, <1>7, PushKeeps
<1>9. \A S : NestedAsked(frs, fetched, S) => NestedAsked(new, more, S)
  BY <1>6, <1>7, PushKeeps
<1>10. Fetches \cup {u} = Fetches'
  BY <1>1, <1>2, <1>4 DEF Fetches
<1>11. recursive' => NestedAsked(new, more, Fetches')
  BY <1>9, <1>10
<1>12. GoodRecord'
  BY <1>1, QueryKeepsRecord
<1>13. ReaderSays(frames', fetched', printed') /\ (recursive' => NestedAsked(frames', fetched', Fetches'))
  BY <1>2, <1>8, <1>11
<1> QED
  BY <1>12, <1>13 DEF Printing, ReaderSays

LEMMA BeginKeepsPrinting ==
  ASSUME FetchInv, Printing, NEW s \in Session, NEW children \in BOOLEAN, Begin(s, children)
  PROVE  Printing'
<1>1. /\ result = "idle" /\ s \in created /\ Query(s, <<>>) /\ recursive' = children
      /\ UNCHANGED <<printed, dbVars>>
  BY DEF Begin
<1>2. PICK frs : frs = <<>>
  OBVIOUS
<1>3. frames' = <<Frame(s)>> \o frs /\ fetched' = [fetched EXCEPT ![s] = rows[s]] /\ result' = "running"
  BY <1>1, <1>2 DEF Query
<1>4. frames = frs
  BY <1>1, <1>2 DEF FetchInv, ReaderOK
<1>5. ReaderSays(frs, fetched, printed) /\ printed = <<>> /\ \A t \in Session : fetched[t] = <<>>
  BY <1>1, <1>4 DEF Printing
<1>6. NestedAsked(frs, fetched, Fetches \cup {s})
  <2>1. \A t \in Session : Len(fetched[t]) = 0
    BY <1>5, EmptySeq
  <2> QED
    BY <2>1 DEF NestedAsked
<1> QED
  BY <1>1, <1>2, <1>3, <1>5, <1>6, Queried

LEMMA ReturnKeepsPrinting ==
  ASSUME FetchInv, Printing, Return
  PROVE  Printing'
<1>1. /\ Active /\ ~ Top.busy /\ Top.rows = <<>> /\ frames' = Tail(frames)
      /\ result' \in {"done", "running"} /\ UNCHANGED <<printed, recursive, fetched, dbVars>>
  BY DEF Return
<1>2. TopFits(fetched[Top.session])
  BY <1>1, TopIsAFrame
<1>3. /\ ReaderSays(frames, fetched, printed) /\ frames # <<>> /\ ~ frames[1].busy
      /\ frames[1].rows = <<>> /\ fetched \in [Session -> Seq(Row)]
  BY <1>1, <1>2 DEF Printing, TopFits, Tables, Active
<1>4. PICK new : new = Tail(frames)
  OBVIOUS
<1>5. ReaderSays(new, fetched, printed)
  BY <1>3, <1>4, PopKeeps
<1>6. \A S : NestedAsked(frames, fetched, S) => NestedAsked(new, fetched, S)
  BY <1>3, <1>4, PopKeeps
<1>7. recursive => NestedAsked(new, fetched, Fetches)
  BY <1>1, <1>6 DEF Printing, Active
<1>8. ReaderSays(frames', fetched', printed') /\ (recursive' => NestedAsked(frames', fetched', Fetches'))
  BY <1>1, <1>4, <1>5, <1>7 DEF Fetches
<1>9. GoodRecord'
  BY <1>1, SameRecord DEF Printing
<1> QED
  BY <1>1, <1>8, <1>9 DEF Printing, ReaderSays

LEMMA QuietKeepsPrinting ==
  ASSUME Printing, GoodRecord', UNCHANGED fetchVars
  PROVE  Printing'
<1>1. frames' = frames /\ printed' = printed /\ result' = result /\ recursive' = recursive
      /\ fetched' = fetched
  BY DEF fetchVars
<1>2. Fetches' = Fetches
  BY <1>1 DEF Fetches
<1>3. Promises(fetched', printed') /\ (result # "failed" => ReaderSays(frames', fetched', printed'))
      /\ (result # "failed" /\ recursive => NestedAsked(frames', fetched', Fetches'))
  BY <1>1, <1>2 DEF Printing
<1> QED
  BY <1>1, <1>3 DEF Printing

LEMMA FollowedNestedKeepsPrinting ==
  ASSUME FetchInv, FetchInv', Printing, ReadNested, recursive
  PROVE  Printing'
<1>1. /\ Reading /\ Active /\ Byte = Nested /\ Query(Head(Rest.output), <<Zeroed>> \o Tail(frames))
      /\ UNCHANGED <<printed, recursive, dbVars>>
  BY DEF ReadNested, Reading
<1>2. PICK f, s, table, o, p, u, z : MeetsNested(f, s, table, o, p, u, z)
  BY <1>1, NestedIsMet
<1>3. PICK mid : mid = <<z>> \o Tail(frames)
  OBVIOUS
<1>4. Query(u, mid)
  <2>1. Rest.output = Tail(Top.output)
    BY <1>1, RestOK DEF FetchInv
  <2>2. u = Head(Rest.output) /\ z = Zeroed
    BY <1>2, <2>1 DEF MeetsNested, TopReads
  <2> QED
    BY <1>1, <1>3, <2>2
<1>5. CASE u \notin created
  BY <1>1, <1>4, <1>5, FailedKeepsPrinting DEF Query
<1>6. CASE u \in created
  <2>1. frames' = <<Frame(u)>> \o mid /\ fetched' = [fetched EXCEPT ![u] = rows[u]] /\ result' = "running"
    BY <1>4, <1>6 DEF Query
  <2>2. /\ f = frames[1] /\ f = Top /\ s = f.session /\ table = fetched[s] /\ s \in Session
        /\ Tables(fetched, written, Announced) /\ Stack(frames, fetched) /\ frames # <<>>
        /\ f.row \in 1 .. Len(table) /\ o = table[f.row].output /\ p = Pos(f, o) /\ f.busy
        /\ GoodOutput(s, o, written, Announced)
    BY <1>2 DEF MeetsNested, TopReads, TopFits
  <2>3. /\ u \in Session /\ z \in GoodFrames(Session) /\ z.session = s /\ z.busy /\ z.row = f.row
        /\ FrameFits(z, table) /\ Holds(f, z, table) /\ Pos(z, o) = p + 1
        /\ p \in Nat /\ p + 1 \in 1 .. Len(o) /\ o[p + 1] = Nested /\ p + 1 < Len(o) /\ o[p + 2] = u
        /\ \A k, i \in Nat : ReadIn(z, table, k, i) <=>
             ReadIn(f, table, k, i) \/ (k = f.row /\ i = p + 1)
    BY <1>2 DEF MeetsNested
  <2>4. PICK out, Q : out = <<>> /\ Q = {}
    OBVIOUS
  <2>5. Brings(out, s, table, Q) /\ ReadsOn(f, z, table) /\ LetsOut(f, z, table, Q)
    BY <2>3, <2>4, NothingBrings, HoldingLetsNothingOut DEF ReadsOn
  <2>6. TopSteps(frames, fetched, written, Announced, z, out, Q)
    BY <2>2, <2>3, <2>5 DEF TopSteps
  <2>7. ReaderSays(frames, fetched, printed) /\ NestedAsked(frames, fetched, Fetches)
    BY <1>1 DEF Printing, Active
  <2>8. ReaderSays(mid, fetched, printed)
    <3>1. ReadsOn(frames[1], z, fetched[z.session])
      BY <2>2, <2>3, <2>5
    <3>2. ReaderSays(mid, fetched, printed \o out)
      BY <1>3, <2>6, <2>7, <3>1, TopKeeps
    <3>3. printed \in Seq(Printable)
      BY DEF Printing, Promises
    <3> QED
      BY <2>4, <3>2, <3>3, NothingMore
  <2>9. Replaced(frames, mid, fetched, z)
    <3>1. z.session = frames[1].session /\ FrameFits(z, fetched[z.session])
      BY <2>2, <2>3
    <3> QED
      BY <1>3, <2>2, <2>3, <3>1, StackTop
  <2>10. mid # <<>> /\ mid[1] = z /\ Stack(mid, fetched)
    BY <2>9 DEF Replaced
  <2>11. p + 2 \in 1 .. Len(o) /\ (p + 1) + 1 = p + 2
    <3>1. Len(o) \in Nat
      BY <1>2, ByteRead DEF MeetsNested, TopReads
    <3> QED
      BY <2>3, <3>1
  <2>12. StandsAt(z, table, u)
    BY <2>2, <2>3, <2>11 DEF StandsAt, At
  <2>13. s < u
    <3>1. u > s
      BY <2>2, <2>3, <2>11 DEF GoodOutput
    <3> QED
      BY <2>2, <2>3, <3>1, SessionAssumption
  <2>14. fetched[u] = <<>>
    <3> SUFFICES ASSUME fetched[u] # <<>> PROVE FALSE
      OBVIOUS
    <3>1. PICK v : v = frames[Len(frames)].session
      OBVIOUS
    <3>2. v <= s /\ v \in Nat /\ s \in Nat /\ u \in Nat
      <4>1. v <= s /\ v \in Nat
        BY <2>2, <3>1, StackIs
      <4> QED
        BY <2>2, <2>3, <4>1, SessionAssumption
    <3>3. u # v
      BY <2>13, <3>2
    <3>4. PICK t \in Session : \E k, i \in Nat : At(fetched[t], k, i, u) /\ IsRead(frames, fetched, t, k, i - 1)
      BY <2>2, <2>3, <2>7, <3>1, <3>3 DEF ReaderSays, AskedFor
    <3>5. PICK k \in Nat, i \in Nat : At(fetched[t], k, i, u) /\ IsRead(frames, fetched, t, k, i - 1)
      BY <3>4
    <3>6. PICK j : j = p + 2
      OBVIOUS
    <3>7. At(fetched[s], f.row, j, u)
      BY <2>2, <2>3, <2>11, <3>6 DEF At
    <3>8. t = s /\ k = f.row /\ i = j
      BY <2>2, <2>3, <3>5, <3>7 DEF Tables, OnePlace
    <3>9. i - 1 = p + 1
      BY <2>3, <3>6, <3>8
    <3>10. ReadIn(f, table, f.row, p + 1)
      BY <2>2, <3>5, <3>8, <3>9, TopOnly
    <3>11. p + 1 <= p
      BY <2>2, <3>10, FrameTypes DEF ReadIn
    <3> QED
      BY <2>3, <3>11
  <2>15. NestedAsked(mid, fetched, Fetches \cup {u})
    <3> SUFFICES ASSUME NEW t \in Session, NEW k \in 1 .. Len(fetched[t]),
                        NEW i \in 1 .. Len(fetched[t][k].output),
                        fetched[t][k].command, fetched[t][k].output[i] = Nested,
                        IsRead(mid, fetched, t, k, i)
                 PROVE  fetched[t][k].output[i + 1] \in Fetches \cup {u}
      BY DEF NestedAsked
    <3>1. CASE IsRead(frames, fetched, t, k, i)
      BY <2>7, <3>1 DEF NestedAsked
    <3>2. CASE ~ IsRead(frames, fetched, t, k, i)
      <4>1. t = s
        BY <2>3, <2>9, <3>2 DEF Replaced, SameElsewhere
      <4>2. ReadIn(z, table, k, i) /\ ~ ReadIn(f, table, k, i)
        BY <2>2, <2>3, <2>10, <3>2, <4>1, TopOnly
      <4>3. k \in Nat /\ i \in Nat
        OBVIOUS
      <4>4. k = f.row /\ i = p + 1
        BY <2>3, <4>2, <4>3
      <4> QED
        BY <2>2, <2>3, <2>11, <4>1, <4>4
    <3> QED
      BY <3>1, <3>2
  <2> QED
    BY <1>1, <1>6, <2>1, <2>2, <2>3, <2>8, <2>10, <2>12, <2>13, <2>14, <2>15, Queried
<1> QED
  BY <1>5, <1>6

----------------------------------------------------------------------------
(* The invariant of the output, and what it gives. *)

LEMMA InitPrinting == FetchInit => Printing
<1> SUFFICES ASSUME FetchInit PROVE Printing
  OBVIOUS
<1>1. FetchInv
  BY InitFetchInv
<1>2. /\ rows \in [Session -> Seq(Row)] /\ \A s \in Session : rows[s] = <<NewRow>> \/ rows[s] = <<>>
  BY <1>1, RowsAreRows DEF FetchInit
<1>3. fetched \in [Session -> Seq(Row)] /\ \A s \in Session : fetched[s] = <<>> /\ Len(fetched[s]) = 0
  <2>1. <<>> \in Seq(Row)
    BY EmptySeq
  <2> QED
    BY <2>1, EmptySeq DEF FetchInit
<1>4. \A s \in Session : \A k, i, x : ~ InRecord(s, k, i, x)
  BY <1>2, <1>3, NothingIn DEF InRecord
<1>5. \A s \in Session : GoodTable(s, rows[s], written, Announced) /\ GoodTable(s, fetched[s], written, Announced)
  BY <1>2, <1>3, NothingIn
<1>6. GoodRecord
  BY <1>2, <1>3, <1>4, <1>5 DEF GoodRecord, OneRecord
<1>7. frames = <<>> /\ printed = <<>> /\ result = "idle" /\ recursive = FALSE
  BY DEF FetchInit
<1>8. printed \in Seq(Printable) /\ Len(printed) = 0 /\ frames \in Seq(GoodFrames(Session)) /\ Len(frames) = 0
  BY <1>7, EmptySeq
<1>9. \A s \in Session : \A k, i : ~ IsPlace(fetched[s], k, i)
  BY <1>3, NotAPlace
<1>10. Promises(fetched, printed)
  BY <1>3, <1>8 DEF Promises, Valid, InOrder, InPlace
<1>11. Stack(frames, fetched) /\ OutIff(frames, fetched, printed) /\ AskedFor(frames, fetched)
  BY <1>7, <1>8, <1>9 DEF Stack, OutIff, AskedFor
<1> QED
  BY <1>3, <1>6, <1>7, <1>10, <1>11 DEF Printing, ReaderSays

LEMMA StepKeepsPrinting == FetchInv /\ Printing /\ [FetchNext]_allVars => Printing'
<1> SUFFICES ASSUME FetchInv, Printing, [FetchNext]_allVars PROVE Printing'
  OBVIOUS
<1>1. FetchInv'
  BY StepKeepsFetchInv
<1>2. CASE Recording
  <2>1. GoodRecord'
    BY <1>1, <1>2, RecordingKeepsRecord DEF Printing
  <2>2. UNCHANGED fetchVars
    BY <1>2 DEF Recording, RecordOutput, AnnounceNested, FinishRow, RemoveSession, CreateNested
  <2> QED
    BY <2>1, <2>2, QuietKeepsPrinting
<1>3. ASSUME NEW s \in Session, NEW children \in BOOLEAN, Begin(s, children) PROVE Printing'
  BY <1>3, BeginKeepsPrinting
<1>4. CASE NextRow
  BY <1>1, <1>4, NextRowKeepsPrinting
<1>5. CASE ReadMarker
  BY <1>1, <1>5, ReadMarkerKeepsPrinting
<1>6. CASE ReadNested
  BY <1>1, <1>6, PassedNestedKeepsPrinting, FollowedNestedKeepsPrinting
<1>7. CASE ReadText
  BY <1>1, <1>7, ReadTextKeepsPrinting
<1>8. CASE EndRow
  BY <1>1, <1>8, EndRowKeepsPrinting
<1>9. CASE Return
  BY <1>9, ReturnKeepsPrinting
<1>10. CASE UNCHANGED allVars
  <2>1. UNCHANGED fetchVars /\ UNCHANGED <<dbVars, fetched>>
    BY <1>10 DEF allVars, fetchVars
  <2>2. GoodRecord'
    BY <2>1, SameRecord DEF Printing
  <2> QED
    BY <2>1, <2>2, QuietKeepsPrinting
<1> QED
  BY <1>2, <1>3, <1>4, <1>5, <1>6, <1>7, <1>8, <1>9, <1>10 DEF FetchNext, Fetching

LEMMA PrintingInvariant == FetchSpec => [](FetchInv /\ Printing)
<1>1. FetchInit => FetchInv /\ Printing
  BY InitFetchInv, InitPrinting
<1>2. FetchInv /\ Printing /\ [FetchNext]_allVars => (FetchInv /\ Printing)'
  BY StepKeepsFetchInv, StepKeepsPrinting
<1> QED
  BY <1>1, <1>2, PTL DEF FetchSpec

LEMMA PrintingImplies == FetchInv /\ Printing => PrintsWhatIsRecorded
<1> SUFFICES ASSUME FetchInv, Printing PROVE PrintsWhatIsRecorded
  OBVIOUS
<1>1. Tables(fetched, written, Announced) /\ Promises(fetched, printed)
  BY GoodTables DEF Printing
<1>2. ASSUME NEW s \in Session
      PROVE  /\ \A p \in Places(fetched[s]) : \E k, i : p = <<k, i>> /\ IsPlace(fetched[s], k, i)
             /\ \A k, i : <<k, i>> \in Places(fetched[s]) <=> IsPlace(fetched[s], k, i)
  BY <1>1, PlacesAre DEF Tables
<1>3. \A s, p, n : CameOut(s, p, n) <=> Came(fetched, printed, s, p, n)
  BY DEF CameOut, Came
<1>4. ASSUME NEW n \in 1 .. Len(printed)
      PROVE  \/ printed[n].what = <<Nul>>
             \/ /\ \E s \in Session : \E p \in Places(fetched[s]) :
                     printed[n] = Entry(s, fetched[s], p)
                /\ \A m \in 1 .. n - 1 : printed[m] # printed[n]
  <2>1. CASE printed[n].what = <<Nul>>
    BY <2>1
  <2>2. CASE printed[n].what # <<Nul>>
    <3>1. PICK s \in Session : \E k, i : /\ IsPlace(fetched[s], k, i)
                                         /\ printed[n] = Entry(s, fetched[s], <<k, i>>)
      BY <1>1, <2>2 DEF Promises, Valid
    <3>2. PICK k, i : IsPlace(fetched[s], k, i) /\ printed[n] = Entry(s, fetched[s], <<k, i>>)
      BY <3>1
    <3>3. \A m \in 1 .. n - 1 : printed[m] # printed[n]
      BY <1>1, <2>2 DEF Promises, Valid
    <3> QED
      BY <1>2, <3>3, <3>2
  <2> QED
    BY <2>1, <2>2
<1>5. ASSUME NEW s \in Session, NEW p \in Places(fetched[s]), NEW q \in Places(fetched[s]),
             NEW n \in 1 .. Len(printed), Earlier(p, q), printed[n] = Entry(s, fetched[s], q)
      PROVE  CameOut(s, p, n)
  <2>1. PICK k, i : p = <<k, i>> /\ IsPlace(fetched[s], k, i)
    BY <1>2
  <2>2. PICK l, j : q = <<l, j>> /\ IsPlace(fetched[s], l, j)
    BY <1>2
  <2>3. Came(fetched, printed, s, <<k, i>>, n)
    BY <1>1, <1>5, <2>1, <2>2 DEF Promises, InOrder
  <2> QED
    BY <1>3, <2>1, <2>3
<1>6. ASSUME result = "done", NEW s \in Session
      PROVE  /\ \A p \in Places(fetched[s]) : CameOut(s, p, Len(printed))
             /\ recursive => \A nested \in NestedIn(s) : fetched[nested] # <<>>
  <2>1. frames = <<>> /\ Len(frames) = 0 /\ OutIff(frames, fetched, printed)
        /\ (recursive => NestedAsked(frames, fetched, Fetches))
    BY <1>6, EmptySeq DEF FetchInv, ReaderOK, Printing, ReaderSays
  <2>2. ASSUME NEW p \in Places(fetched[s]) PROVE CameOut(s, p, Len(printed))
    <3>1. PICK k, i : p = <<k, i>> /\ IsPlace(fetched[s], k, i)
      BY <1>2
    <3>2. IsOut(frames, fetched, s, k, i)
      BY <2>1 DEF IsOut
    <3>3. Came(fetched, printed, s, <<k, i>>, Len(printed))
      BY <2>1, <3>1, <3>2 DEF OutIff
    <3> QED
      BY <1>3, <3>1, <3>3
  <2>3. ASSUME recursive, NEW nested \in NestedIn(s) PROVE fetched[nested] # <<>>
    <3>1. PICK k \in 1 .. Len(fetched[s]) : /\ fetched[s][k].command
                                           /\ nested \in Range(fetched[s][k].output) \cap Session
      BY DEF NestedIn
    <3>2. PICK o : o = fetched[s][k].output
      OBVIOUS
    <3>3. o \in Outputs /\ Len(o) \in Nat /\ GoodOutput(s, o, written, Announced)
      <4>1. fetched[s] \in Seq(Row) /\ GoodTable(s, fetched[s], written, Announced)
        BY <1>1 DEF Tables
      <4> QED
        BY <3>2, <4>1, RowsOfTable, OutputBytes DEF GoodTable
    <3>4. PICK i \in 1 .. Len(o) : o[i] = nested
      <4>1. DOMAIN o = 1 .. Len(o)
        BY <3>3, LenProperties DEF Outputs
      <4> QED
        BY <3>1, <3>2, <4>1 DEF Range
    <3>5. i > 1 /\ o[i - 1] = Nested
      BY <3>1, <3>3, <3>4 DEF GoodOutput
    <3>6. PICK j : j = i - 1
      OBVIOUS
    <3>7. j \in 1 .. Len(o) /\ o[j] = Nested /\ j + 1 = i
      BY <3>3, <3>5, <3>6
    <3>8. IsRead(frames, fetched, s, k, j)
      BY <2>1 DEF IsRead
    <3>9. o[j + 1] \in Fetches
      BY <2>1, <2>3, <3>1, <3>2, <3>7, <3>8 DEF NestedAsked
    <3> QED
      BY <3>4, <3>7, <3>9 DEF Fetches
  <2> QED
    BY <2>2, <2>3
<1> QED
  BY <1>4, <1>5, <1>6 DEF PrintsWhatIsRecorded

LEMMA PrintingIsInPlace == Printing => NestedInPlace
<1> SUFFICES ASSUME Printing PROVE NestedInPlace
  OBVIOUS
<1>1. \A k, text : PrintedBefore(k, text) <=> Before(printed, k, text)
  BY DEF PrintedBefore, Before
<1> SUFFICES ASSUME NEW s \in Session, NEW k \in 1 .. Len(fetched[s]), NEW n \in 1 .. Len(printed),
                    NEW j \in 1 .. Len(fetched[s][k].output),
                    fetched[s][k].output[j] \in Session,
                    printed[n].what = <<fetched[s][k].output[j], 1>>,
                    NEW i \in 1 .. Len(fetched[s][k].output), IsText(fetched[s][k].output[i])
             PROVE  /\ PrintedBefore(n, fetched[s][k].output[i]) => i < j
                    /\ (\E m \in i .. j : fetched[s][k].output[m] \in {Out, Err}) =>
                         PrintedBefore(n, fetched[s][k].output[i])
  BY DEF NestedInPlace
<1>2. Placed(printed, fetched[s][k].output, n, j)
  BY DEF Printing, Promises, InPlace
<1> QED
  BY <1>1, <1>2 DEF Placed, Marker

\* printRows (fetch.go:199-277) sorts the recorded stream without losing, repeating
\* or reordering a command or a text, and never on the wrong stream; when the fetch
\* ends all have come out, and with -f those of the nested sessions too.
THEOREM FetchPrints == FetchSpec => []PrintsWhatIsRecorded
BY PrintingImplies, PrintingInvariant, PTL

\* The recursive call of fetch.go:245-251 puts a nested session where it happened,
\* but for the text of one write that is still in a buffer.
THEOREM NestedComeInPlace == FetchSpec => []NestedInPlace
BY PrintingIsInPlace, PrintingInvariant, PTL
============================================================================
