--------------------------- MODULE EventBusProofs ---------------------------
(***************************************************************************)
(* What the event bus guarantees for every set of transactions and any     *)
(* number of events.                                                       *)
(***************************************************************************)
EXTENDS EventBus, TLAPS, SequenceTheorems

-----------------------------------------------------------------------------
(* Sequences.                                                              *)

LEMMA Empty == <<>> \in Seq(Events) /\ <<>> \in Seq(Frames)
OBVIOUS

LEMMA TailFacts ==
  ASSUME NEW S, NEW s \in Seq(S), s # <<>>
  PROVE  /\ Head(s) = s[1] /\ Head(s) \in S
         /\ Tail(s) \in Seq(S) /\ Len(Tail(s)) = Len(s) - 1
         /\ \A i \in 1..Len(Tail(s)) : Tail(s)[i] = s[i + 1] /\ i + 1 \in 1..Len(s)
OBVIOUS

LEMMA FrontFacts ==
  ASSUME NEW S, NEW s \in Seq(S), s # <<>>
  PROVE  /\ Len(s) \in Nat \ {0} /\ Last(s) = s[Len(s)] /\ Last(s) \in S
         /\ Front(s) \in Seq(S) /\ Len(Front(s)) = Len(s) - 1
         /\ \A i \in 1..(Len(s) - 1) : Front(s)[i] = s[i]
<1>1. Len(s) \in Nat \ {0} /\ Last(s) = s[Len(s)] /\ Last(s) \in S
  BY DEF Last
<1>2. PICK n \in Nat : Len(s) = n + 1
  <2>1. Len(s) - 1 \in Nat /\ Len(s) = (Len(s) - 1) + 1
    BY <1>1
  <2> QED
    BY <2>1
<1>3. \A i \in 1..n : s[i] \in S
  BY <1>2
<1>4. /\ SubSeq(s, 1, n) \in Seq(S) /\ Len(SubSeq(s, 1, n)) = (IF 1 <= n THEN n - 1 + 1 ELSE 0)
      /\ \A i \in 1..(n - 1 + 1) : SubSeq(s, 1, n)[i] = s[1 + i - 1]
  BY <1>3, SubSeqProperties
<1>5. \A i \in 1..n : i \in 1..(n - 1 + 1) /\ 1 + i - 1 = i
  OBVIOUS
<1>6. Len(SubSeq(s, 1, n)) = n /\ \A i \in 1..n : SubSeq(s, 1, n)[i] = s[i]
  BY <1>4, <1>5
<1>7. Front(s) = SubSeq(s, 1, n) /\ Len(s) - 1 = n
  BY <1>2 DEF Front
<1> QED
  BY <1>1, <1>4, <1>6, <1>7

LEMMA GotoFacts ==
  ASSUME TypeOK, NEW r \in Requests, Flushing(r), NEW f \in Frames
  PROVE  LET n == Len(frames[r])
         IN /\ n \in Nat \ {0} /\ Top(r) = frames[r][n] /\ Top(r) \in Frames
            /\ Goto(r, f) \in Seq(Frames) /\ Len(Goto(r, f)) = n /\ Goto(r, f)[n] = f
            /\ \A k \in 1..(n - 1) : Goto(r, f)[k] = frames[r][k]
<1>1. frames[r] \in Seq(Frames) /\ frames[r] # <<>>
  BY DEF TypeOK, Flushing
<1>2. /\ Len(frames[r]) \in Nat \ {0} /\ Top(r) = frames[r][Len(frames[r])] /\ Top(r) \in Frames
      /\ Front(frames[r]) \in Seq(Frames) /\ Len(Front(frames[r])) = Len(frames[r]) - 1
      /\ \A i \in 1..(Len(frames[r]) - 1) : Front(frames[r])[i] = frames[r][i]
  BY <1>1, FrontFacts DEF Top
<1> QED
  BY <1>2 DEF Goto

-----------------------------------------------------------------------------
(* What the steps of a flush do to the frames.                             *)

\* Frame f takes the place of the innermost one of thread r.
Replaces(r, f) ==
  LET n == Len(frames[r])
  IN /\ n \in Nat \ {0} /\ f \in Frames
     /\ frames'[r] \in Seq(Frames) /\ Len(frames'[r]) = n /\ frames'[r][n] = f
     /\ \A k \in 1..(n - 1) : frames'[r][k] = frames[r][k]
     /\ \A q \in Requests \ {r} : frames'[q] = frames[q]

LEMMA GotoReplaces ==
  ASSUME TypeOK, NEW r \in Requests, Flushing(r), NEW f \in Frames,
         frames' = [frames EXCEPT ![r] = Goto(r, f)]
  PROVE  Replaces(r, f) /\ frames' \in [Requests -> Seq(Frames)]
BY GotoFacts DEF Replaces, TypeOK

LEMMA CopyFrames ==
  ASSUME TypeOK, NEW r \in Requests, Copy(r)
  PROVE  /\ frames' \in [Requests -> Seq(Frames)]
         /\ Replaces(r, [todo |-> collected, at |-> "clear"])
         /\ frames[r][Len(frames[r])].at = "copy"
<1>1. [todo |-> collected, at |-> "clear"] \in Frames
  BY DEF TypeOK, Frames
<1> QED
  BY <1>1, GotoReplaces, GotoFacts DEF Copy, Copied, At

LEMMA ClearFrames ==
  ASSUME TypeOK, NEW r \in Requests, Clear(r)
  PROVE  /\ frames' \in [Requests -> Seq(Frames)]
         /\ Replaces(r, [todo |-> frames[r][Len(frames[r])].todo, at |-> "next"])
         /\ frames[r][Len(frames[r])].at = "clear"
<1>1. Flushing(r) /\ Entered \in Frames
  BY DEF Clear, At, Frames, Entered
<1>2. Top(r) \in Frames /\ Top(r) = frames[r][Len(frames[r])]
  BY <1>1, GotoFacts
<1>3. /\ [Top(r) EXCEPT !.at = "next"] = [todo |-> frames[r][Len(frames[r])].todo, at |-> "next"]
      /\ [todo |-> frames[r][Len(frames[r])].todo, at |-> "next"] \in Frames
  BY <1>2 DEF Frames
<1> QED
  BY <1>1, <1>2, <1>3, GotoReplaces DEF Clear, At

\* The innermost frame has something to do.
Busy(r) ==
  LET f == frames[r][Len(frames[r])]
  IN f \in Frames /\ f.todo # <<>> /\ f.todo[1] \in Events

LEMMA PersistFrames ==
  ASSUME TypeOK, NEW r \in Requests, Persist(r)
  PROVE  LET n == Len(frames[r])
             f == frames[r][n]
         IN /\ frames' \in [Requests -> Seq(Frames)]
            /\ Busy(r) /\ f.at = "next" /\ n \in Nat \ {0}
            /\ Len(frames'[r]) = n + 1 /\ frames'[r][n + 1] = Entered
            /\ frames'[r][n] = [todo |-> f.todo, at |-> "dispatch"]
            /\ \A k \in 1..(n - 1) : frames'[r][k] = frames[r][k]
            /\ \A q \in Requests \ {r} : frames'[q] = frames[q]
            /\ f.todo[1] \notin stored /\ stored' = stored \cup {f.todo[1]}
<1> DEFINE n == Len(frames[r])
           f == frames[r][n]
           g == [todo |-> f.todo, at |-> "dispatch"]
<1>1. Flushing(r) /\ Entered \in Frames
  BY DEF Persist, At, Frames, Entered
<1>2. Top(r) = f /\ f \in Frames /\ n \in Nat \ {0}
  BY <1>1, GotoFacts
<1>3. f.todo # <<>> /\ f.at = "next"
  BY <1>2 DEF Persist, At
<1>4. Head(f.todo) = f.todo[1] /\ f.todo[1] \in Events
  BY <1>2, <1>3, TailFacts DEF Frames
<1>5. [Top(r) EXCEPT !.at = "dispatch"] = g /\ g \in Frames
  BY <1>2 DEF Frames
<1>6. /\ Goto(r, g) \in Seq(Frames) /\ Len(Goto(r, g)) = n /\ Goto(r, g)[n] = g
      /\ \A k \in 1..(n - 1) : Goto(r, g)[k] = frames[r][k]
  BY <1>1, <1>5, GotoFacts
<1>7. frames' = [frames EXCEPT ![r] = Append(Goto(r, g), Entered)]
  BY <1>5 DEF Persist
<1>8. frames'[r] = Append(Goto(r, g), Entered) /\ \A q \in Requests \ {r} : frames'[q] = frames[q]
  BY <1>7 DEF TypeOK
<1>9. frames' \in [Requests -> Seq(Frames)]
  BY <1>1, <1>6, <1>7 DEF TypeOK
<1>10. f.todo[1] \notin stored /\ stored' = stored \cup {f.todo[1]}
  BY <1>2, <1>4 DEF Persist, Storable
<1> QED
  BY <1>1, <1>2, <1>3, <1>4, <1>6, <1>8, <1>9, <1>10 DEF Busy

LEMMA PersistFailsFrames ==
  ASSUME TypeOK, NEW r \in Requests, PersistFails(r)
  PROVE  /\ frames' \in [Requests -> Seq(Frames)]
         /\ Replaces(r, [todo |-> Tail(frames[r][Len(frames[r])].todo), at |-> "next"])
<1> DEFINE f == frames[r][Len(frames[r])]
<1>1. Flushing(r) /\ Entered \in Frames
  BY DEF PersistFails, At, Frames, Entered
<1>2. Top(r) = f /\ f \in Frames
  BY <1>1, GotoFacts
<1>3. f.todo # <<>> /\ f.at = "next"
  BY <1>2 DEF PersistFails, At
<1>4. Tail(f.todo) \in Seq(Events)
  BY <1>2, <1>3, TailFacts DEF Frames
<1>5. [todo |-> Tail(f.todo), at |-> "next"] \in Frames
  BY <1>4 DEF Frames
<1>6. [Top(r) EXCEPT !.todo = Tail(@)] = [todo |-> Tail(f.todo), at |-> "next"]
  <2>1. f = [todo |-> f.todo, at |-> f.at]
    BY <1>2 DEF Frames
  <2> QED
    BY <1>2, <1>3, <2>1
<1> QED
  BY <1>1, <1>5, <1>6, GotoReplaces DEF PersistFails

LEMMA DispatchFrames ==
  ASSUME TypeOK, NEW r \in Requests, Dispatch(r), frames[r][Len(frames[r])].todo # <<>>
  PROVE  LET f == frames[r][Len(frames[r])]
         IN /\ frames' \in [Requests -> Seq(Frames)]
            /\ Replaces(r, [todo |-> Tail(f.todo), at |-> "next"])
            /\ Busy(r) /\ f.at = "dispatch"
            /\ handled' = Append(handled, f.todo[1])
<1> DEFINE f == frames[r][Len(frames[r])]
<1>1. Flushing(r) /\ Entered \in Frames
  BY DEF Dispatch, At, Frames, Entered
<1>2. Top(r) = f /\ f \in Frames
  BY <1>1, GotoFacts
<1>3. Tail(f.todo) \in Seq(Events) /\ Head(f.todo) = f.todo[1] /\ f.todo[1] \in Events
  BY <1>2, TailFacts DEF Frames
<1>4. [todo |-> Tail(f.todo), at |-> "next"] \in Frames
  BY <1>3 DEF Frames
<1>5. frames' = [frames EXCEPT ![r] = Goto(r, [todo |-> Tail(f.todo), at |-> "next"])]
  BY <1>2 DEF Dispatch, Rest
<1>6. frames' \in [Requests -> Seq(Frames)] /\ Replaces(r, [todo |-> Tail(f.todo), at |-> "next"])
  BY <1>1, <1>4, <1>5, GotoReplaces
<1> QED
  BY <1>2, <1>3, <1>6 DEF Dispatch, At, Busy

LEMMA ReturnFrames ==
  ASSUME TypeOK, NEW r \in Requests, Return(r)
  PROVE  LET n == Len(frames[r])
         IN /\ frames' \in [Requests -> Seq(Frames)]
            /\ n \in Nat \ {0} /\ frames[r][n].at = "next"
            /\ Len(frames'[r]) = n - 1 /\ \A k \in 1..(n - 1) : frames'[r][k] = frames[r][k]
            /\ \A q \in Requests \ {r} : frames'[q] = frames[q]
<1>1. frames[r] \in Seq(Frames) /\ frames[r] # <<>>
  BY DEF TypeOK, Return, At, Flushing
<1>2. /\ Len(frames[r]) \in Nat \ {0} /\ Last(frames[r]) = frames[r][Len(frames[r])]
      /\ Front(frames[r]) \in Seq(Frames) /\ Len(Front(frames[r])) = Len(frames[r]) - 1
      /\ \A i \in 1..(Len(frames[r]) - 1) : Front(frames[r])[i] = frames[r][i]
  BY <1>1, FrontFacts
<1>3. frames'[r] = Front(frames[r]) /\ \A q \in Requests \ {r} : frames'[q] = frames[q]
  BY DEF Return, TypeOK
<1>4. frames' \in [Requests -> Seq(Frames)]
  BY <1>2 DEF Return, TypeOK
<1> QED
  BY <1>2, <1>3, <1>4 DEF Return, At, Top
-----------------------------------------------------------------------------
(* Types, and that no event is handled twice.                              *)

\* Frame k of thread r is about to dispatch its first event.
Claims(r, k) == frames[r][k].at = "dispatch"
Claimed(r, k) == frames[r][k].todo[1]

\* An event is stored by one flush only, which then dispatches it.
Once ==
  /\ \A i \in 1..Len(handled) : handled[i] \in stored
  /\ \A i, j \in 1..Len(handled) : handled[i] = handled[j] => i = j
  /\ \A r \in Requests : \A k \in 1..Len(frames[r]) : Claims(r, k) =>
       /\ frames[r][k].todo # <<>> /\ Claimed(r, k) \in stored
       /\ \A i \in 1..Len(handled) : handled[i] # Claimed(r, k)
  /\ \A r, q \in Requests : \A k \in 1..Len(frames[r]), j \in 1..Len(frames[q]) :
       Claims(r, k) /\ Claims(q, j) /\ Claimed(r, k) = Claimed(q, j) => r = q /\ k = j

\* A step that stores and handles nothing and makes no frame dispatch.
LEMMA NoNewClaims ==
  ASSUME Once, stored' = stored, handled' = handled,
         \A r \in Requests : \A k \in 1..Len(frames'[r]) :
           frames'[r][k].at = "dispatch" => k \in 1..Len(frames[r]) /\ frames'[r][k] = frames[r][k]
  PROVE  Once'
<1>1. \A r \in Requests : \A k \in 1..Len(frames'[r]) : Claims(r, k)' =>
        /\ k \in 1..Len(frames[r]) /\ frames'[r][k] = frames[r][k]
        /\ Claims(r, k) /\ Claimed(r, k)' = Claimed(r, k)
  BY DEF Claims, Claimed
<1>2. \A r \in Requests : \A k \in 1..Len(frames'[r]) : Claims(r, k)' =>
        /\ frames'[r][k].todo # <<>> /\ Claimed(r, k)' \in stored'
        /\ \A i \in 1..Len(handled') : handled'[i] # Claimed(r, k)'
  BY <1>1 DEF Once
<1>3. \A r, q \in Requests : \A k \in 1..Len(frames'[r]), j \in 1..Len(frames'[q]) :
        Claims(r, k)' /\ Claims(q, j)' /\ Claimed(r, k)' = Claimed(q, j)' => r = q /\ k = j
  BY <1>1 DEF Once
<1> QED
  BY <1>2, <1>3 DEF Once

LEMMA DispatchBusy ==
  ASSUME TypeOK, Once, NEW r \in Requests, Dispatch(r)
  PROVE  frames[r][Len(frames[r])].todo # <<>>
<1>1. Flushing(r) /\ Entered \in Frames
  BY DEF Dispatch, At, Frames, Entered
<1>2. Len(frames[r]) \in Nat \ {0} /\ Top(r) = frames[r][Len(frames[r])]
  BY <1>1, GotoFacts
<1> QED
  BY <1>2 DEF Dispatch, At, Once, Claims

LEMMA TypesInit == Init => TypeOK /\ Once
<1> SUFFICES ASSUME Init PROVE TypeOK /\ Once
  OBVIOUS
<1>1. TypeOK
  BY MaxEventsAssumption DEF Init, TypeOK
<1>2. Once
  BY DEF Init, Once
<1> QED
  BY <1>1, <1>2

LEMMA TypesStep == TypeOK /\ Once /\ [Next]_vars => TypeOK'
<1> SUFFICES ASSUME TypeOK, Once, [Next]_vars PROVE TypeOK'
  OBVIOUS
<1> USE MaxEventsAssumption
<1>1. ASSUME NEW r \in Requests, Collect(r) PROVE TypeOK'
  <2>1. sent[r] + 1 \in 1..MaxEvents /\ <<r, sent[r] + 1>> \in Events
    BY <1>1 DEF Collect, TypeOK, Events
  <2>2. collected' \in Seq(Events) /\ sent' \in [Requests -> 0..MaxEvents]
    BY <1>1, <2>1 DEF Collect, TypeOK
  <2>3. calm' \in BOOLEAN
    BY <1>1 DEF Collect, TypeOK
  <2> QED
    BY <1>1, <2>2, <2>3 DEF Collect, TypeOK
<1>2. ASSUME NEW r \in Requests, Commit(r) PROVE TypeOK'
  <2>1. <<Entered>> \in Seq(Frames)
    BY DEF Entered, Frames
  <2>2. frames' \in [Requests -> Seq(Frames)]
    BY <1>2, <2>1 DEF Commit, TypeOK
  <2>3. calm' \in BOOLEAN
    BY <1>2 DEF Commit, TypeOK
  <2> QED
    BY <1>2, <2>2, <2>3 DEF Commit, TypeOK
<1>3. ASSUME NEW r \in Requests, Fail(r) PROVE TypeOK'
  <2>1. collected' \in Seq(Events) /\ calm' \in BOOLEAN
    BY <1>3 DEF Fail, Discarded, TypeOK
  <2> QED
    BY <1>3, <2>1 DEF Fail, TypeOK
<1>4. ASSUME NEW r \in Requests, Close(r) PROVE TypeOK'
  BY <1>4 DEF Close, TypeOK
<1>5. ASSUME NEW r \in Requests, Copy(r) PROVE TypeOK'
  BY <1>5, CopyFrames DEF Copy, TypeOK
<1>6. ASSUME NEW r \in Requests, Clear(r) PROVE TypeOK'
  BY <1>6, ClearFrames, Empty DEF Clear, TypeOK
<1>7. ASSUME NEW r \in Requests, Persist(r) PROVE TypeOK'
  <2>1. frames' \in [Requests -> Seq(Frames)] /\ stored' \subseteq Events
    BY <1>7, PersistFrames DEF TypeOK, Busy
  <2> QED
    BY <1>7, <2>1 DEF Persist, TypeOK
<1>8. ASSUME NEW r \in Requests, PersistFails(r) PROVE TypeOK'
  BY <1>8, PersistFailsFrames, Empty DEF PersistFails, TypeOK
<1>9. ASSUME NEW r \in Requests, Dispatch(r) PROVE TypeOK'
  <2>1. frames[r][Len(frames[r])].todo # <<>>
    BY <1>9, DispatchBusy
  <2>2. /\ frames' \in [Requests -> Seq(Frames)] /\ Busy(r)
        /\ handled' = Append(handled, frames[r][Len(frames[r])].todo[1])
    BY <1>9, <2>1, DispatchFrames
  <2>3. handled' \in Seq(Events)
    BY <2>2 DEF TypeOK, Busy
  <2> QED
    BY <1>9, <2>2, <2>3 DEF Dispatch, TypeOK
<1>10. ASSUME NEW r \in Requests, Return(r) PROVE TypeOK'
  BY <1>10, ReturnFrames DEF Return, TypeOK
<1>11. ASSUME Crash PROVE TypeOK'
  <2>1. frames' \in [Requests -> Seq(Frames)] /\ collected' \in Seq(Events)
    BY <1>11, Empty DEF Crash
  <2>2. phase' \in [Requests -> {"open", "committed", "failed", "closed"}]
    BY <1>11 DEF Crash, TypeOK
  <2> QED
    BY <1>11, <2>1, <2>2 DEF Crash, TypeOK
<1>12. CASE UNCHANGED vars
  BY <1>12 DEF vars, TypeOK
<1> QED
  BY <1>1, <1>2, <1>3, <1>4, <1>5, <1>6, <1>7, <1>8, <1>9, <1>10, <1>11, <1>12 DEF Next, FlushStep

LEMMA OnceStep == TypeOK /\ Once /\ [Next]_vars => Once'
<1> SUFFICES ASSUME TypeOK, Once, [Next]_vars PROVE Once'
  OBVIOUS
<1>1. CASE UNCHANGED <<stored, handled, frames>>
  BY <1>1, NoNewClaims
<1>2. ASSUME NEW r \in Requests, Commit(r) PROVE Once'
  <2>1. \A q \in Requests : frames'[q] = frames[q] \/ frames'[q] = <<Entered>>
    BY <1>2 DEF Commit, TypeOK
  <2>2. \A q \in Requests : \A k \in 1..Len(frames'[q]) :
          frames'[q][k].at = "dispatch" => k \in 1..Len(frames[q]) /\ frames'[q][k] = frames[q][k]
    BY <2>1 DEF Entered
  <2> QED
    BY <1>2, <2>2, NoNewClaims DEF Commit
<1>3. ASSUME NEW r \in Requests, Copy(r) \/ Clear(r) \/ PersistFails(r) PROVE Once'
  <2>1. PICK f \in Frames : Replaces(r, f) /\ f.at # "dispatch"
    <3> DEFINE todo == frames[r][Len(frames[r])].todo
               f1 == [todo |-> collected, at |-> "clear"]
               f2 == [todo |-> todo, at |-> "next"]
               f3 == [todo |-> Tail(todo), at |-> "next"]
    <3>1. Replaces(r, f1) \/ Replaces(r, f2) \/ Replaces(r, f3)
      BY <1>3, CopyFrames, ClearFrames, PersistFailsFrames
    <3>2. f1.at # "dispatch" /\ f2.at # "dispatch" /\ f3.at # "dispatch"
      OBVIOUS
    <3>3. \A f : Replaces(r, f) => f \in Frames
      BY DEF Replaces
    <3> HIDE DEF f1, f2, f3
    <3> QED
      BY <3>1, <3>2, <3>3
  <2>2. \A q \in Requests : \A k \in 1..Len(frames'[q]) :
          frames'[q][k].at = "dispatch" => k \in 1..Len(frames[q]) /\ frames'[q][k] = frames[q][k]
    BY <2>1 DEF Replaces
  <2>3. stored' = stored /\ handled' = handled
    BY <1>3 DEF Copy, Clear, PersistFails
  <2> QED
    BY <2>2, <2>3, NoNewClaims
<1>4. ASSUME NEW r \in Requests, Return(r) PROVE Once'
  <2>1. \A q \in Requests : \A k \in 1..Len(frames'[q]) :
          frames'[q][k].at = "dispatch" => k \in 1..Len(frames[q]) /\ frames'[q][k] = frames[q][k]
    BY <1>4, ReturnFrames
  <2> QED
    BY <1>4, <2>1, NoNewClaims DEF Return
<1>5. ASSUME Crash PROVE Once'
  <2>1. \A q \in Requests : Len(frames'[q]) = 0
    BY <1>5 DEF Crash
  <2> QED
    BY <1>5, <2>1, NoNewClaims DEF Crash
<1>6. ASSUME NEW r \in Requests, Persist(r) PROVE Once'
  <2>n. PICK n : n = Len(frames[r])
    OBVIOUS
  <2>e. PICK e : e = frames[r][n].todo[1]
    OBVIOUS
  <2>1. /\ n \in Nat \ {0} /\ Len(frames'[r]) = n + 1 /\ frames'[r][n + 1] = Entered
        /\ frames'[r][n] = [todo |-> frames[r][n].todo, at |-> "dispatch"]
        /\ \A k \in 1..(n - 1) : frames'[r][k] = frames[r][k]
        /\ \A q \in Requests \ {r} : frames'[q] = frames[q]
        /\ e \notin stored /\ stored' = stored \cup {e} /\ frames[r][n].todo # <<>>
    BY <1>6, <2>n, <2>e, PersistFrames DEF Busy
  <2>2. handled' = handled
    BY <1>6 DEF Persist
  <2>3. /\ Claims(r, n)' /\ Claimed(r, n)' = e /\ ~Claims(r, n + 1)'
        /\ frames'[r][n].todo # <<>>
    BY <2>1, <2>e DEF Claims, Claimed, Entered
  <2>4. \A q \in Requests : \A k \in 1..Len(frames'[q]) : Claims(q, k)' =>
          \/ q = r /\ k = n
          \/ k \in 1..Len(frames[q]) /\ frames'[q][k] = frames[q][k] /\ Claims(q, k) /\ Claimed(q, k)' = Claimed(q, k)
    <3> SUFFICES ASSUME NEW q \in Requests, NEW k \in 1..Len(frames'[q]), Claims(q, k)', q # r \/ k # n
                 PROVE  /\ k \in 1..Len(frames[q]) /\ frames'[q][k] = frames[q][k]
                        /\ Claims(q, k) /\ Claimed(q, k)' = Claimed(q, k)
      OBVIOUS
    <3>1. CASE q # r
      BY <2>1, <3>1 DEF Claims, Claimed
    <3>2. CASE q = r /\ k \in 1..(n - 1)
      BY <2>1, <2>n, <3>2 DEF Claims, Claimed
    <3>3. q = r => k \in 1..(n - 1)
      BY <2>1, <2>3
    <3> QED
      BY <3>1, <3>2, <3>3
  <2>5. \A i \in 1..Len(handled') : handled'[i] \in stored'
    BY <2>1, <2>2 DEF Once
  <2>6. \A q \in Requests : \A k \in 1..Len(frames'[q]) : Claims(q, k)' =>
          /\ frames'[q][k].todo # <<>> /\ Claimed(q, k)' \in stored'
          /\ \A i \in 1..Len(handled') : handled'[i] # Claimed(q, k)'
    BY <2>1, <2>2, <2>3, <2>4 DEF Once
  <2>7. \A p, q \in Requests : \A k \in 1..Len(frames'[p]), j \in 1..Len(frames'[q]) :
          Claims(p, k)' /\ Claims(q, j)' /\ Claimed(p, k)' = Claimed(q, j)' => p = q /\ k = j
    BY <2>1, <2>3, <2>4 DEF Once
  <2>8. \A i, j \in 1..Len(handled') : handled'[i] = handled'[j] => i = j
    BY <2>2 DEF Once
  <2> QED
    BY <2>5, <2>6, <2>7, <2>8 DEF Once
<1>7. ASSUME NEW r \in Requests, Dispatch(r) PROVE Once'
  <2>n. PICK n : n = Len(frames[r])
    OBVIOUS
  <2>e. PICK e : e = frames[r][n].todo[1]
    OBVIOUS
  <2>1. frames[r][n].todo # <<>>
    BY <1>7, <2>n, DispatchBusy
  <2>2. /\ Replaces(r, [todo |-> Tail(frames[r][n].todo), at |-> "next"])
        /\ Claims(r, n) /\ handled' = Append(handled, e)
    BY <1>7, <2>1, <2>n, <2>e, DispatchFrames DEF Claims
  <2>3. n \in Nat \ {0} /\ e \in stored /\ \A i \in 1..Len(handled) : handled[i] # e
    BY <2>2, <2>n, <2>e DEF Once, Replaces, Claimed
  <2>4. stored' = stored
    BY <1>7 DEF Dispatch
  <2>5. \A q \in Requests : \A k \in 1..Len(frames'[q]) : Claims(q, k)' =>
          /\ k \in 1..Len(frames[q]) /\ frames'[q][k] = frames[q][k]
          /\ Claims(q, k) /\ Claimed(q, k)' = Claimed(q, k) /\ (q # r \/ k # n)
    BY <2>2, <2>n DEF Claims, Claimed, Replaces
  <2>6. \A q \in Requests : \A k \in 1..Len(frames'[q]) : Claims(q, k)' => Claimed(q, k) # e
    BY <2>2, <2>3, <2>5, <2>n, <2>e DEF Once, Claimed
  <2>7. /\ Len(handled') = Len(handled) + 1 /\ handled'[Len(handled) + 1] = e
        /\ \A i \in 1..Len(handled) : handled'[i] = handled[i]
        /\ Len(handled) \in Nat
    BY <2>2 DEF TypeOK
  <2>8. \A i \in 1..Len(handled') : handled'[i] \in stored'
    BY <2>3, <2>4, <2>7 DEF Once
  <2>9. \A i, j \in 1..Len(handled') : handled'[i] = handled'[j] => i = j
    BY <2>3, <2>7 DEF Once
  <2>10. \A q \in Requests : \A k \in 1..Len(frames'[q]) : Claims(q, k)' =>
          /\ frames'[q][k].todo # <<>> /\ Claimed(q, k)' \in stored'
          /\ \A i \in 1..Len(handled') : handled'[i] # Claimed(q, k)'
    BY <2>4, <2>5, <2>6, <2>7 DEF Once
  <2>11. \A p, q \in Requests : \A k \in 1..Len(frames'[p]), j \in 1..Len(frames'[q]) :
          Claims(p, k)' /\ Claims(q, j)' /\ Claimed(p, k)' = Claimed(q, j)' => p = q /\ k = j
    BY <2>5 DEF Once
  <2> QED
    BY <2>8, <2>9, <2>10, <2>11 DEF Once
<1> QED
  BY <1>1, <1>2, <1>3, <1>4, <1>5, <1>6, <1>7 DEF Next, FlushStep, vars, Collect, Fail, Close

LEMMA AlwaysOnce == Spec => [](TypeOK /\ Once)
BY TypesInit, TypesStep, OnceStep, PTL DEF Spec

\* Lists, frames and counters keep their types under every interleaving and
\* fault (backend/events/bus.py).
THEOREM TypeCorrect == Spec => []TypeOK
BY AlwaysOnce, PTL

\* For every set of transactions in any number of threads, whatever fails or
\* restarts, the handlers see no event twice (backend/events/bus.py
\* flush_collected, backend/orm/event_store.py).
THEOREM AlwaysHandledOnce == Spec => []HandledOnce
<1>1. TypeOK /\ Once => HandledOnce
  BY DEF TypeOK, Once, HandledOnce, IsInjective
<1> QED
  BY <1>1, AlwaysOnce, PTL

-----------------------------------------------------------------------------
(* Transactions that do not overlap.                                       *)

\* Only one transaction is in flight, and what is collected is its own.
OneInFlight ==
  /\ \A r, q \in Requests : InFlight(r) /\ InFlight(q) => r = q
  /\ \A i \in 1..Len(collected) : InFlight(collected[i][1])
  /\ \A r \in Requests : Flushing(r) => phase[r] = "committed"

\* What thread r flushes is its own.
OwnTodo(r) ==
  \A k \in 1..Len(frames[r]) : \A j \in 1..Len(frames[r][k].todo) : frames[r][k].todo[j][1] = r

\* Re-entered flushes of thread r find nothing to do.
Nested(r) ==
  Flushing(r) =>
    /\ frames[r][1].at \in {"next", "dispatch"} => collected = <<>>
    /\ \A k \in 2..Len(frames[r]) : frames[r][k].todo = <<>>
    /\ Len(frames[r]) > 1 => frames[r][1].at = "dispatch"

\* What thread r still flushes is in order, and comes after what it handled.
TodoOrdered(r) ==
  Flushing(r) =>
    /\ \A i, j \in 1..Len(frames[r][1].todo) :
         i < j => frames[r][1].todo[i][2] < frames[r][1].todo[j][2]
    /\ \A i \in 1..Len(handled), j \in 1..Len(frames[r][1].todo) :
         handled[i][1] = r => handled[i][2] < frames[r][1].todo[j][2]
    /\ frames[r][1].at = "copy" => \A i \in 1..Len(handled) : handled[i][1] # r

\* Events are collected in order.
CollectedOrdered ==
  /\ \A i \in 1..Len(collected) : collected[i][2] <= sent[collected[i][1]]
  /\ \A i, j \in 1..Len(collected) : i < j => collected[i][2] < collected[j][2]

HandledOrdered ==
  \A i, j \in 1..Len(handled) :
    i < j /\ handled[i][1] = handled[j][1] => handled[i][2] < handled[j][2]

StoredCommitted == \A e \in stored : phase[e[1]] = "committed"

Threads == \A r \in Requests : OwnTodo(r) /\ Nested(r) /\ TodoOrdered(r)

CalmInv == OneInFlight /\ Threads /\ StoredCommitted /\ CollectedOrdered /\ HandledOrdered

InCalm == calm /\ Hooked => CalmInv

\* Without hooks nothing is flushed.
Unhooked == ~Hooked => stored = {} /\ \A r \in Requests : ~Flushing(r)

LEMMA UnhookedStep == TypeOK /\ Unhooked /\ [Next]_vars => Unhooked'
<1> SUFFICES ASSUME TypeOK, Unhooked, [Next]_vars, ~Hooked
             PROVE  stored' = {} /\ \A r \in Requests : ~Flushing(r)'
  BY DEF Unhooked
<1>1. \A r \in Requests : ~FlushStep(r)
  BY DEF Unhooked, FlushStep, Copy, Clear, Persist, PersistFails, Dispatch, Return, At
<1> QED
  BY <1>1 DEF Next, vars, Collect, Commit, Fail, Close, Crash, Unhooked, Flushing, TypeOK

Calm == TypeOK /\ Once /\ CalmInv

\* In a calm run the thread that flushes is the one in flight.
LEMMA FlushInFlight ==
  ASSUME Calm, NEW r \in Requests, Flushing(r)
  PROVE  /\ InFlight(r) /\ phase[r] = "committed"
         /\ \A q \in Requests \ {r} : ~InFlight(q) /\ ~Flushing(q)
         /\ \A i \in 1..Len(collected) : collected[i] \in Events /\ collected[i][1] = r
         /\ OwnTodo(r) /\ Nested(r) /\ TodoOrdered(r)
<1>1. InFlight(r) /\ \A q \in Requests \ {r} : ~InFlight(q)
  BY DEF Calm, CalmInv, OneInFlight, InFlight
<1>2. \A q \in Requests \ {r} : ~Flushing(q)
  BY <1>1 DEF InFlight
<1>3. ASSUME NEW i \in 1..Len(collected) PROVE collected[i] \in Events /\ collected[i][1] = r
  <2>1. collected[i] \in Events /\ collected[i][1] \in Requests
    BY DEF Calm, TypeOK, Events
  <2> QED
    BY <1>1, <2>1 DEF Calm, CalmInv, OneInFlight
<1> QED
  BY <1>1, <1>2, <1>3 DEF Calm, CalmInv, OneInFlight, Threads

\* The same for a transaction that is still open.
LEMMA OpenInFlight ==
  ASSUME Calm, NEW r \in Requests, phase[r] = "open", Alone(r)
  PROVE  /\ \A q \in Requests : ~Flushing(q)
         /\ \A q \in Requests \ {r} : ~InFlight(q)
         /\ \A i \in 1..Len(collected) : collected[i] \in Events /\ collected[i][1] = r
<1>1. \A q \in Requests \ {r} : ~InFlight(q)
  BY DEF Alone
<1>2. \A q \in Requests : ~Flushing(q)
  BY <1>1 DEF Calm, CalmInv, OneInFlight, InFlight
<1>3. ASSUME NEW i \in 1..Len(collected) PROVE collected[i] \in Events /\ collected[i][1] = r
  <2>1. collected[i] \in Events /\ collected[i][1] \in Requests
    BY DEF Calm, TypeOK, Events
  <2> QED
    BY <1>1, <2>1 DEF Calm, CalmInv, OneInFlight
<1> QED
  BY <1>1, <1>2, <1>3

\* Threads that do not flush have nothing to keep.
LEMMA IdleThreads ==
  ASSUME NEW S, S \subseteq Requests, \A q \in S : ~Flushing(q)'
  PROVE  \A q \in S : OwnTodo(q)' /\ Nested(q)' /\ TodoOrdered(q)'
<1>1. \A q \in S : Len(frames'[q]) = 0
  BY DEF Flushing
<1> QED
  BY <1>1 DEF OwnTodo, Nested, TodoOrdered

\* A step of the flush of r leaves r the only one in flight.
LEMMA FlushKeepsOne ==
  ASSUME Calm, NEW r \in Requests, Flushing(r),
         phase' = phase, sent' = sent, \A q \in Requests \ {r} : frames'[q] = frames[q],
         collected' = <<>> \/ (collected' = collected /\ Flushing(r)')
  PROVE  /\ OneInFlight' /\ CollectedOrdered'
         /\ \A q \in Requests \ {r} : OwnTodo(q)' /\ Nested(q)' /\ TodoOrdered(q)'
<1>1. /\ phase[r] = "committed" /\ \A q \in Requests \ {r} : ~InFlight(q) /\ ~Flushing(q)
      /\ \A i \in 1..Len(collected) : collected[i][1] = r
  BY FlushInFlight
<1>2. \A q \in Requests \ {r} : ~InFlight(q)' /\ ~Flushing(q)'
  BY <1>1 DEF InFlight, Flushing
<1>3. \A i \in 1..Len(collected') : InFlight(collected[i][1])'
  <2>1. CASE collected' = <<>>
    BY <2>1
  <2>2. CASE collected' = collected /\ Flushing(r)'
    <3>1. InFlight(r)'
      BY <2>2 DEF InFlight
    <3>2. \A i \in 1..Len(collected') : collected'[i][1] = r
      BY <1>1, <2>2
    <3> QED
      BY <3>1, <3>2 DEF InFlight, Flushing
  <2> QED
    BY <2>1, <2>2
<1>4. \A p, q \in Requests : InFlight(p)' /\ InFlight(q)' => p = q
  BY <1>2
<1>5. \A q \in Requests : Flushing(q)' => phase'[q] = "committed"
  BY <1>1, <1>2
<1>6. CollectedOrdered'
  BY DEF Calm, CalmInv, CollectedOrdered
<1>7. OneInFlight'
  BY <1>3, <1>4, <1>5 DEF OneInFlight
<1>8. \A q \in Requests \ {r} : OwnTodo(q)' /\ Nested(q)' /\ TodoOrdered(q)'
  <2>1. Requests \ {r} \subseteq Requests
    OBVIOUS
  <2> QED
    BY <1>2, <2>1, IdleThreads
<1> QED
  BY <1>6, <1>7, <1>8

LEMMA CalmCollect ==
  ASSUME Calm, NEW r \in Requests, Collect(r), Alone(r)
  PROVE  CalmInv'
<1>a. PICK e : e = <<r, sent[r] + 1>>
  OBVIOUS
<1>0. e = <<r, sent[r] + 1>> /\ e[1] = r /\ e[2] = sent[r] + 1
  BY <1>a
<1>1. /\ phase[r] = "open" /\ sent[r] \in Nat /\ collected' = Append(collected, e)
      /\ sent'[r] = sent[r] + 1 /\ \A q \in Requests \ {r} : sent'[q] = sent[q]
      /\ UNCHANGED <<stored, handled, phase, frames>>
  BY <1>0 DEF Calm, TypeOK, Collect
<1>2. /\ \A q \in Requests : ~Flushing(q)
      /\ \A i \in 1..Len(collected) : collected[i] \in Events /\ collected[i][1] = r
  BY <1>1, OpenInFlight
<1>4. /\ Len(collected') = Len(collected) + 1 /\ collected'[Len(collected) + 1] = e
      /\ \A i \in 1..Len(collected) : collected'[i] = collected[i]
      /\ Len(collected) \in Nat
  BY <1>1 DEF Calm, TypeOK
<1>5. /\ InFlight(r)' /\ \A q \in Requests \ {r} : ~InFlight(q)'
      /\ \A q \in Requests : ~Flushing(q)'
  BY <1>1, <1>2 DEF InFlight, Alone, Flushing
<1>6. \A i \in 1..Len(collected') : collected'[i][1] = r
  BY <1>0, <1>2, <1>4
<1>7. OneInFlight'
  BY <1>1, <1>5, <1>6 DEF OneInFlight
<1>8. Threads'
  BY <1>5, IdleThreads DEF Threads
<1>9. CollectedOrdered'
  <2>1. \A i \in 1..Len(collected) : collected[i][2] \in Nat /\ collected[i][2] <= sent[r]
    BY <1>2 DEF Calm, CalmInv, CollectedOrdered, Events
  <2>2. \A i \in 1..Len(collected') : collected'[i][2] <= sent'[r]
    BY <1>0, <1>1, <1>4, <2>1
  <2>3. \A i, j \in 1..Len(collected') : i < j => collected'[i][2] < collected'[j][2]
    BY <1>0, <1>1, <1>4, <2>1 DEF Calm, CalmInv, CollectedOrdered
  <2> QED
    BY <1>6, <2>2, <2>3 DEF CollectedOrdered
<1>10. StoredCommitted' /\ HandledOrdered'
  BY <1>1 DEF Calm, CalmInv, StoredCommitted, HandledOrdered
<1> QED
  BY <1>7, <1>8, <1>9, <1>10 DEF CalmInv

LEMMA StillCommitted ==
  ASSUME Calm, NEW r \in Requests, phase[r] # "committed", stored' = stored,
         \A q \in Requests \ {r} : phase'[q] = phase[q]
  PROVE  StoredCommitted'
<1> SUFFICES ASSUME NEW e \in stored PROVE phase'[e[1]] = "committed"
  BY DEF StoredCommitted
<1>1. e[1] \in Requests /\ phase[e[1]] = "committed"
  BY DEF Calm, CalmInv, StoredCommitted, TypeOK, Events
<1> QED
  BY <1>1

LEMMA CalmCommit ==
  ASSUME Calm, Hooked, NEW r \in Requests, Commit(r), Alone(r)
  PROVE  CalmInv'
<1>1. /\ phase[r] = "open" /\ phase'[r] = "committed" /\ frames'[r] = <<Entered>>
      /\ \A q \in Requests \ {r} : phase'[q] = phase[q] /\ frames'[q] = frames[q]
      /\ UNCHANGED <<collected, stored, handled, sent>>
  BY DEF Calm, TypeOK, Commit
<1>2. /\ \A q \in Requests : ~Flushing(q)
      /\ \A i \in 1..Len(collected) : collected[i] \in Events /\ collected[i][1] = r
  BY <1>1, OpenInFlight
<1>3. /\ Flushing(r)' /\ InFlight(r)' /\ \A q \in Requests \ {r} : ~InFlight(q)' /\ ~Flushing(q)'
  BY <1>1, <1>2 DEF InFlight, Alone, Flushing
<1>4. Len(frames'[r]) = 1 /\ frames'[r][1].todo = <<>> /\ frames'[r][1].at = "copy"
  BY <1>1 DEF Entered
<1>5. OneInFlight'
  BY <1>1, <1>2, <1>3 DEF OneInFlight
<1>6. Threads'
  <2>1. \A i \in 1..Len(handled) : handled[i][1] # r
    BY <1>1 DEF Calm, CalmInv, Once, StoredCommitted
  <2>2. OwnTodo(r)'
    <3> SUFFICES ASSUME NEW k \in 1..Len(frames'[r]), NEW j \in 1..Len(frames'[r][k].todo)
                 PROVE  FALSE
      BY DEF OwnTodo
    <3>1. k = 1
      BY <1>4
    <3> QED
      BY <1>4, <3>1
  <2>3. Nested(r)'
    BY <1>4 DEF Nested
  <2>4. TodoOrdered(r)'
    BY <1>1, <1>4, <2>1 DEF TodoOrdered
  <2>5. \A q \in Requests \ {r} : OwnTodo(q)' /\ Nested(q)' /\ TodoOrdered(q)'
    BY <1>3, IdleThreads
  <2> QED
    BY <2>2, <2>3, <2>4, <2>5 DEF Threads
<1>7. CollectedOrdered' /\ HandledOrdered'
  BY <1>1 DEF Calm, CalmInv, CollectedOrdered, HandledOrdered
<1> QED
  BY <1>1, <1>5, <1>6, <1>7, StillCommitted DEF CalmInv

LEMMA CalmFail ==
  ASSUME Calm, Hooked, NEW r \in Requests, Fail(r), Alone(r)
  PROVE  CalmInv'
<1>1. /\ phase[r] = "open" /\ phase'[r] = "failed" /\ collected' = <<>>
      /\ \A q \in Requests \ {r} : phase'[q] = phase[q]
      /\ UNCHANGED <<frames, stored, handled, sent>>
  BY DEF Calm, TypeOK, Fail, Discarded
<1>2. \A q \in Requests : ~Flushing(q)
  BY <1>1, OpenInFlight
<1>3. \A q \in Requests : ~InFlight(q)' /\ ~Flushing(q)'
  BY <1>1, <1>2 DEF InFlight, Alone, Flushing
<1>4. OneInFlight' /\ CollectedOrdered' /\ HandledOrdered'
  BY <1>1, <1>3 DEF OneInFlight, CollectedOrdered, HandledOrdered, Calm, CalmInv
<1>5. Threads'
  BY <1>3, IdleThreads DEF Threads
<1> QED
  BY <1>1, <1>4, <1>5, StillCommitted DEF CalmInv

LEMMA CalmCopy ==
  ASSUME Calm, NEW r \in Requests, Copy(r)
  PROVE  CalmInv'
<1>0. PICK n : n = Len(frames[r])
  OBVIOUS
<1>1. /\ Replaces(r, [todo |-> collected, at |-> "clear"]) /\ frames[r][n].at = "copy"
      /\ UNCHANGED <<collected, stored, handled, phase, sent>> /\ Flushing(r)
  BY <1>0, CopyFrames DEF Calm, Copy, At
<1>2. /\ n \in Nat \ {0} /\ Len(frames'[r]) = n
      /\ frames'[r][n].todo = collected /\ frames'[r][n].at = "clear"
      /\ \A k \in 1..(n - 1) : frames'[r][k] = frames[r][k]
      /\ \A q \in Requests \ {r} : frames'[q] = frames[q]
  BY <1>0, <1>1 DEF Replaces
<1>3. Flushing(r)'
  BY <1>2 DEF Flushing
<1>4. /\ OneInFlight' /\ CollectedOrdered'
      /\ \A q \in Requests \ {r} : OwnTodo(q)' /\ Nested(q)' /\ TodoOrdered(q)'
  BY <1>1, <1>2, <1>3, FlushKeepsOne
<1>5. /\ \A i \in 1..Len(collected) : collected[i] \in Events /\ collected[i][1] = r
      /\ OwnTodo(r) /\ Nested(r) /\ TodoOrdered(r)
  BY <1>1, FlushInFlight
<1>6. n > 1 => collected = <<>> /\ frames[r][1].at = "dispatch" /\ frames'[r][1] = frames[r][1]
  BY <1>0, <1>1, <1>2, <1>5 DEF Nested
<1>7. OwnTodo(r)'
  <2> SUFFICES ASSUME NEW k \in 1..Len(frames'[r]), NEW j \in 1..Len(frames'[r][k].todo)
               PROVE  frames'[r][k].todo[j][1] = r
    BY DEF OwnTodo
  <2>1. CASE k = n
    BY <1>2, <1>5, <2>1
  <2>2. CASE k \in 1..(n - 1)
    <3>1. frames'[r][k] = frames[r][k] /\ k \in 1..Len(frames[r])
      BY <1>0, <1>2, <2>2
    <3> QED
      BY <1>5, <3>1 DEF OwnTodo
  <2> QED
    BY <1>2, <2>1, <2>2
<1>8. Nested(r)'
  <2>1. \A k \in 2..n : frames'[r][k].todo = <<>>
    BY <1>0, <1>1, <1>2, <1>5, <1>6 DEF Nested
  <2>2. n = 1 => frames'[r][1].at = "clear"
    BY <1>2
  <2> QED
    BY <1>1, <1>2, <1>6, <2>1, <2>2 DEF Nested
<1>9. TodoOrdered(r)'
  <2>1. CASE n = 1
    <3>1. frames'[r][1].todo = collected /\ frames'[r][1].at = "clear" /\ frames[r][1].at = "copy"
      BY <1>1, <1>2, <2>1
    <3>2. \A i \in 1..Len(handled) : handled[i][1] # r
      BY <1>1, <1>5, <3>1 DEF TodoOrdered
    <3>3. \A i, j \in 1..Len(collected) : i < j => collected[i][2] < collected[j][2]
      BY DEF Calm, CalmInv, CollectedOrdered
    <3> QED
      BY <1>1, <3>1, <3>2, <3>3 DEF TodoOrdered
  <2>2. CASE n > 1
    BY <1>1, <1>5, <1>6, <2>2 DEF TodoOrdered
  <2> QED
    BY <1>2, <2>1, <2>2
<1>10. Threads' /\ StoredCommitted' /\ HandledOrdered'
  BY <1>1, <1>4, <1>7, <1>8, <1>9 DEF Threads, Calm, CalmInv, StoredCommitted, HandledOrdered
<1> QED
  BY <1>4, <1>10 DEF CalmInv

LEMMA CalmClear ==
  ASSUME Calm, NEW r \in Requests, Clear(r)
  PROVE  CalmInv'
<1>0. PICK n : n = Len(frames[r])
  OBVIOUS
<1>1. /\ Replaces(r, [todo |-> frames[r][n].todo, at |-> "next"]) /\ frames[r][n].at = "clear"
      /\ collected' = <<>> /\ UNCHANGED <<stored, handled, phase, sent>> /\ Flushing(r)
  BY <1>0, ClearFrames DEF Calm, Clear, At
<1>2. /\ n \in Nat \ {0} /\ Len(frames'[r]) = n
      /\ frames'[r][n].todo = frames[r][n].todo /\ frames'[r][n].at = "next"
      /\ \A k \in 1..(n - 1) : frames'[r][k] = frames[r][k]
      /\ \A q \in Requests \ {r} : frames'[q] = frames[q]
  BY <1>0, <1>1 DEF Replaces
<1>3. /\ OneInFlight' /\ CollectedOrdered'
      /\ \A q \in Requests \ {r} : OwnTodo(q)' /\ Nested(q)' /\ TodoOrdered(q)'
  BY <1>1, <1>2, FlushKeepsOne
<1>4. OwnTodo(r) /\ Nested(r) /\ TodoOrdered(r)
  BY <1>1, FlushInFlight
<1>5. \A k \in 1..n : frames'[r][k].todo = frames[r][k].todo
  BY <1>2
<1>6. /\ n > 1 => frames'[r][1] = frames[r][1] /\ frames[r][1].at = "dispatch"
      /\ n = 1 => frames'[r][1].at = "next"
  BY <1>0, <1>1, <1>2, <1>4 DEF Nested
<1>7. OwnTodo(r)'
  <2> SUFFICES ASSUME NEW k \in 1..Len(frames'[r]), NEW j \in 1..Len(frames'[r][k].todo)
               PROVE  frames'[r][k].todo[j][1] = r
    BY DEF OwnTodo
  <2>1. frames'[r][k].todo = frames[r][k].todo /\ k \in 1..Len(frames[r])
    BY <1>0, <1>2, <1>5
  <2> QED
    BY <1>4, <2>1 DEF OwnTodo
<1>8. Nested(r)'
  <2>1. \A k \in 2..n : frames'[r][k].todo = <<>>
    BY <1>0, <1>1, <1>2, <1>4, <1>5 DEF Nested
  <2> QED
    BY <1>1, <1>2, <1>6, <2>1 DEF Nested
<1>9. TodoOrdered(r)'
  <2>1. frames'[r][1].todo = frames[r][1].todo /\ frames'[r][1].at # "copy"
    BY <1>2, <1>5, <1>6
  <2> QED
    BY <1>1, <1>4, <2>1 DEF TodoOrdered
<1>10. Threads' /\ StoredCommitted' /\ HandledOrdered'
  BY <1>1, <1>3, <1>7, <1>8, <1>9 DEF Threads, Calm, CalmInv, StoredCommitted, HandledOrdered
<1> QED
  BY <1>3, <1>10 DEF CalmInv

LEMMA CalmPersist ==
  ASSUME Calm, NEW r \in Requests, Persist(r)
  PROVE  CalmInv'
<1>0. PICK n, e : n = Len(frames[r]) /\ e = frames[r][n].todo[1]
  OBVIOUS
<1>1. /\ frames[r][n].todo # <<>> /\ frames[r][n] \in Frames /\ frames[r][n].at = "next" /\ n \in Nat \ {0}
      /\ Len(frames'[r]) = n + 1 /\ frames'[r][n + 1] = Entered
      /\ frames'[r][n] = [todo |-> frames[r][n].todo, at |-> "dispatch"]
      /\ \A q \in Requests \ {r} : frames'[q] = frames[q]
      /\ stored' = stored \cup {e}
      /\ UNCHANGED <<collected, handled, phase, sent>> /\ Flushing(r)
  BY <1>0, PersistFrames DEF Calm, Persist, At, Busy
<1>2. OwnTodo(r) /\ Nested(r) /\ TodoOrdered(r) /\ phase[r] = "committed"
  BY <1>1, FlushInFlight
<1>3. n = 1
  <2>1. n \notin 2..n
    BY <1>0, <1>1, <1>2 DEF Nested
  <2> QED
    BY <1>1, <2>1
<1>4. /\ Len(frames'[r]) = 2 /\ frames'[r][1].todo = frames[r][1].todo /\ frames'[r][1].at = "dispatch"
      /\ frames'[r][2].todo = <<>> /\ frames[r][1].at = "next" /\ Len(frames[r]) = 1
  BY <1>0, <1>1, <1>3 DEF Entered
<1>5. collected = <<>> /\ Flushing(r)'
  BY <1>1, <1>2, <1>4 DEF Nested, Flushing
<1>6. /\ OneInFlight' /\ CollectedOrdered'
      /\ \A q \in Requests \ {r} : OwnTodo(q)' /\ Nested(q)' /\ TodoOrdered(q)'
  BY <1>1, <1>5, FlushKeepsOne
<1>7. StoredCommitted'
  <2>1. 1 \in 1..Len(frames[r][1].todo) /\ e = frames[r][1].todo[1]
    BY <1>0, <1>1, <1>3 DEF Frames
  <2>2. e[1] = r
    BY <1>2, <1>4, <2>1 DEF OwnTodo
  <2> QED
    BY <1>1, <1>2, <2>2 DEF Calm, CalmInv, StoredCommitted
<1>8. OwnTodo(r)'
  <2> SUFFICES ASSUME NEW k \in 1..Len(frames'[r]), NEW j \in 1..Len(frames'[r][k].todo)
               PROVE  frames'[r][k].todo[j][1] = r
    BY DEF OwnTodo
  <2>1. k = 1
    <3>1. k # 2
      BY <1>4
    <3> QED
      BY <1>4, <3>1
  <2> QED
    BY <1>2, <1>4, <2>1 DEF OwnTodo
<1>9. Nested(r)'
  <2>1. \A k \in 2..Len(frames'[r]) : k = 2
    BY <1>4
  <2> QED
    BY <1>1, <1>4, <1>5, <2>1 DEF Nested
<1>10. TodoOrdered(r)'
  BY <1>1, <1>2, <1>4 DEF TodoOrdered
<1>11. Threads' /\ HandledOrdered'
  BY <1>1, <1>6, <1>8, <1>9, <1>10 DEF Threads, Calm, CalmInv, HandledOrdered
<1> QED
  BY <1>6, <1>7, <1>11 DEF CalmInv

LEMMA CalmDispatch ==
  ASSUME Calm, NEW r \in Requests, Dispatch(r)
  PROVE  CalmInv'
<1>0. PICK n, e, t : n = Len(frames[r]) /\ t = frames[r][n].todo /\ e = t[1]
  OBVIOUS
<1>1. t # <<>>
  BY <1>0, DispatchBusy DEF Calm
<1>2. /\ Replaces(r, [todo |-> Tail(t), at |-> "next"]) /\ frames[r][n].at = "dispatch"
      /\ frames[r][n] \in Frames /\ handled' = Append(handled, e)
      /\ UNCHANGED <<collected, stored, phase, sent>> /\ Flushing(r)
  BY <1>0, <1>1, DispatchFrames DEF Calm, Dispatch, At, Busy
<1>3. OwnTodo(r) /\ Nested(r) /\ TodoOrdered(r) /\ n \in Nat \ {0}
  BY <1>0, <1>2, FlushInFlight DEF Replaces
<1>4. n = 1
  <2>1. n \notin 2..n
    BY <1>0, <1>1, <1>2, <1>3 DEF Nested
  <2> QED
    BY <1>3, <2>1
<1>5. /\ Len(frames'[r]) = n /\ frames'[r][n] = [todo |-> Tail(t), at |-> "next"]
      /\ \A q \in Requests \ {r} : frames'[q] = frames[q]
  BY <1>0, <1>2 DEF Replaces
<1>6. /\ Len(frames'[r]) = 1 /\ Len(frames[r]) = 1 /\ frames[r][1].todo = t /\ frames[r][1].at = "dispatch"
      /\ frames'[r][1].todo = Tail(t) /\ frames'[r][1].at = "next"
  <2>1. frames[r][1].todo = t /\ frames[r][1].at = "dispatch" /\ Len(frames[r]) = 1
    BY <1>0, <1>2, <1>4
  <2>2. Len(frames'[r]) = 1 /\ frames'[r][1] = [todo |-> Tail(t), at |-> "next"]
    BY <1>4, <1>5
  <2> QED
    BY <2>1, <2>2
<1>7. collected = <<>> /\ Flushing(r)'
  BY <1>2, <1>3, <1>6 DEF Nested, Flushing
<1>8. /\ OneInFlight' /\ CollectedOrdered'
      /\ \A q \in Requests \ {r} : OwnTodo(q)' /\ Nested(q)' /\ TodoOrdered(q)'
  BY <1>2, <1>5, <1>7, FlushKeepsOne
<1>9. /\ t \in Seq(Events) /\ Tail(t) \in Seq(Events) /\ Len(Tail(t)) = Len(t) - 1 /\ Len(t) \in Nat
      /\ \A i \in 1..Len(Tail(t)) : Tail(t)[i] = t[i + 1] /\ i + 1 \in 1..Len(t)
      /\ 1 \in 1..Len(t)
  <2>1. t \in Seq(Events)
    BY <1>0, <1>2 DEF Frames
  <2> QED
    BY <1>1, <2>1, TailFacts
<1>10. \A j \in 1..Len(t) : t[j][1] = r
  <2>1. 1 \in 1..Len(frames[r])
    BY <1>6
  <2> QED
    BY <1>3, <1>6, <2>1 DEF OwnTodo
<1>11. OwnTodo(r)'
  <2> SUFFICES ASSUME NEW k \in 1..Len(frames'[r]), NEW j \in 1..Len(frames'[r][k].todo)
               PROVE  frames'[r][k].todo[j][1] = r
    BY DEF OwnTodo
  <2>1. k = 1
    BY <1>6
  <2> QED
    BY <1>6, <1>9, <1>10, <2>1
<1>12. Nested(r)'
  <2>1. \A k \in 2..Len(frames'[r]) : FALSE
    BY <1>6
  <2> QED
    BY <1>2, <1>6, <1>7, <2>1 DEF Nested
<1>13. /\ Len(handled) \in Nat /\ Len(handled') = Len(handled) + 1 /\ handled'[Len(handled) + 1] = e
       /\ \A i \in 1..Len(handled) : handled'[i] = handled[i]
  BY <1>2 DEF Calm, TypeOK
<1>14. /\ e[1] = r /\ \A i, j \in 1..Len(t) : i < j => t[i][2] < t[j][2]
       /\ \A i \in 1..Len(handled), j \in 1..Len(t) : handled[i][1] = r => handled[i][2] < t[j][2]
  BY <1>0, <1>2, <1>3, <1>6, <1>9, <1>10 DEF TodoOrdered
<1>15. HandledOrdered'
  <2> SUFFICES ASSUME NEW i \in 1..Len(handled'), NEW j \in 1..Len(handled'),
                      i < j, handled'[i][1] = handled'[j][1]
               PROVE  handled'[i][2] < handled'[j][2]
    BY DEF HandledOrdered
  <2>1. i \in 1..Len(handled)
    BY <1>13
  <2>2. CASE j \in 1..Len(handled)
    BY <1>13, <2>1, <2>2 DEF Calm, CalmInv, HandledOrdered
  <2>3. CASE j = Len(handled) + 1
    BY <1>0, <1>9, <1>13, <1>14, <2>1, <2>3
  <2> QED
    BY <1>13, <2>2, <2>3
<1>16. TodoOrdered(r)'
  <2>1. \A i, j \in 1..Len(Tail(t)) : i < j => Tail(t)[i][2] < Tail(t)[j][2]
    BY <1>9, <1>14
  <2>2. \A i \in 1..Len(handled'), j \in 1..Len(Tail(t)) : handled'[i][1] = r => handled'[i][2] < Tail(t)[j][2]
    <3> SUFFICES ASSUME NEW i \in 1..Len(handled'), NEW j \in 1..Len(Tail(t)), handled'[i][1] = r
                 PROVE  handled'[i][2] < Tail(t)[j][2]
      OBVIOUS
    <3>1. Tail(t)[j] = t[j + 1] /\ j + 1 \in 1..Len(t) /\ 1 < j + 1
      BY <1>9
    <3>2. CASE i \in 1..Len(handled)
      BY <1>13, <1>14, <3>1, <3>2
    <3>3. CASE i = Len(handled) + 1
      BY <1>0, <1>9, <1>13, <1>14, <3>1, <3>3
    <3> QED
      BY <1>13, <3>2, <3>3
  <2> QED
    BY <1>6, <2>1, <2>2 DEF TodoOrdered
<1>17. Threads' /\ StoredCommitted'
  BY <1>2, <1>8, <1>11, <1>12, <1>16 DEF Threads, Calm, CalmInv, StoredCommitted
<1> QED
  BY <1>8, <1>15, <1>17 DEF CalmInv

LEMMA CalmReturn ==
  ASSUME Calm, NEW r \in Requests, Return(r)
  PROVE  CalmInv'
<1>0. PICK n : n = Len(frames[r])
  OBVIOUS
<1>1. /\ n \in Nat \ {0} /\ frames[r][n].at = "next" /\ frames' \in [Requests -> Seq(Frames)]
      /\ Len(frames'[r]) = n - 1 /\ \A k \in 1..(n - 1) : frames'[r][k] = frames[r][k]
      /\ \A q \in Requests \ {r} : frames'[q] = frames[q]
      /\ UNCHANGED <<collected, stored, handled, phase, sent>> /\ Flushing(r)
  BY <1>0, ReturnFrames DEF Calm, Return, At
<1>2. OwnTodo(r) /\ Nested(r) /\ TodoOrdered(r)
  BY <1>1, FlushInFlight
<1>3. collected = <<>>
  <2>1. n = 1 \/ n > 1
    BY <1>1
  <2> QED
    BY <1>0, <1>1, <1>2, <2>1 DEF Nested
<1>4. /\ OneInFlight' /\ CollectedOrdered'
      /\ \A q \in Requests \ {r} : OwnTodo(q)' /\ Nested(q)' /\ TodoOrdered(q)'
  BY <1>1, <1>3, FlushKeepsOne
<1>5. Flushing(r)' => n > 1 /\ frames'[r][1] = frames[r][1]
  <2>1. frames'[r] \in Seq(Frames)
    BY <1>1
  <2>2. Flushing(r)' => Len(frames'[r]) # 0
    BY <2>1 DEF Flushing
  <2> QED
    BY <1>1, <2>2
<1>6. OwnTodo(r)'
  <2> SUFFICES ASSUME NEW k \in 1..Len(frames'[r]), NEW j \in 1..Len(frames'[r][k].todo)
               PROVE  frames'[r][k].todo[j][1] = r
    BY DEF OwnTodo
  <2>1. k \in 1..Len(frames[r]) /\ frames'[r][k] = frames[r][k]
    BY <1>0, <1>1
  <2> QED
    BY <1>2, <2>1 DEF OwnTodo
<1>7. Nested(r)'
  <2>1. \A k \in 2..Len(frames'[r]) : k \in 2..Len(frames[r]) /\ frames'[r][k] = frames[r][k]
    BY <1>0, <1>1
  <2> QED
    BY <1>0, <1>1, <1>2, <1>3, <1>5, <2>1 DEF Nested
<1>8. TodoOrdered(r)'
  BY <1>1, <1>2, <1>5 DEF TodoOrdered
<1>9. Threads' /\ StoredCommitted' /\ HandledOrdered'
  BY <1>1, <1>4, <1>6, <1>7, <1>8 DEF Threads, Calm, CalmInv, StoredCommitted, HandledOrdered
<1> QED
  BY <1>4, <1>9 DEF CalmInv

LEMMA InCalmStep == TypeOK /\ Once /\ InCalm /\ [Next]_vars => InCalm'
<1> SUFFICES ASSUME TypeOK, Once, InCalm, [Next]_vars, calm', Hooked PROVE CalmInv'
  BY DEF InCalm
<1>1. calm
  BY DEF Next, FlushStep, Collect, Commit, Fail, Close, Copy, Clear, Persist, PersistFails, Dispatch,
         Return, Crash, vars
<1>2. Calm
  BY <1>1 DEF InCalm, Calm
<1>3. ASSUME NEW r \in Requests, Collect(r) \/ Commit(r) \/ Fail(r) PROVE CalmInv'
  <2>1. Alone(r)
    BY <1>3 DEF Collect, Commit, Fail
  <2> QED
    BY <1>2, <1>3, <2>1, CalmCollect, CalmCommit, CalmFail
<1>4. ASSUME NEW r \in Requests, FlushStep(r) PROVE CalmInv'
  <2>1. ~PersistFails(r)
    BY DEF PersistFails
  <2> QED
    BY <1>2, <1>4, <2>1, CalmCopy, CalmClear, CalmPersist, CalmDispatch, CalmReturn DEF FlushStep
<1>5. ~Crash /\ \A r \in Requests : ~Close(r)
  BY DEF Crash, Close
<1>6. CASE UNCHANGED vars
  BY <1>2, <1>6 DEF vars, Calm, CalmInv, OneInFlight, Threads, OwnTodo, Nested, TodoOrdered, StoredCommitted,
                   CollectedOrdered, HandledOrdered, InFlight, Flushing
<1> QED
  BY <1>3, <1>4, <1>5, <1>6 DEF Next

LEMMA AlwaysInCalm == Spec => [](TypeOK /\ Once /\ Unhooked /\ InCalm)
<1>1. Init => Unhooked /\ InCalm
  <2> SUFFICES ASSUME Init PROVE Unhooked /\ InCalm
    OBVIOUS
  <2>1. \A r \in Requests : frames[r] = <<>> /\ ~Flushing(r) /\ ~InFlight(r) /\ Len(frames[r]) = 0
    BY DEF Init, Flushing, InFlight
  <2>2. collected = <<>> /\ stored = {} /\ handled = <<>>
    BY DEF Init
  <2> QED
    BY <2>1, <2>2 DEF Unhooked, InCalm, CalmInv, OneInFlight, Threads, OwnTodo, Nested, TodoOrdered,
                      StoredCommitted, CollectedOrdered, HandledOrdered
<1> QED
  BY <1>1, TypesInit, TypesStep, OnceStep, UnhookedStep, InCalmStep, PTL DEF Spec

-----------------------------------------------------------------------------
(* Nothing is left behind.                                                 *)

Listed(e) == \E i \in 1..Len(collected) : collected[i] = e
Queued(r, e) == \E j \in 1..Len(frames[r][1].todo) : frames[r][1].todo[j] = e
Dispatched(e) == \E i \in 1..Len(handled) : handled[i] = e

\* Where event k of transaction r is.
Accounted(r) ==
  \A k \in 1..sent[r] :
    /\ phase[r] = "open" => Listed(<<r, k>>)
    /\ phase[r] = "committed" =>
         \/ Dispatched(<<r, k>>)
         \/ Flushing(r) /\ (IF frames[r][1].at = "copy" THEN Listed(<<r, k>>) ELSE Queued(r, <<r, k>>))

AllAccounted == calm /\ Hooked => \A r \in Requests : Accounted(r)

\* What a transaction that is not in flight has sent was handled, and stays so.
LEMMA IdleAccounted ==
  ASSUME Calm, NEW q \in Requests, Accounted(q), ~InFlight(q), sent'[q] = sent[q], phase'[q] = phase[q],
         \A e : Dispatched(e) => Dispatched(e)'
  PROVE  Accounted(q)'
<1>1. phase[q] = "open" => sent[q] = 0
  BY DEF InFlight, Calm, TypeOK
<1>2. \A k \in 1..sent[q] : phase[q] = "committed" => Dispatched(<<q, k>>)
  BY DEF InFlight, Accounted
<1> QED
  BY <1>1, <1>2 DEF Accounted

LEMMA CollectAccounted ==
  ASSUME Calm, \A q \in Requests : Accounted(q), NEW r \in Requests, Collect(r), Alone(r)
  PROVE  \A q \in Requests : Accounted(q)'
<1>a. PICK e : e = <<r, sent[r] + 1>>
  OBVIOUS
<1>1. /\ phase[r] = "open" /\ sent[r] \in Nat /\ collected' = Append(collected, e)
      /\ sent'[r] = sent[r] + 1 /\ \A q \in Requests \ {r} : sent'[q] = sent[q]
      /\ UNCHANGED <<handled, phase>> /\ collected \in Seq(Events)
  BY <1>a DEF Calm, TypeOK, Collect
<1>2. \A q \in Requests \ {r} : Accounted(q)'
  BY <1>1, IdleAccounted DEF Alone, Dispatched
<1>3. \A d : Listed(d) => Listed(d)'
  BY <1>1 DEF Listed
<1>4. Listed(e)'
  <2>1. Len(collected') = Len(collected) + 1 /\ collected'[Len(collected) + 1] = e /\ Len(collected) \in Nat
    BY <1>1
  <2>2. Len(collected) + 1 \in 1..Len(collected')
    BY <2>1
  <2> QED
    BY <2>1, <2>2 DEF Listed
<1>5. \A k \in 1..sent'[r] : Listed(<<r, k>>)'
  <2> SUFFICES ASSUME NEW k \in 1..sent'[r] PROVE Listed(<<r, k>>)'
    OBVIOUS
  <2>1. CASE k \in 1..sent[r]
    <3>1. Listed(<<r, k>>)
      BY <1>1, <2>1 DEF Accounted
    <3> QED
      BY <1>3, <3>1
  <2>2. CASE k = sent[r] + 1
    BY <1>a, <1>4, <2>2
  <2> QED
    BY <1>1, <2>1, <2>2
<1>6. Accounted(r)'
  BY <1>1, <1>5 DEF Accounted
<1> QED
  BY <1>2, <1>6

LEMMA EndAccounted ==
  ASSUME Calm, Hooked, \A q \in Requests : Accounted(q), NEW r \in Requests, Commit(r) \/ Fail(r), Alone(r)
  PROVE  \A q \in Requests : Accounted(q)'
<1>1. /\ phase[r] = "open" /\ UNCHANGED <<handled, sent>> /\ phase'[r] \in {"committed", "failed"}
      /\ \A q \in Requests \ {r} : phase'[q] = phase[q]
  BY DEF Calm, TypeOK, Commit, Fail
<1>2. \A q \in Requests \ {r} : Accounted(q)'
  BY <1>1, IdleAccounted DEF Alone, Dispatched
<1>3. phase'[r] = "committed" => collected' = collected /\ frames'[r] = <<Entered>>
  BY <1>1 DEF Calm, TypeOK, Commit, Fail
<1>4. phase'[r] = "committed" => Flushing(r)' /\ frames'[r][1].at = "copy"
  BY <1>3 DEF Flushing, Entered
<1>5. \A k \in 1..sent[r] : Listed(<<r, k>>)
  BY <1>1 DEF Accounted
<1>6. Accounted(r)'
  BY <1>1, <1>3, <1>4, <1>5 DEF Accounted, Listed
<1> QED
  BY <1>2, <1>6

\* The steps of a flush that neither take an event from its list nor leave it.
LEMMA StepAccounted ==
  ASSUME Calm, \A q \in Requests : Accounted(q), NEW r \in Requests, Copy(r) \/ Clear(r) \/ Persist(r)
  PROVE  \A q \in Requests : Accounted(q)'
<1>0. PICK n : n = Len(frames[r])
  OBVIOUS
<1>1. Flushing(r) /\ UNCHANGED <<handled, phase, sent>>
  BY DEF Copy, Clear, Persist, At
<1>2. phase[r] = "committed" /\ Nested(r) /\ \A q \in Requests \ {r} : ~InFlight(q)
  BY <1>1, FlushInFlight
<1>3. \A q \in Requests \ {r} : Accounted(q)'
  BY <1>1, <1>2, IdleAccounted DEF Dispatched
<1>4. n \in Nat \ {0} /\ (n = 1 \/ (1 \in 1..(n - 1) /\ frames[r][1].at = "dispatch"))
  BY <1>0, <1>1, <1>2, FrontFacts DEF Nested, Flushing, Calm, TypeOK
<1>5. /\ Flushing(r)' /\ frames'[r][1].at # "copy"
      /\ frames'[r][1].todo = IF frames[r][1].at = "copy" THEN collected ELSE frames[r][1].todo
  <2>1. CASE Copy(r)
    <3>1. Replaces(r, [todo |-> collected, at |-> "clear"]) /\ frames[r][n].at = "copy"
      BY <1>0, <2>1, CopyFrames DEF Calm
    <3> QED
      BY <1>0, <1>4, <3>1 DEF Replaces, Flushing
  <2>2. CASE Clear(r)
    <3>1. Replaces(r, [todo |-> frames[r][n].todo, at |-> "next"]) /\ frames[r][n].at = "clear"
      BY <1>0, <2>2, ClearFrames DEF Calm
    <3> QED
      BY <1>0, <1>4, <3>1 DEF Replaces, Flushing
  <2>3. CASE Persist(r)
    <3>1. /\ frames[r][n].at = "next" /\ Len(frames'[r]) = n + 1
          /\ frames'[r][n] = [todo |-> frames[r][n].todo, at |-> "dispatch"]
          /\ \A k \in 1..(n - 1) : frames'[r][k] = frames[r][k]
      BY <1>0, <2>3, PersistFrames DEF Calm
    <3>2. Flushing(r)'
      BY <1>4, <3>1 DEF Flushing
    <3> QED
      BY <1>4, <3>1, <3>2
  <2> QED
    BY <2>1, <2>2, <2>3
<1>6. \A k \in 1..sent[r] : Dispatched(<<r, k>>)' \/ Queued(r, <<r, k>>)'
  <2> SUFFICES ASSUME NEW k \in 1..sent[r], ~Dispatched(<<r, k>>) PROVE Queued(r, <<r, k>>)'
    BY <1>1 DEF Dispatched
  <2>1. IF frames[r][1].at = "copy" THEN Listed(<<r, k>>) ELSE Queued(r, <<r, k>>)
    BY <1>2 DEF Accounted
  <2> QED
    BY <1>5, <2>1 DEF Listed, Queued
<1>7. Accounted(r)'
  BY <1>1, <1>2, <1>5, <1>6 DEF Accounted
<1> QED
  BY <1>3, <1>7

LEMMA DispatchAccounted ==
  ASSUME Calm, \A q \in Requests : Accounted(q), NEW r \in Requests, Dispatch(r)
  PROVE  \A q \in Requests : Accounted(q)'
<1>0. PICK n, t, d : n = Len(frames[r]) /\ t = frames[r][n].todo /\ d = t[1]
  OBVIOUS
<1>1. t # <<>>
  BY <1>0, DispatchBusy DEF Calm
<1>2. /\ Replaces(r, [todo |-> Tail(t), at |-> "next"]) /\ frames[r][n].at = "dispatch"
      /\ t \in Seq(Events) /\ handled' = Append(handled, d) /\ handled \in Seq(Events)
      /\ UNCHANGED <<phase, sent>> /\ Flushing(r)
  BY <1>0, <1>1, DispatchFrames DEF Calm, TypeOK, Dispatch, At, Busy, Frames
<1>3. phase[r] = "committed" /\ Nested(r) /\ n \in Nat \ {0} /\ \A q \in Requests \ {r} : ~InFlight(q)
  BY <1>0, <1>2, FlushInFlight DEF Replaces
<1>4. n = 1
  <2>1. n \notin 2..n
    BY <1>0, <1>1, <1>2, <1>3 DEF Nested
  <2> QED
    BY <1>3, <2>1
<1>5. /\ Flushing(r)' /\ frames'[r][1] = [todo |-> Tail(t), at |-> "next"]
      /\ frames[r][1].todo = t /\ frames[r][1].at = "dispatch"
  BY <1>0, <1>2, <1>4 DEF Replaces, Flushing
<1>6. \A e : Dispatched(e) => Dispatched(e)'
  BY <1>2 DEF Dispatched
<1>7. Dispatched(d)'
  <2>1. Len(handled') = Len(handled) + 1 /\ handled'[Len(handled) + 1] = d /\ Len(handled) \in Nat
    BY <1>2
  <2>2. Len(handled) + 1 \in 1..Len(handled')
    BY <2>1
  <2> QED
    BY <2>1, <2>2 DEF Dispatched
<1>8. \A q \in Requests \ {r} : Accounted(q)'
  BY <1>2, <1>3, <1>6, IdleAccounted
<1>9. \A e : Queued(r, e) => e = d \/ Queued(r, e)'
  <2> SUFFICES ASSUME NEW j \in 1..Len(t), t[j] # d PROVE \E i \in 1..Len(Tail(t)) : Tail(t)[i] = t[j]
    BY <1>5 DEF Queued
  <2>1. j # 1 /\ Len(t) \in Nat /\ Len(Tail(t)) = Len(t) - 1 /\ \A i \in 1..Len(Tail(t)) : Tail(t)[i] = t[i + 1]
    BY <1>0, <1>1, <1>2, TailFacts
  <2>2. j - 1 \in 1..Len(Tail(t)) /\ (j - 1) + 1 = j
    BY <2>1
  <2> QED
    BY <2>1, <2>2
<1>10. Accounted(r)'
  <2> SUFFICES ASSUME NEW k \in 1..sent[r], ~Dispatched(<<r, k>>)' PROVE Queued(r, <<r, k>>)'
    BY <1>2, <1>3, <1>5 DEF Accounted
  <2>1. Queued(r, <<r, k>>)
    BY <1>3, <1>5, <1>6 DEF Accounted
  <2>2. <<r, k>> # d
    BY <1>7
  <2> QED
    BY <1>9, <2>1, <2>2
<1> QED
  BY <1>8, <1>10

LEMMA ReturnAccounted ==
  ASSUME Calm, \A q \in Requests : Accounted(q), NEW r \in Requests, Return(r)
  PROVE  \A q \in Requests : Accounted(q)'
<1>0. PICK n : n = Len(frames[r])
  OBVIOUS
<1>1. /\ n \in Nat \ {0} /\ frames[r][n].at = "next" /\ frames' \in [Requests -> Seq(Frames)]
      /\ Len(frames'[r]) = n - 1 /\ \A k \in 1..(n - 1) : frames'[r][k] = frames[r][k]
      /\ UNCHANGED <<collected, handled, phase, sent>> /\ Flushing(r)
  BY <1>0, ReturnFrames DEF Calm, Return, At
<1>2. phase[r] = "committed" /\ Nested(r) /\ \A q \in Requests \ {r} : ~InFlight(q)
  BY <1>1, FlushInFlight
<1>3. \A q \in Requests \ {r} : Accounted(q)'
  BY <1>1, <1>2, IdleAccounted DEF Dispatched
<1>4. CASE n = 1
  <2>1. frames[r][1].todo = <<>> /\ frames[r][1].at = "next"
    <3>1. Entered \in Frames
      BY DEF Frames, Entered
    <3>2. Top(r) = frames[r][Len(frames[r])]
      BY <1>1, <3>1, GotoFacts DEF Calm
    <3> QED
      BY <1>0, <1>1, <1>4, <3>2 DEF Return
  <2>2. \A k \in 1..sent[r] : Dispatched(<<r, k>>)
    BY <1>2, <2>1 DEF Accounted, Queued
  <2>3. Accounted(r)'
    BY <1>1, <1>2, <2>2 DEF Accounted, Dispatched
  <2> QED
    BY <1>3, <2>3
<1>5. CASE n > 1
  <2>1. frames'[r][1] = frames[r][1] /\ Flushing(r)'
    BY <1>1, <1>5 DEF Flushing
  <2>2. Accounted(r)'
    <3> SUFFICES ASSUME NEW k \in 1..sent[r]
                 PROVE  \/ Dispatched(<<r, k>>)'
                        \/ IF frames'[r][1].at = "copy" THEN Listed(<<r, k>>)' ELSE Queued(r, <<r, k>>)'
      BY <1>1, <1>2, <2>1 DEF Accounted
    <3>1. \/ Dispatched(<<r, k>>)
          \/ IF frames[r][1].at = "copy" THEN Listed(<<r, k>>) ELSE Queued(r, <<r, k>>)
      BY <1>2 DEF Accounted
    <3> QED
      BY <1>1, <2>1, <3>1 DEF Dispatched, Listed, Queued
  <2> QED
    BY <1>3, <2>2
<1> QED
  BY <1>1, <1>4, <1>5

LEMMA AccountedStep == TypeOK /\ Once /\ InCalm /\ AllAccounted /\ [Next]_vars => AllAccounted'
<1> SUFFICES ASSUME TypeOK, Once, InCalm, AllAccounted, [Next]_vars, calm', Hooked
             PROVE  \A q \in Requests : Accounted(q)'
  BY DEF AllAccounted
<1>1. calm
  BY DEF Next, FlushStep, Collect, Commit, Fail, Close, Copy, Clear, Persist, PersistFails, Dispatch,
         Return, Crash, vars
<1>2. Calm /\ \A q \in Requests : Accounted(q)
  BY <1>1 DEF InCalm, Calm, AllAccounted
<1>3. ASSUME NEW r \in Requests, Collect(r) \/ Commit(r) \/ Fail(r) PROVE \A q \in Requests : Accounted(q)'
  <2>1. Alone(r)
    BY <1>3 DEF Collect, Commit, Fail
  <2> QED
    BY <1>2, <1>3, <2>1, CollectAccounted, EndAccounted
<1>4. ASSUME NEW r \in Requests, FlushStep(r) PROVE \A q \in Requests : Accounted(q)'
  <2>1. ~PersistFails(r)
    BY DEF PersistFails
  <2> QED
    BY <1>2, <1>4, <2>1, StepAccounted, DispatchAccounted, ReturnAccounted DEF FlushStep
<1>5. ~Crash /\ \A r \in Requests : ~Close(r)
  BY DEF Crash, Close
<1>6. CASE UNCHANGED vars
  BY <1>2, <1>6 DEF vars, Accounted, Listed, Queued, Dispatched, Flushing
<1> QED
  BY <1>3, <1>4, <1>5, <1>6 DEF Next

LEMMA AlwaysAccounted == Spec => []AllAccounted
<1>1. Init => AllAccounted
  BY DEF Init, AllAccounted, Accounted
<1> QED
  BY <1>1, AlwaysInCalm, AccountedStep, PTL DEF Spec

\* As long as transactions do not overlap, end in a commit or a rollback and
\* nothing fails, only events of committed transactions are stored or handled,
\* and a committed transaction that has flushed has had all of them handled
\* (backend/events/bus.py flush_collected, backend/events/session_hooks.py).
THEOREM AlwaysExactlyCommitted == Spec => []ExactlyCommitted
<1>1. TypeOK /\ Once /\ Unhooked /\ InCalm /\ calm => \A e \in stored \cup ToSet(handled) : phase[e[1]] = "committed"
  <2> SUFFICES ASSUME TypeOK, Once, Unhooked, InCalm, calm, NEW e \in stored \cup ToSet(handled)
               PROVE  phase[e[1]] = "committed"
    OBVIOUS
  <2>1. e \in stored
    BY DEF Once, TypeOK, ToSet
  <2> QED
    BY <2>1, HookedAssumption DEF Unhooked, InCalm, CalmInv, StoredCommitted
<1>2. TypeOK /\ AllAccounted /\ calm /\ Hooked =>
        \A e \in Events : phase[e[1]] = "committed" /\ e[2] <= sent[e[1]] /\ ~Flushing(e[1]) => e \in ToSet(handled)
  <2> SUFFICES ASSUME TypeOK, AllAccounted, calm, Hooked, NEW r \in Requests, NEW k \in 1..MaxEvents,
                      phase[r] = "committed", k <= sent[r], ~Flushing(r)
               PROVE  <<r, k>> \in ToSet(handled)
    BY DEF Events
  <2>1. k \in 1..sent[r]
    BY MaxEventsAssumption DEF TypeOK
  <2>2. Dispatched(<<r, k>>)
    BY <2>1 DEF AllAccounted, Accounted
  <2>3. DOMAIN handled = 1..Len(handled)
    BY DEF TypeOK
  <2> QED
    BY <2>2, <2>3 DEF Dispatched, ToSet
<1>3. TypeOK /\ Once /\ Unhooked /\ InCalm /\ AllAccounted => ExactlyCommitted
  BY <1>1, <1>2 DEF ExactlyCommitted
<1> QED
  BY <1>3, AlwaysInCalm, AlwaysAccounted, PTL

\* Under the same conditions the handlers see the events of a transaction in the
\* order in which it collected them (backend/events/bus.py flush_collected).
THEOREM AlwaysInOrder == Spec => []InOrder
<1>1. TypeOK /\ Once /\ Unhooked /\ InCalm => InOrder
  <2> SUFFICES ASSUME TypeOK, Once, Unhooked, InCalm, calm PROVE InOrder
    BY DEF InOrder
  <2>1. DOMAIN handled = 1..Len(handled)
    BY DEF TypeOK
  <2>2. CASE Hooked
    BY <2>1, <2>2 DEF InOrder, InCalm, CalmInv, HandledOrdered
  <2>3. CASE ~Hooked
    BY <2>1, <2>3 DEF InOrder, Unhooked, Once
  <2> QED
    BY <2>2, <2>3
<1> QED
  BY <1>1, AlwaysInCalm, PTL

=============================================================================
