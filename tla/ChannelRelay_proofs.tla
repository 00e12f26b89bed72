-------------------------- MODULE ChannelRelay_proofs --------------------------
(***************************************************************************)
(* Proofs about ChannelRelay, for every number of units and segments and   *)
(* every size of the gate: one writer at a time, ffmpeg's stream in order, *)
(* a clean end that is complete, the Go relay's guarantees after a         *)
(* fallback, and a raw relay that ends ffmpeg and its feeder.              *)
(*                                                                         *)
(* The invariant has a part per relay.  Until the Go relay is called its   *)
(* variables are untouched, from then on its own invariant holds (IInv,    *)
(* proved first); and it is called only when the gate's handler is         *)
(* over, ffmpeg with it, the pipe closed under what still reads it.  In    *)
(* the gate every unit taken from the pipe is in the output, in the gate's *)
(* buffer or dropped by it; the buffer precedes what is still in the pipe, *)
(* and goes out before anything else does.                                 *)
(***************************************************************************)
EXTENDS ChannelRelay, SequenceTheorems, TLAPS

-----------------------------------------------------------------------------
(* The Go relay by itself (HLSRelay), for every number of segments and       *)
(* variants and every deadline: types, in-order delivery without repeats,    *)
(* and that only failed segments are missing.  The argument rests on the     *)
(* pruned set `seen`: because the upstream's window only slides forward,     *)
(* forgetting what left the playlist forgets nothing that can be listed      *)
(* again, and everything delivered precedes everything listed and unseen.    *)

\* The playlist the relay holds is an earlier window of the upstream.
Window ==
    /\ lo >= 1 /\ hi \in 0..MaxSeg
    /\ url = "master" => kind = "master"
    /\ kind = "media" => url = "media" /\ from >= 1 /\ from <= lo /\ to <= hi
    /\ kind = "master" => url = "master" /\ sent = <<>> /\ seen = {} /\ offered = {}
    /\ pc = "pass" => at >= from

\* What was seen is accounted for, and within a pass so is every line passed.
Accounted ==
    /\ seen \subseteq Sent \cup failed
    /\ kind = "media" /\ pc = "pass" => \A s \in from..(at - 1) : s \in seen
    /\ kind = "media" /\ pc # "done" => \A s \in offered :
           s \in Sent \cup failed \/ (pc = "pass" /\ at <= s /\ s <= to)
    /\ pc = "rest" => offered \subseteq Sent \cup failed

\* Everything sent precedes every listed segment that is still unseen.
Ordered ==
    /\ kind = "media" => \A i \in 1..Len(sent) : sent[i] <= to
    /\ kind = "media" => \A s \in (from..to) \ seen : \A i \in 1..Len(sent) : sent[i] < s

IInv == TypeOK /\ Window /\ Accounted /\ Ordered /\ InOrderOnce

-----------------------------------------------------------------------------
(* Appending to a sequence of segments.                                     *)

LEMMA AppendFacts ==
    ASSUME NEW q \in Seq(Segments), NEW s \in Segments
    PROVE  /\ Append(q, s) \in Seq(Segments)
           /\ Len(Append(q, s)) = Len(q) + 1
           /\ Len(q) \in Nat
           /\ \A i \in 1..Len(q) : Append(q, s)[i] = q[i]
           /\ Append(q, s)[Len(q) + 1] = s
  OBVIOUS

LEMMA AppendRange ==
    ASSUME NEW q \in Seq(Segments), NEW s \in Segments
    PROVE  {Append(q, s)[i] : i \in 1..Len(Append(q, s))}
             = {q[i] : i \in 1..Len(q)} \cup {s}
  BY AppendFacts

-----------------------------------------------------------------------------
LEMMA InitIInv == Init => IInv
  <1> SUFFICES ASSUME Init PROVE IInv
    OBVIOUS
  <1> USE HLSRelayAssumption DEF Init
  <1>1. TypeOK
    <2>1. to \in Nat /\ hi \in Nat /\ url \in Kinds /\ kind \in Kinds
      BY DEF Kinds
    <2>2. sent \in Seq(Segments)
      OBVIOUS
    <2>3. started \in BOOLEAN /\ progress \in BOOLEAN /\ gone \in BOOLEAN
      OBVIOUS
    <2>4. idle \in 0..(Deadline + 1) /\ lo \in Nat /\ from \in Nat /\ at \in Nat
      OBVIOUS
    <2>5. pc \in PCs /\ reason \in Reasons /\ result \in {"running", "nil", "err"}
      BY DEF PCs, Reasons
    <2>6. seen \subseteq Segments /\ failed \subseteq Segments /\ offered \subseteq Segments
      OBVIOUS
    <2> QED
      BY ONLY <2>1, <2>2, <2>3, <2>4, <2>5, <2>6 DEF TypeOK
  <1>2. Window /\ Ordered /\ InOrderOnce
    BY DEF Window, Ordered, InOrderOnce, Kinds
  <1>3. Accounted
    BY DEF Accounted
  <1> QED
    BY <1>1, <1>2, <1>3 DEF IInv

\* Steps of the upstream, the client and the clock.
LEMMA QuietStep ==
    ASSUME IInv,
           UNCHANGED <<playlist, at, seen, started, progress, pc, returned,
                       sent, failed, offered>>,
           lo' \in Nat, lo' >= lo, hi' \in 0..MaxSeg, hi' >= hi,
           idle' \in 0..(Deadline + 1), gone' \in BOOLEAN
    PROVE  IInv'
  <1> USE DEF IInv, playlist, returned
  <1>1. TypeOK'
    BY DEF TypeOK
  <1>2. Window' /\ Accounted' /\ Ordered' /\ InOrderOnce'
    BY DEF TypeOK, Window, Accounted, Ordered, InOrderOnce, Sent
  <1> QED
    BY <1>1, <1>2


\* Steps that attempt the segment at `at`.
LEMMA AttemptStep ==
    ASSUME IInv, Attempt,
           UNCHANGED <<upstream, playlist, offered, gone>>,
           sent' = sent \/ sent' = Append(sent, at),
           failed' = failed \/ failed' = failed \cup {at},
           sent' = Append(sent, at) \/ failed' = failed \cup {at},
           \/ pc' = "pass" /\ at' = at + 1
           \/ pc' = "done" /\ at' = at,
           idle' \in 0..(Deadline + 1),
           started' \in BOOLEAN, progress' \in BOOLEAN,
           result' \in {"running", "nil", "err"}, reason' \in Reasons
    PROVE  IInv'
  <1> USE DEF upstream, playlist, InPass, Attempt
  <1>1. /\ TypeOK /\ Window /\ Accounted /\ Ordered /\ InOrderOnce
    BY DEF IInv
  <1>2. at \in Segments /\ sent \in Seq(Segments)
    <2>1. at \in Nat /\ at >= 1 /\ at <= hi /\ hi \in 0..MaxSeg
      BY <1>1 DEF TypeOK, Window
    <2>2. at \in Segments
      BY <2>1, HLSRelayAssumption DEF Segments
    <2> QED
      BY <1>1, <2>2 DEF TypeOK
  <1>3. Sent' = Sent \/ Sent' = Sent \cup {at}
    BY <1>2, AppendRange DEF Sent
  <1>4. at \in Sent' \cup failed' /\ Sent \cup failed \subseteq Sent' \cup failed'
    BY <1>2, AppendRange DEF Sent
  <1>5. TypeOK'
    <2>1. sent' \in Seq(Segments)
      BY <1>2, AppendFacts
    <2>2. pc' \in PCs /\ at' \in Nat
      BY <1>1 DEF PCs, TypeOK
    <2>3. seen' \subseteq Segments /\ failed' \subseteq Segments
      BY <1>1, <1>2 DEF TypeOK
    <2> QED
      BY <1>1, <2>1, <2>2, <2>3 DEF TypeOK
  <1>6. Window'
    BY <1>1 DEF Window, TypeOK
  <1>7. Accounted'
    BY <1>1, <1>4 DEF Accounted, TypeOK, Window, Segments
  <1>8. sent' = sent \/ (sent' = Append(sent, at) /\ \A i \in 1..Len(sent) : sent[i] < at)
    BY <1>1, <1>2 DEF Ordered, Window, TypeOK
  <1>9. CASE sent' = sent
    <2>1. Ordered' /\ InOrderOnce'
      BY <1>1, <1>2, <1>9 DEF Ordered, InOrderOnce
    <2> QED
      BY <1>5, <1>6, <1>7, <2>1 DEF IInv
  <1>10. CASE sent' = Append(sent, at) /\ \A i \in 1..Len(sent) : sent[i] < at
    <2>1. /\ Len(sent') = Len(sent) + 1 /\ Len(sent) \in Nat
          /\ \A i \in 1..Len(sent) : sent'[i] = sent[i]
          /\ sent'[Len(sent) + 1] = at
      BY <1>2, <1>10, AppendFacts
    <2>2. \A i \in 1..Len(sent') : i \in 1..Len(sent) \/ i = Len(sent) + 1
      BY <2>1
    <2>3. \A i \in 1..Len(sent) : sent[i] \in Nat
      <3>1. \A i \in 1..Len(sent) : sent[i] \in Segments
        BY <1>2
      <3> QED
        BY <3>1, HLSRelayAssumption DEF Segments
    <2>4. InOrderOnce'
      BY <1>1, <1>10, <2>1, <2>2, <2>3 DEF InOrderOnce
    <2>5. \A i \in 1..Len(sent') : sent'[i] <= at
      BY <1>2, <1>10, <2>1, <2>2, <2>3 DEF Segments
    <2>6. ASSUME NEW s \in (from..to) \ seen' PROVE s > at
      BY <1>1, <1>2, <2>6 DEF Accounted, TypeOK, Window, Segments
    <2>7. \A i \in 1..Len(sent') : sent'[i] \in Nat
      BY <2>1, <2>2, <2>3, <1>2 DEF Segments
    <2>8. Ordered'
      BY <1>1, <1>2, <2>5, <2>6, <2>7 DEF Ordered, TypeOK, Segments
    <2> QED
      BY <1>5, <1>6, <1>7, <2>4, <2>8 DEF IInv
  <1> QED
    BY <1>8, <1>9, <1>10

LEMMA StepIInv == IInv /\ [Next]_vars => IInv'
  <1> SUFFICES ASSUME IInv, [Next]_vars PROVE IInv'
    OBVIOUS
  <1> USE HLSRelayAssumption DEF upstream, playlist, returned, Return, Later, Stalled
  <1>0. TypeOK /\ Window /\ Accounted /\ Ordered /\ InOrderOnce
    BY DEF IInv
  <1> DEFINE Goal == TypeOK' /\ Window' /\ Accounted' /\ Ordered' /\ InOrderOnce'
  <1>a. Goal => IInv'
    BY DEF IInv
  <1>1. CASE Publish
    BY <1>0, <1>1, QuietStep DEF Publish, TypeOK, Window
  <1>2. CASE Expire
    BY <1>0, <1>2, QuietStep DEF Expire, TypeOK, Window
  <1>3. CASE Tick
    BY <1>0, <1>3, QuietStep DEF Tick, TypeOK, Window
  <1>4. CASE HangUp
    BY <1>0, <1>4, QuietStep DEF HangUp, TypeOK, Window
  <1>5. CASE UNCHANGED vars
    BY <1>0, <1>5, QuietStep DEF vars, TypeOK, Window
  <1>6. CASE SegmentSent
    BY <1>0, <1>6, AttemptStep DEF SegmentSent, Attempt, InPass, TypeOK
  <1>7. CASE SegmentEmpty
    BY <1>0, <1>7, AttemptStep DEF SegmentEmpty, Attempt, InPass, TypeOK
  <1>8. CASE SegmentLost
    BY <1>0, <1>8, AttemptStep DEF SegmentLost, PartlySent, Attempt, InPass, TypeOK
  <1>9. CASE SegmentEndsRelay
    BY <1>0, <1>9, AttemptStep DEF SegmentEndsRelay, PartlySent, Attempt, InPass, TypeOK, Reasons
  <1>10. CASE ReturnCancelled
    <2>1. TypeOK'
      BY <1>0, <1>10 DEF ReturnCancelled, TypeOK, PCs, Reasons
    <2> QED
      BY <1>0, <1>10, <2>1, <1>a DEF ReturnCancelled, Window, Accounted, Ordered, InOrderOnce, Sent
  <1>11. CASE NoLines
    <2>1. TypeOK'
      BY <1>0, <1>11 DEF NoLines, Pruned, TypeOK, PCs, Reasons
    <2> QED
      BY <1>0, <1>11, <2>1, <1>a DEF NoLines, Pruned, TypeOK, Window, Accounted, Ordered, InOrderOnce, Sent
  <1>12. CASE StartPass
    <2>4. offered' \subseteq Segments
      BY <1>0, <1>12 DEF StartPass, TypeOK, Window, Segments
    <2>5. seen' \subseteq Segments
      BY <1>0, <1>12 DEF StartPass, Pruned, TypeOK
    <2>1. TypeOK'
      BY <1>0, <1>12, <2>4, <2>5 DEF StartPass, TypeOK, PCs
    <2>2. Window' /\ InOrderOnce'
      BY <1>0, <1>12 DEF StartPass, Pruned, TypeOK, Window, InOrderOnce
    <2>3. Accounted' /\ Ordered'
      BY <1>0, <1>12 DEF StartPass, Pruned, TypeOK, Window, Accounted, Ordered, Sent
    <2> QED
      BY <2>1, <2>2, <2>3, <1>a
  <1>13. CASE FollowVariant
    <2>1. TypeOK'
      BY <1>0, <1>13, HLSRelayAssumption DEF FollowVariant, Fetched, InPass, TypeOK, PCs, Kinds
    <2>2. /\ sent = <<>> /\ Len(sent) = 0 /\ seen = {} /\ offered = {}
          /\ UNCHANGED <<upstream, seen, sent, failed, offered>> /\ pc' = "rest"
      BY <1>0, <1>13 DEF FollowVariant, InPass, Window
    <2>3. Accounted' /\ Ordered' /\ InOrderOnce'
      BY <2>2 DEF Accounted, Ordered, InOrderOnce, Sent
    <2>4. CASE url' = "media"
      <3>1. kind' = "media" /\ from' = lo /\ to' = hi
        BY <1>13, <2>4 DEF FollowVariant, Fetched
      <3> QED
        BY <1>0, <2>1, <2>2, <2>3, <2>4, <3>1, <1>a DEF TypeOK, Window, upstream
    <2>5. CASE url' = "master"
      <3>1. kind' = "master"
        BY <1>13, <2>5 DEF FollowVariant, Fetched
      <3> QED
        BY <1>0, <2>1, <2>2, <2>3, <2>5, <3>1, <1>a DEF Window, upstream
    <2> QED
      BY <1>13, <2>4, <2>5 DEF FollowVariant, Kinds
  <1>14. CASE VariantFails
    <2>1. TypeOK'
      BY <1>0, <1>14 DEF VariantFails, InPass, TypeOK, PCs, Reasons
    <2> QED
      BY <1>0, <1>14, <2>1, <1>a DEF VariantFails, InPass, TypeOK, Window, Accounted, Ordered, InOrderOnce, Sent
  <1>15. CASE SkipSeen
    <2>1. TypeOK'
      BY <1>0, <1>15 DEF SkipSeen, InPass, TypeOK
    <2> QED
      BY <1>0, <1>15, <2>1, <1>a DEF SkipSeen, InPass, TypeOK, Window, Accounted, Ordered, InOrderOnce, Sent
  <1>16. CASE Rest
    <2>1. TypeOK'
      BY <1>0, <1>16 DEF Rest, PassOver, TypeOK, PCs, Reasons
    <2>2. Window' /\ Ordered' /\ InOrderOnce'
      BY <1>0, <1>16 DEF Rest, TypeOK, Window, Ordered, InOrderOnce
    <2>3. Accounted'
      BY <1>0, <1>16 DEF Rest, PassOver, TypeOK, Accounted, Sent, Segments
    <2> QED
      BY <2>1, <2>2, <2>3, <1>a
  <1>17. CASE Refresh
    <2>1. TypeOK'
      BY <1>0, <1>17, HLSRelayAssumption DEF Refresh, Fetched, TypeOK, PCs, Kinds
    <2>2. Window' /\ Accounted' /\ InOrderOnce'
      BY <1>0, <1>17 DEF Refresh, Fetched, TypeOK, Kinds, Window, Accounted, InOrderOnce, Sent
    <2>4. \A i \in 1..Len(sent) : sent[i] \in Segments
      BY <1>0 DEF TypeOK
    <2>5. \A i \in 1..Len(sent) : sent[i] \in Nat
      BY <2>4 DEF Segments
    <2>6. ASSUME kind = "master" PROVE Ordered'
      <3>1. Len(sent) = 0
        BY <1>0, <2>6 DEF Window
      <3> QED
        BY <1>17, <3>1 DEF Refresh, Ordered
    <2>7. ASSUME kind = "media" PROVE Ordered'
      <3>1. from' = lo /\ to' = hi /\ to <= hi /\ from <= lo /\ kind' = "media"
        BY <1>0, <1>17, <2>7 DEF Refresh, Fetched, Window
      <3>2. \A i \in 1..Len(sent) : sent[i] <= to
        BY <1>0, <2>7 DEF Ordered
      <3>3. ASSUME NEW s \in (from'..to') \ seen, NEW i \in 1..Len(sent)
            PROVE  sent[i] < s
        <4>1. CASE s \in from..to
          BY <1>0, <2>7, <3>3, <4>1 DEF Ordered
        <4>2. CASE s > to
          BY <1>0, <2>5, <3>2, <3>3, <4>2 DEF TypeOK
        <4> QED
          BY <1>0, <3>1, <3>3, <4>1, <4>2 DEF TypeOK
      <3>4. \A i \in 1..Len(sent) : sent[i] <= to'
        BY <1>0, <2>5, <3>1, <3>2 DEF TypeOK
      <3> QED
        BY <1>17, <3>1, <3>3, <3>4 DEF Refresh, Ordered
    <2>3. Ordered'
      BY <1>0, <2>6, <2>7 DEF TypeOK, Kinds
    <2> QED
      BY <2>1, <2>2, <2>3, <1>a
  <1>18. CASE RefreshFails
    <2>1. TypeOK'
      BY <1>0, <1>18 DEF RefreshFails, TypeOK, PCs, Reasons
    <2> QED
      BY <1>0, <1>18, <2>1, <1>a DEF RefreshFails, TypeOK, Window, Accounted, Ordered, InOrderOnce, Sent
  <1> QED
    BY <1>1, <1>2, <1>3, <1>4, <1>5, <1>6, <1>7, <1>8, <1>9, <1>10, <1>11, <1>12,
       <1>13, <1>14, <1>15, <1>16, <1>17, <1>18
       DEF Next, Environment, Relay, Returned

LEMMA Inductive == Spec => []IInv
  BY InitIInv, StepIInv, PTL DEF Spec

\* Every variable of the relay keeps its type.
THEOREM RelayTypeCorrect == Spec => []TypeOK
  BY Inductive, PTL DEF IInv

\* Segments reach the client in order and at most once each, even in part
\* (relayHLSAsTS).
THEOREM RelayInOrderOnce == Spec => []InOrderOnce
  BY Inductive, PTL DEF IInv

\* A walked playlist's segment is missing only if its own fetch failed
\* (relayHLSAsTS).
THEOREM RelayLostOnlyByFailure == Spec => []LostOnlyByFailure
  <1>1. IInv => LostOnlyByFailure
    BY DEF IInv, Window, Accounted, LostOnlyByFailure, TypeOK, Kinds
  <1> QED
    BY <1>1, Inductive, PTL

-----------------------------------------------------------------------------
(* Both relays.                                                              *)

Elems(q) == {q[i] : i \in 1..Len(q)}
Increasing(q) == \A i, j \in 1..Len(q) : i < j => q[i] < q[j]

-----------------------------------------------------------------------------
(* Sequences of units.                                                      *)

\* A run of the units after t, up to m.
IsRun(e, t, m) == e \in Seq(Nat) /\ Len(e) = m /\ \A i \in 1..m : e[i] = t + i

LEMMA RunElems ==
    ASSUME NEW t \in Nat, NEW m \in Nat, NEW e, IsRun(e, t, m)
    PROVE  Elems(e) = (t + 1)..(t + m)
<1>1. ASSUME NEW u \in (t + 1)..(t + m) PROVE u \in Elems(e)
  <2>1. u - t \in 1..m /\ t + (u - t) = u
    OBVIOUS
  <2> QED
    BY <2>1 DEF IsRun, Elems
<1>2. ASSUME NEW i \in 1..m PROVE e[i] \in (t + 1)..(t + m)
  BY DEF IsRun
<1> QED
  BY <1>1, <1>2 DEF IsRun, Elems

\* Appending a run of new units to a sequence of older ones.
LEMMA AppendRun ==
    ASSUME NEW t \in Nat, NEW m \in Nat, NEW q \in Seq(Nat), NEW e, IsRun(e, t, m),
           Increasing(q), \A i \in 1..Len(q) : q[i] \in 1..t
    PROVE  /\ q \o e \in Seq(Nat)
           /\ Increasing(q \o e)
           /\ \A i \in 1..Len(q \o e) : (q \o e)[i] \in 1..(t + m)
           /\ Elems(q \o e) = Elems(q) \cup Elems(e)
<1> DEFINE s == q \o e
           n == Len(q)
<1>1. e \in Seq(Nat) /\ Len(e) = m /\ (\A i \in 1..m : e[i] = t + i) /\ n \in Nat
  BY DEF IsRun
<1>2. /\ s \in Seq(Nat) /\ Len(s) = n + m
      /\ \A i \in 1..(n + m) : s[i] = IF i <= n THEN q[i] ELSE e[i - n]
  BY <1>1, ConcatProperties
<1> HIDE DEF s, n
<1>3. ASSUME NEW i \in 1..(n + m), i <= n PROVE i \in 1..n /\ s[i] = q[i]
  BY <1>1, <1>2, <1>3
<1>4. ASSUME NEW i \in 1..(n + m), i > n
      PROVE  i - n \in 1..m /\ s[i] = e[i - n] /\ s[i] = t + (i - n)
  BY <1>1, <1>2, <1>4
<1>5. \A i \in 1..n : q[i] \in 1..t
  BY DEF n
<1>6. ASSUME NEW i \in 1..(n + m) PROVE s[i] \in 1..(t + m)
  <2>1. CASE i <= n
    <3>1. s[i] \in 1..t
      BY <1>3, <1>5, <2>1
    <3> QED
      BY <3>1
  <2>2. CASE i > n
    <3>1. i - n \in 1..m /\ s[i] = t + (i - n)
      BY <1>4, <2>2
    <3> QED
      BY <3>1
  <2> QED
    BY <1>1, <2>1, <2>2
<1>7. Increasing(s)
  <2> SUFFICES ASSUME NEW i \in 1..(n + m), NEW j \in 1..(n + m), i < j
               PROVE  s[i] < s[j]
    BY <1>2 DEF Increasing
  <2>1. CASE j <= n
    <3>1. i <= n
      BY <1>1, <2>1
    <3>2. i \in 1..n /\ j \in 1..n /\ s[i] = q[i] /\ s[j] = q[j]
      BY <1>3, <2>1, <3>1
    <3> QED
      BY <3>2 DEF Increasing, n
  <2>2. CASE i <= n /\ j > n
    BY <1>1, <1>3, <1>4, <1>5, <2>2
  <2>3. CASE i > n
    BY <1>1, <1>4, <2>3
  <2> QED
    BY <1>1, <2>1, <2>2, <2>3
<1>8. Elems(s) = Elems(q) \cup Elems(e)
  <2>1. \A i \in 1..n : i \in 1..(n + m) /\ i <= n
    BY <1>1
  <2>2. \A i \in 1..m : i + n \in 1..(n + m) /\ i + n > n /\ (i + n) - n = i
    BY <1>1
  <2>3. Elems(q) \subseteq Elems(s)
    BY <1>2, <1>3, <2>1 DEF Elems, n
  <2>4. Elems(e) \subseteq Elems(s)
    <3> SUFFICES ASSUME NEW i \in 1..m PROVE e[i] \in Elems(s)
      BY <1>1 DEF Elems
    <3>1. s[i + n] = e[i]
      BY <1>4, <2>2
    <3> QED
      BY <1>2, <2>2, <3>1 DEF Elems
  <2>5. Elems(s) \subseteq Elems(q) \cup Elems(e)
    <3> SUFFICES ASSUME NEW i \in 1..(n + m) PROVE s[i] \in Elems(q) \cup Elems(e)
      BY <1>2 DEF Elems
    <3>1. CASE i <= n
      BY <1>3, <3>1 DEF Elems, n
    <3>2. CASE i > n
      BY <1>1, <1>4, <3>2 DEF Elems
    <3> QED
      BY <1>1, <3>1, <3>2
  <2> QED
    BY <2>3, <2>4, <2>5
<1> QED
  BY <1>2, <1>6, <1>7, <1>8 DEF s

\* What a read of n units returns, and what the prefetch buffer keeps of it.
LEMMA UnreadIsRun ==
    ASSUME taken \in Nat, NEW n \in Nat
    PROVE  IsRun(Gate!Unread(n), taken, n) /\ Gate!ToSet(Gate!Unread(n)) = (taken + 1)..(taken + n)
<1> DEFINE e == Gate!Unread(n)
<1>1. e = [i \in 1..n |-> taken + i]
  BY DEF Gate!Unread
<1>2. e \in [1..n -> Nat]
  BY <1>1
<1>3. e \in Seq(Nat) /\ Len(e) = n /\ DOMAIN e = 1..n
  BY <1>2, SeqDef
<1>4. \A i \in 1..n : e[i] = taken + i
  BY <1>1
<1> HIDE DEF e
<1>5. IsRun(e, taken, n)
  BY <1>3, <1>4 DEF IsRun
<1>6. Gate!ToSet(e) = Elems(e)
  BY <1>3 DEF Gate!ToSet, Elems
<1> QED
  BY <1>5, <1>6, RunElems DEF e

LEMMA KeptIsRun ==
    ASSUME taken \in Nat, NEW n \in Nat, buf \in Seq(Nat)
    PROVE  \E m \in 0..n :
              IsRun(Gate!Kept(n), taken, m) /\ Gate!ToSet(Gate!Kept(n)) = (taken + 1)..(taken + m)
<1> DEFINE e == Gate!Unread(n)
           room == Gate!Cap - Len(buf)
           w == IF n > room THEN room ELSE n
           k == SubSeq(e, 1, w)
           m == IF 1 <= w THEN w ELSE 0
<1>1. room \in Int
  BY ChannelRelayAssumption DEF Gate!Cap
<1> HIDE DEF room
<1>2. w \in Int /\ w <= n /\ m \in 0..n
  BY <1>1
<1>3. Gate!Kept(n) = k
  BY DEF Gate!Kept, room
<1>4. e \in Seq(Nat) /\ Len(e) = n /\ \A i \in 1..n : e[i] = taken + i
  BY UnreadIsRun DEF IsRun
<1> HIDE DEF e
<1>5. \A i \in 1..w : e[i] \in Nat
  BY <1>2, <1>4
<1> HIDE DEF w
<1>6. /\ k \in Seq(Nat) /\ Len(k) = IF 1 <= w THEN w - 1 + 1 ELSE 0
      /\ \A i \in 1..(w - 1 + 1) : k[i] = e[1 + i - 1]
  BY <1>2, <1>5, SubSeqProperties
<1> HIDE DEF k
<1>7. \A i \in 1..m : i \in 1..(w - 1 + 1) /\ 1 + i - 1 = i /\ i \in 1..n
  BY <1>2
<1>8. \A i \in 1..m : k[i] = taken + i
  BY <1>4, <1>6, <1>7
<1>9. IsRun(k, taken, m)
  BY <1>2, <1>6, <1>8 DEF IsRun
<1>10. Gate!ToSet(k) = Elems(k)
  BY <1>6 DEF Gate!ToSet, Elems
<1> QED
  BY <1>2, <1>3, <1>9, <1>10, RunElems

-----------------------------------------------------------------------------
(* ffmpeg's relay.                                                          *)

GateTypes ==
    /\ written \in Nat /\ taken \in 0..written
    /\ ffmpeg \in {"running", "ok", "failed", "killed"} /\ closed \in BOOLEAN
    /\ prefetcher \in {"off", "reading", "ready", "eof"}
    /\ keepalive \in {"off", "waiting", "writing", "stopped"}
    /\ buf \in Seq(Nat) /\ out \in Seq(Nat)
    /\ why \in {"none", "ready", "timeout", "cancel"}
    /\ gatePc \in {"gate", "stopping", "boot", "join", "copy", "wait", "done"}
    /\ gateResult \in {"none", "nil", "err"}

\* Past the stop of the keepalive there is none.
GateQuiet == gatePc \in {"gate", "stopping"} \/ KeepaliveOver

\* The buffer and the output hold units that were taken, each in order; what
\* the copy is to take from the buffer goes out first, and the prefetch is over.
GateOrder ==
    /\ Increasing(buf) /\ \A i \in 1..Len(buf) : buf[i] \in 1..taken
    /\ Increasing(out) /\ \A i \in 1..Len(out) : out[i] \in 1..taken
    /\ gatePc \in {"gate", "stopping", "boot", "join"} => out = <<>>
    /\ why = "ready" => (buf # <<>> => out = <<>>) /\ prefetcher \in {"ready", "eof"}

\* Every unit taken is somewhere.
GateBalance == 1..taken = Elems(out) \cup Elems(buf) \cup overflow

\* What the handler knows where it waits for ffmpeg, and of a clean end.
GateEnd ==
    /\ why = "cancel" => gone
    /\ why = "none" /\ gatePc # "gate" => buf = <<>> /\ (prefetcher # "reading" \/ closed)
    /\ gatePc = "wait" \/ gateResult = "nil" =>
         gone \/ (taken = written /\ ffmpeg # "running" /\ (why = "ready" => buf = <<>>))
    /\ gateResult = "nil" => gone \/ ffmpeg = "ok"
    /\ gateResult # "none" => gatePc = "done"
    /\ gateResult = "err" => closed /\ ffmpeg # "running"

GateInv == GateTypes /\ GateQuiet /\ GateOrder /\ GateBalance /\ GateEnd

\* Steps that move none of the stream.
LEMMA QuietGateStep ==
    ASSUME GateInv, UNCHANGED <<written, taken, buf, out, overflow>>,
           GateTypes', GateQuiet', GateEnd',
           gatePc' \in {"gate", "stopping", "boot", "join"} => gatePc \in {"gate", "stopping", "boot", "join"},
           why' = "ready" => \/ why = "ready" /\ prefetcher' = prefetcher
                             \/ gatePc = "gate" /\ prefetcher' \in {"ready", "eof"}
    PROVE  GateInv'
<1>1. GateOrder'
  BY DEF GateInv, GateOrder, Increasing
<1>2. GateBalance'
  BY DEF GateInv, GateBalance, Elems
<1> QED
  BY <1>1, <1>2 DEF GateInv

LEMMA EmptySequence ==
    /\ <<>> \in Seq(Nat) /\ Increasing(<<>>) /\ Elems(<<>>) = {}
    /\ \A t \in Nat : \A i \in 1..Len(<<>>) : <<>>[i] \in 1..t
<1>1. Len(<<>>) = 0 /\ <<>> \in Seq(Nat)
  OBVIOUS
<1>2. 1..0 = {}
  OBVIOUS
<1> QED
  BY <1>1, <1>2 DEF Increasing, Elems

\* The prefetch goroutine's read: the run it takes goes to the buffer, what
\* does not fit is dropped.
LEMMA PrefetchStep ==
    ASSUME GateInv, Gate!Prefetch, gone' = gone
    PROVE  GateInv'
<1> USE DEF Gate!process, Gate!gate
<1>0. GateTypes /\ GateQuiet /\ GateOrder /\ GateBalance /\ GateEnd
  BY DEF GateInv
<1>1. PICK n \in 1..ReadMax :
        /\ n <= written - taken
        /\ taken' = taken + n
        /\ buf' = buf \o Gate!Kept(n)
        /\ overflow' = overflow \cup (Gate!ToSet(Gate!Unread(n)) \ Gate!ToSet(Gate!Kept(n)))
        /\ prefetcher' \in {"ready", "reading"}
  BY DEF Gate!Prefetch, Gate!InPipe
<1>2. n \in Nat /\ taken \in Nat /\ buf \in Seq(Nat)
  BY <1>0, ChannelRelayAssumption DEF GateTypes
<1>3. PICK m \in 0..n :
        IsRun(Gate!Kept(n), taken, m) /\ Gate!ToSet(Gate!Kept(n)) = (taken + 1)..(taken + m)
  BY <1>2, KeptIsRun
<1>4. Gate!ToSet(Gate!Unread(n)) = (taken + 1)..(taken + n)
  BY <1>2, UnreadIsRun
<1>5. /\ buf' \in Seq(Nat) /\ Increasing(buf')
      /\ \A i \in 1..Len(buf') : buf'[i] \in 1..(taken + m)
      /\ Elems(buf') = Elems(buf) \cup ((taken + 1)..(taken + m))
  BY <1>0, <1>1, <1>2, <1>3, AppendRun, RunElems DEF GateOrder
<1>keep. /\ prefetcher = "reading" /\ ~closed
         /\ UNCHANGED <<written, ffmpeg, closed, keepalive, stopCh, gatePc, why, copyErr,
                        gateResult, out>>
  BY DEF Gate!Prefetch
<1>6. GateTypes'
  <2>1. taken' \in 0..written
    BY <1>0, <1>1, <1>2 DEF GateTypes
  <2> QED
    BY <1>0, <1>1, <1>5, <1>keep, <2>1 DEF GateTypes
<1>7. GateQuiet'
  BY <1>0, <1>keep DEF GateQuiet, KeepaliveOver
<1>8. GateOrder'
  <2>1. \A i \in 1..Len(buf') : buf'[i] \in 1..taken'
    BY <1>1, <1>2, <1>3, <1>5
  <2>2. \A i \in 1..Len(out) : out[i] \in 1..taken'
    BY <1>0, <1>1, <1>2 DEF GateOrder
  <2>3. why # "ready"
    BY <1>0, <1>keep DEF GateOrder
  <2>4. Increasing(out')
    BY <1>0, <1>keep DEF GateOrder
  <2> QED
    BY <1>0, <1>5, <1>keep, <2>1, <2>2, <2>3, <2>4 DEF GateOrder
<1>9. GateBalance'
  <2>1. overflow' = overflow \cup ((taken + m + 1)..(taken + n))
    BY <1>1, <1>2, <1>3, <1>4
  <2>2. 1..taken' = (1..taken) \cup ((taken + 1)..(taken + m)) \cup ((taken + m + 1)..(taken + n))
    BY <1>1, <1>2, <1>3
  <2>3. Elems(out') = Elems(out)
    BY <1>keep
  <2> QED
    BY <1>0, <1>5, <2>1, <2>2, <2>3 DEF GateBalance
<1>10. GateEnd'
  <2>1. ~(why = "none" /\ gatePc # "gate")
    BY <1>0, <1>keep DEF GateEnd
  <2>2. taken # written
    BY <1>0, <1>1, <1>2 DEF GateTypes
  <2>3. (gatePc = "wait" \/ gateResult = "nil") => gone
    BY <1>0, <2>2 DEF GateEnd
  <2> QED
    BY <1>0, <1>keep, <2>1, <2>3 DEF GateEnd
<1> QED
  BY <1>6, <1>7, <1>8, <1>9, <1>10 DEF GateInv

\* The copy's read of the pipe: what it takes follows what went out before.
LEMMA CopyStep ==
    ASSUME GateInv, Gate!Copy, gone' = gone
    PROVE  GateInv'
<1> USE DEF Gate!process, Gate!gate
<1>0. GateTypes /\ GateQuiet /\ GateOrder /\ GateBalance /\ GateEnd
  BY DEF GateInv
<1>1. PICK n \in 1..ReadMax :
        n <= written - taken /\ taken' = taken + n /\ out' = out \o Gate!Unread(n)
  BY DEF Gate!Copy, Gate!InPipe
<1>2. n \in Nat /\ taken \in Nat /\ out \in Seq(Nat)
  BY <1>0, ChannelRelayAssumption DEF GateTypes
<1>3. IsRun(Gate!Unread(n), taken, n) /\ Elems(Gate!Unread(n)) = (taken + 1)..(taken + n)
  BY <1>2, UnreadIsRun, RunElems
<1>4. /\ out' \in Seq(Nat) /\ Increasing(out')
      /\ \A i \in 1..Len(out') : out'[i] \in 1..(taken + n)
      /\ Elems(out') = Elems(out) \cup ((taken + 1)..(taken + n))
  BY <1>0, <1>1, <1>2, <1>3, AppendRun DEF GateOrder
<1>keep. /\ gatePc = "copy" /\ ~(why = "ready" /\ buf # <<>>)
         /\ UNCHANGED <<written, ffmpeg, closed, prefetcher, buf, keepalive, stopCh, gatePc,
                        why, copyErr, gateResult, overflow>>
  BY DEF Gate!Copy, Gate!Prefetched
<1>5. GateTypes'
  <2>1. taken' \in 0..written
    BY <1>0, <1>1, <1>2 DEF GateTypes
  <2> QED
    BY <1>0, <1>4, <1>keep, <2>1 DEF GateTypes
<1>6. GateQuiet'
  BY <1>0, <1>keep DEF GateQuiet, KeepaliveOver
<1>7. GateOrder'
  <2>1. \A i \in 1..Len(buf) : buf[i] \in 1..taken'
    BY <1>0, <1>1, <1>2 DEF GateOrder
  <2>2. Increasing(buf')
    BY <1>0, <1>keep DEF GateOrder
  <2> QED
    BY <1>0, <1>1, <1>4, <1>keep, <2>1, <2>2 DEF GateOrder
<1>8. GateBalance'
  <2>1. 1..taken' = (1..taken) \cup ((taken + 1)..(taken + n))
    BY <1>1, <1>2
  <2>2. Elems(buf') = Elems(buf)
    BY <1>keep
  <2> QED
    BY <1>0, <1>4, <1>keep, <2>1, <2>2 DEF GateBalance
<1>9. GateEnd'
  BY <1>0, <1>keep DEF GateEnd
<1> QED
  BY <1>5, <1>6, <1>7, <1>8, <1>9 DEF GateInv

\* The copy begins with the prefetch.
LEMMA CopyPrefetchedStep ==
    ASSUME GateInv, Gate!CopyPrefetched, gone' = gone
    PROVE  GateInv'
<1> USE DEF Gate!process
<1>0. GateTypes /\ GateQuiet /\ GateOrder /\ GateBalance /\ GateEnd
  BY DEF GateInv
<1>keep. /\ gatePc = "copy" /\ why = "ready" /\ buf # <<>> /\ buf' = <<>> /\ out' = out \o buf
         /\ UNCHANGED <<written, taken, ffmpeg, closed, prefetcher, keepalive, stopCh, gatePc,
                        why, copyErr, gateResult, overflow>>
  BY DEF Gate!CopyPrefetched, Gate!Prefetched
<1>1. out = <<>> /\ out' = buf
  BY <1>0, <1>keep, ConcatEmptySeq DEF GateOrder, GateTypes
<1>2. GateTypes' /\ GateQuiet' /\ GateEnd'
  BY <1>0, <1>1, <1>keep DEF GateTypes, GateQuiet, GateEnd, KeepaliveOver
<1>3. GateOrder'
  BY <1>0, <1>1, <1>keep, EmptySequence DEF GateOrder, GateTypes
<1>4. GateBalance'
  <2>1. Elems(buf') = {} /\ Elems(out) = {} /\ Elems(out') = Elems(buf)
    BY <1>1, <1>keep, EmptySequence
  <2> QED
    BY <1>0, <1>keep, <2>1 DEF GateBalance
<1> QED
  BY <1>2, <1>3, <1>4 DEF GateInv

LEMMA GateStepInv ==
    ASSUME GateInv, GateStep, gone \in BOOLEAN
    PROVE  GateInv'
<1> USE DEF Gate!process, Gate!gate, GateTypes, GateQuiet, GateEnd, KeepaliveOver
<1>0. GateTypes /\ GateQuiet /\ GateOrder /\ GateBalance /\ GateEnd
  BY DEF GateInv
<1>1. CASE Gate!Emit
  <2>1. GateTypes' /\ GateQuiet' /\ GateEnd'
    BY <1>0, <1>1 DEF Gate!Emit
  <2>2. GateOrder' /\ GateBalance'
    BY <1>0, <1>1 DEF Gate!Emit, GateOrder, GateBalance, Increasing, Elems
  <2> QED
    BY <2>1, <2>2 DEF GateInv
<1>2. CASE Gate!Exit
  BY <1>0, <1>2, QuietGateStep DEF Gate!Exit
<1>3. CASE Gate!ContextKill
  BY <1>0, <1>3, QuietGateStep DEF Gate!ContextKill
<1>4. CASE Gate!HangUp
  BY <1>0, <1>4, QuietGateStep DEF Gate!HangUp
<1>5. CASE Gate!Prefetch
  <2>1. gone' = gone
    BY <1>5 DEF Gate!Prefetch
  <2> QED
    BY <1>5, <2>1, PrefetchStep
<1>6. CASE Gate!PrefetchEOF
  BY <1>0, <1>6, QuietGateStep DEF Gate!PrefetchEOF, GateOrder
<1>7. CASE Gate!KeepTick
  BY <1>0, <1>7, QuietGateStep DEF Gate!KeepTick
<1>8. CASE Gate!KeepWritten
  BY <1>0, <1>8, QuietGateStep DEF Gate!KeepWritten
<1>9. CASE Gate!KeepStop
  BY <1>0, <1>9, QuietGateStep DEF Gate!KeepStop
<1>10. CASE Gate!LeaveGate
  <2>1. GateTypes' /\ GateQuiet' /\ GateEnd'
    BY <1>0, <1>10 DEF Gate!LeaveGate
  <2> QED
    BY <1>10, <2>1, QuietGateStep DEF Gate!LeaveGate
<1>11. CASE Gate!GateStopped
  <2> USE DEF Gate!GateStopped, Gate!KillAndWait, Gate!Return, Gate!KeepaliveStopped
  <2>1. GateTypes' /\ GateQuiet'
    BY <1>0, <1>11
  <2>2. GateEnd'
    <3>1. CASE (Gate!EmptyPrefetch \/ why = "timeout") /\ Gate!KillAndWait /\ Gate!Return("err")
      BY <1>0, <1>11, <3>1
    <3>2. CASE why = "cancel" /\ Gate!KillAndWait /\ Gate!Return("nil")
      BY <1>0, <1>11, <3>2
    <3>3. CASE gatePc' = "boot" /\ UNCHANGED <<Gate!process, gateResult>>
      BY <1>0, <1>11, <3>3
    <3> QED
      BY <1>11, <3>1, <3>2, <3>3
  <2> QED
    BY <1>0, <1>11, <2>1, <2>2, QuietGateStep
<1>12. CASE Gate!Bootstrap
  BY <1>0, <1>12, QuietGateStep DEF Gate!Bootstrap
<1>13. CASE Gate!Join
  BY <1>0, <1>13, QuietGateStep DEF Gate!Join, Gate!Return
<1>14. CASE Gate!CopyPrefetched
  <2>1. gone' = gone
    BY <1>14 DEF Gate!CopyPrefetched
  <2> QED
    BY <1>14, <2>1, CopyPrefetchedStep
<1>15. CASE Gate!Copy
  <2>1. gone' = gone
    BY <1>15 DEF Gate!Copy
  <2> QED
    BY <1>15, <2>1, CopyStep
<1>16. CASE Gate!CopyEnds
  <2>1. GateTypes' /\ GateQuiet'
    BY <1>0, <1>16 DEF Gate!CopyEnds
  <2>2. GateEnd'
    BY <1>0, <1>16 DEF Gate!CopyEnds, Gate!Prefetched, Gate!InPipe
  <2> QED
    BY <1>16, <2>1, <2>2, QuietGateStep DEF Gate!CopyEnds
<1>17. CASE Gate!Wait
  <2>1. GateTypes' /\ GateQuiet'
    BY <1>0, <1>17 DEF Gate!Wait, Gate!Return
  <2>2. GateEnd'
    BY <1>0, <1>17 DEF Gate!Wait, Gate!Return
  <2> QED
    BY <1>17, <2>1, <2>2, QuietGateStep DEF Gate!Wait, Gate!Return
<1> QED
  BY <1>1, <1>2, <1>3, <1>4, <1>5, <1>6, <1>7, <1>8, <1>9, <1>10, <1>11, <1>12,
     <1>13, <1>14, <1>15, <1>16, <1>17 DEF GateStep, Gate!Goroutines, Gate!Handler

\* What is not ffmpeg's relay moves nothing of it; a client can only leave.
LEMMA OtherStepsKeepGate ==
    ASSUME GateInv, UNCHANGED gateVars, gone => gone'
    PROVE  GateInv'
<1> USE DEF gateVars
<1>1. GateTypes' /\ GateQuiet' /\ GateEnd'
  BY DEF GateInv, GateTypes, GateQuiet, GateEnd, KeepaliveOver
<1> QED
  BY <1>1, QuietGateStep DEF GateInv, GateOrder

-----------------------------------------------------------------------------
(* The two relays and the raw one.                                          *)

\* The Go relay has not been called.
Untouched ==
    /\ lo = 1 /\ hi = 0 /\ url = "media" /\ kind = "media" /\ from = 1 /\ to = 0
    /\ at = 1 /\ seen = {} /\ failed = {} /\ offered = {} /\ sent = <<>>
    /\ progress = FALSE /\ idle = 0 /\ result = "running" /\ reason = "none"

WalkInv ==
    /\ gone \in BOOLEAN /\ started \in BOOLEAN
    /\ IF NotCalled THEN Untouched ELSE IInv

\* The relays have the client one after the other.
Handover ==
    /\ ~NotCalled => gatePc = "done" /\ gateResult = "err"
    /\ NotHLS => pc = "done"

\* What is left of ffmpeg when a raw relay returns.
RawInv ==
    /\ rawPc = "proxy" => normalizer = "none" /\ feeder = "none"
    /\ rawPc = "done" => normalizer # "running" /\ feeder # "feeding"

ChannelInv == GateInv /\ WalkInv /\ Handover /\ RawInv

LEMMA InitChannel == ChannelInit => ChannelInv
<1> SUFFICES ASSUME ChannelInit PROVE ChannelInv
  OBVIOUS
<1>1. GateInv
  <2>1. /\ buf = <<>> /\ out = <<>> /\ written = 0 /\ taken = 0 /\ overflow = {}
    BY DEF ChannelInit, Gate!Init, GateNotEntered
  <2>2. GateOrder /\ GateBalance
    BY <2>1, EmptySequence DEF ChannelInit, Gate!Init, GateNotEntered, GateOrder, GateBalance
  <2>3. GateTypes
    <3>1. written \in Nat /\ taken \in 0..written /\ buf \in Seq(Nat) /\ out \in Seq(Nat)
      BY <2>1, EmptySequence
    <3> QED
      BY <3>1 DEF ChannelInit, Gate!Init, GateNotEntered, GateTypes
  <2>4. GateQuiet /\ GateEnd
    BY DEF ChannelInit, Gate!Init, GateNotEntered, GateQuiet, GateEnd, KeepaliveOver
  <2> QED
    BY <2>2, <2>3, <2>4 DEF GateInv
<1>2. gone \in BOOLEAN /\ started \in BOOLEAN /\ Untouched
  BY DEF ChannelInit, Gate!Init, GateNotEntered, Untouched
<1>3. ASSUME pc # "ffmpeg" PROVE IInv
  <2>1. pc = "done"
    BY <1>3 DEF ChannelInit
  <2>2. TypeOK
    <3>1. sent \in Seq(Segments) /\ idle \in 0..(Deadline + 1)
      BY <1>2, HLSRelayAssumption, EmptySeq DEF Untouched
    <3> QED
      BY <1>2, <2>1, <3>1 DEF TypeOK, Untouched, Kinds, PCs, Reasons
  <2>3. Window /\ Ordered /\ InOrderOnce
    BY <1>2, <2>1, HLSRelayAssumption DEF Untouched, Window, Ordered, InOrderOnce
  <2>4. Accounted
    BY <1>2, <2>1 DEF Untouched, Accounted
  <2> QED
    BY <2>2, <2>3, <2>4 DEF IInv
<1>4. Handover /\ RawInv
  BY DEF ChannelInit, Gate!Init, GateNotEntered, Raw!RawInit, Handover, RawInv, NotCalled, NotHLS
<1> QED
  BY <1>1, <1>2, <1>3, <1>4 DEF ChannelInv, WalkInv, NotCalled

\* A step that moves neither the Go relay's variables nor its client but away.
LEMMA OtherStepsKeepWalk ==
    ASSUME WalkInv, UNCHANGED walkVars, gone' \in BOOLEAN
    PROVE  WalkInv'
<1> USE DEF walkVars, upstream, playlist, returned
<1>1. CASE NotCalled
  BY <1>1 DEF WalkInv, NotCalled, Untouched
<1>2. CASE ~NotCalled
  <2>1. IInv
    BY <1>2 DEF WalkInv
  <2>2. IInv'
    BY <2>1, QuietStep DEF IInv, TypeOK, Window
  <2> QED
    BY <1>2, <2>2 DEF WalkInv, NotCalled
<1> QED
  BY <1>1, <1>2

\* The Go relay starts from the playlist the gateway had read.
LEMMA FallBackStarts ==
    ASSUME WalkInv, FallBack
    PROVE  WalkInv'
<1>1. Untouched /\ NotCalled /\ gone \in BOOLEAN /\ started \in BOOLEAN
  BY DEF FallBack, WalkInv
<1>2. PICK u \in Kinds, h \in 0..MaxSeg :
        url' = u /\ kind' = u /\ hi' = h /\ to' = (IF u = "master" THEN Variants ELSE h)
  BY DEF FallBack
<1>3. /\ lo' = 1 /\ from' = 1 /\ at' = 1 /\ seen' = {} /\ failed' = {} /\ offered' = {}
      /\ sent' = <<>> /\ progress' = FALSE /\ idle' = 0 /\ result' = "running"
      /\ reason' = "none" /\ pc' = "loop" /\ gone' = gone /\ started' = started
  BY <1>1 DEF FallBack, Untouched, returned
<1>4. TypeOK'
  <2>1. hi' \in Nat /\ to' \in Nat
    BY <1>2, HLSRelayAssumption
  <2>2. sent' \in Seq(Segments) /\ idle' \in 0..(Deadline + 1)
    BY <1>3, HLSRelayAssumption, EmptySeq
  <2> QED
    BY <1>1, <1>2, <1>3, <2>1, <2>2 DEF TypeOK, PCs, Reasons
<1>5. Window' /\ Accounted'
  BY <1>2, <1>3, HLSRelayAssumption DEF Window, Accounted, Kinds
<1>6. Ordered' /\ InOrderOnce'
  BY <1>2, <1>3 DEF Ordered, InOrderOnce
<1> QED
  BY <1>1, <1>3, <1>4, <1>5, <1>6 DEF WalkInv, IInv, NotCalled

LEMMA NextChannel == ChannelInv /\ [ChannelNext]_channelVars => ChannelInv'
<1> SUFFICES ASSUME ChannelInv, [ChannelNext]_channelVars PROVE ChannelInv'
  OBVIOUS
<1>0. GateInv /\ WalkInv /\ Handover /\ RawInv /\ gone \in BOOLEAN
  BY DEF ChannelInv, WalkInv
<1>1. CASE GateStep
  <2>1. gone' \in BOOLEAN
    BY <1>0, <1>1 DEF GateStep, Gate!Emit, Gate!Exit, Gate!ContextKill, Gate!HangUp,
          Gate!Goroutines, Gate!Prefetch, Gate!PrefetchEOF, Gate!KeepTick, Gate!KeepWritten,
          Gate!KeepStop, Gate!Handler, Gate!LeaveGate, Gate!GateStopped, Gate!Bootstrap,
          Gate!Join, Gate!CopyPrefetched, Gate!Copy, Gate!CopyEnds, Gate!Wait
  <2>2. WalkInv' /\ GateInv'
    BY <1>0, <1>1, <2>1, OtherStepsKeepWalk, GateStepInv DEF GateStep
  <2>3. gatePc = "done" => UNCHANGED <<gatePc, gateResult>>
    BY <1>1 DEF GateStep, Gate!Emit, Gate!Exit, Gate!ContextKill, Gate!HangUp,
          Gate!Goroutines, Gate!Prefetch, Gate!PrefetchEOF, Gate!KeepTick, Gate!KeepWritten,
          Gate!KeepStop, Gate!Handler, Gate!LeaveGate, Gate!GateStopped, Gate!Bootstrap,
          Gate!Join, Gate!CopyPrefetched, Gate!Copy, Gate!CopyEnds, Gate!Wait
  <2>4. Handover' /\ RawInv'
    BY <1>0, <1>1, <2>3 DEF GateStep, Handover, RawInv, NotCalled, NotHLS, walkVars, rawVars
  <2> QED
    BY <2>2, <2>4 DEF ChannelInv
<1>2. CASE FallBack
  <2>1. WalkInv'
    BY <1>0, <1>2, FallBackStarts
  <2>2. GateInv'
    <3>1. GateOrder' /\ GateBalance'
      BY <1>2, EmptySequence DEF FallBack, GateOrder, GateBalance
    <3>2. GateTypes'
      BY <1>0, <1>2, EmptySequence DEF FallBack, GateInv, GateTypes
    <3>3. GateQuiet' /\ GateEnd'
      BY <1>0, <1>2 DEF FallBack, GateInv, GateTypes, GateQuiet, GateEnd, KeepaliveOver
    <3> QED
      BY <3>1, <3>2, <3>3 DEF GateInv
  <2>3. Handover' /\ RawInv'
    BY <1>0, <1>2 DEF FallBack, Handover, RawInv, NotCalled, NotHLS, rawVars
  <2> QED
    BY <2>1, <2>2, <2>3 DEF ChannelInv
<1>3. CASE WalkStep
  <2>1. IInv /\ IInv'
    BY <1>0, <1>3, StepIInv DEF WalkStep, WalkInv, Next
  <2>2. (gone => gone') /\ gone' \in BOOLEAN /\ started' \in BOOLEAN /\ pc' # "ffmpeg"
    BY <2>1, <1>3 DEF IInv, TypeOK, PCs, WalkStep, Environment, Publish, Expire, Tick, HangUp,
          Relay, ReturnCancelled, NoLines, StartPass, FollowVariant, VariantFails, SkipSeen,
          SegmentSent, SegmentEmpty, SegmentLost, SegmentEndsRelay, Rest, Refresh, RefreshFails
  <2>3. GateInv'
    BY <1>0, <1>3, <2>2, OtherStepsKeepGate DEF WalkStep
  <2>4. Handover' /\ RawInv'
    BY <1>0, <1>3 DEF WalkStep, Handover, RawInv, NotCalled, NotHLS, gateVars, rawVars
  <2> QED
    BY <2>1, <2>2, <2>3, <2>4 DEF ChannelInv, WalkInv, NotCalled
<1>4. CASE RawStep
  <2> USE DEF RawStep, Raw!RawNext, Raw!RawHandler, Raw!BodyEnds, Raw!FeederEnds,
              Raw!NormalizerExits, Raw!RawCopyEnds, Raw!RawWait, Raw!Proxied, Raw!RawHangUp,
              Raw!rawVars
  <2>1. (gone => gone') /\ gone' \in BOOLEAN
    BY <1>0, <1>4
  <2>2. GateInv' /\ WalkInv'
    BY <1>0, <1>4, <2>1, OtherStepsKeepGate, OtherStepsKeepWalk
  <2>3. Handover'
    BY <1>0, <1>4 DEF Handover, NotCalled, NotHLS, gateVars, walkVars
  <2>4. RawInv'
    BY <1>0, <1>4 DEF RawInv
  <2> QED
    BY <2>2, <2>3, <2>4 DEF ChannelInv
<1>5. CASE UNCHANGED channelVars
  <2>1. UNCHANGED gateVars /\ UNCHANGED walkVars /\ UNCHANGED rawVars /\ gone' = gone
    BY <1>5 DEF channelVars
  <2>2. GateInv' /\ WalkInv'
    BY <1>0, <2>1, OtherStepsKeepGate, OtherStepsKeepWalk
  <2>3. Handover' /\ RawInv'
    BY <1>0, <2>1 DEF Handover, RawInv, NotCalled, NotHLS, gateVars, walkVars, rawVars
  <2> QED
    BY <2>2, <2>3 DEF ChannelInv
<1> QED
  BY <1>1, <1>2, <1>3, <1>4, <1>5 DEF ChannelNext

LEMMA ChannelInductive == ChannelSpec => []ChannelInv
<1> QED
  BY InitChannel, NextChannel, PTL DEF ChannelSpec

\* The response has one writer at a time: the keepalive is over before the
\* handler writes, and before the Go relay is called (psi_keepalive.go: stop).
THEOREM ChannelSingleWriter == ChannelSpec => []SingleWriter
<1>1. ChannelInv => SingleWriter
  BY DEF ChannelInv, GateInv, GateQuiet, KeepaliveOver, Handover, SingleWriter,
         Gate!SingleWriter
<1> QED
  BY <1>1, ChannelInductive, PTL

\* ffmpeg's stream reaches the client in order and nothing of it twice, with
\* the prefetch first, and although after a timeout two readers share the pipe
\* (gateway_relay.go: io.MultiReader).
THEOREM ChannelInOrder == ChannelSpec => []InOrder
<1>1. ChannelInv => InOrder
  BY DEF ChannelInv, GateInv, GateOrder, Increasing, InOrder, Gate!InOrder
<1> QED
  BY <1>1, ChannelInductive, PTL

\* A relay that ffmpeg and the client ended well delivered all that ffmpeg
\* wrote, but for what the gate dropped (gateway_relay.go: cmd.Wait and the
\* result of the copy).
THEOREM ChannelCleanEndComplete == ChannelSpec => []CleanEndIsComplete
<1>1. ChannelInv => CleanEndIsComplete
  <2> SUFFICES ASSUME ChannelInv, gateResult = "nil", ~gone
               PROVE  /\ ffmpeg = "ok"
                      /\ 1..written = Gate!ToSet(out) \cup overflow
                           \cup (IF why = "timeout" THEN Gate!ToSet(buf) ELSE {})
    BY DEF CleanEndIsComplete, Gate!CleanEndIsComplete
  <2>1. /\ ffmpeg = "ok" /\ taken = written
        /\ why \in {"none", "ready"} => buf = <<>>
        /\ why \in {"none", "ready", "timeout"}
    BY DEF ChannelInv, GateInv, GateEnd, GateTypes
  <2>2. Gate!ToSet(out) = Elems(out) /\ Gate!ToSet(buf) = Elems(buf)
    <3>1. DOMAIN out = 1..Len(out) /\ DOMAIN buf = 1..Len(buf)
      BY LenProperties DEF ChannelInv, GateInv, GateTypes
    <3> QED
      BY <3>1 DEF Gate!ToSet, Elems
  <2>3. 1..taken = Elems(out) \cup Elems(buf) \cup overflow
    BY DEF ChannelInv, GateInv, GateBalance
  <2>4. why # "timeout" => Elems(buf) = {}
    BY <2>1, EmptySequence
  <2> QED
    BY <2>1, <2>2, <2>3, <2>4
<1> QED
  BY <1>1, ChannelInductive, PTL

\* The Go relay keeps its promise where it takes over from ffmpeg, on whatever
\* playlist the gateway had read and however often the window moved since
\* (gateway.go: relayHLSAsTS after relayHLSWithFFmpeg).
THEOREM ChannelInOrderOnce == ChannelSpec => []InOrderOnce
<1>1. ChannelInv => InOrderOnce
  <2>1. Untouched => InOrderOnce
    BY DEF Untouched, InOrderOnce
  <2> QED
    BY <2>1 DEF ChannelInv, WalkInv, IInv
<1> QED
  BY <1>1, ChannelInductive, PTL

\* And a segment of a playlist it walked is missing only if its own fetch failed.
THEOREM ChannelLostOnlyByFailure == ChannelSpec => []LostOnlyByFailure
<1>1. ChannelInv => LostOnlyByFailure
  <2>1. NotCalled => LostOnlyByFailure
    BY DEF NotCalled, LostOnlyByFailure
  <2>2. IInv => LostOnlyByFailure
    BY DEF IInv, Window, Accounted, LostOnlyByFailure, TypeOK, Kinds
  <2> QED
    BY <2>1, <2>2 DEF ChannelInv, WalkInv
<1> QED
  BY <1>1, ChannelInductive, PTL

\* A raw relay that has returned has left neither ffmpeg nor its feeder behind
\* (gateway_relay.go: the deferred cmd.Wait): the safety half of
\* NothingLeftBehind.
THEOREM RawLeavesNothing ==
    ChannelSpec => [](rawPc = "done" => normalizer # "running" /\ feeder # "feeding")
<1>1. ChannelInv => (rawPc = "done" => normalizer # "running" /\ feeder # "feeding")
  BY DEF ChannelInv, RawInv
<1> QED
  BY <1>1, ChannelInductive, PTL

\* The Go relay takes over a response only from an ffmpeg that is over, whose
\* pipe is closed: what of the first relay still runs beside the second can
\* only find the pipe closed, and touches neither the client nor the stream
\* (gateway_relay.go: Kill and Wait on every error return).
THEOREM FallBackOnlyAfterFFmpeg ==
    ChannelSpec => [](~NotCalled => closed /\ ffmpeg # "running" /\ KeepaliveOver)
<1>1. ChannelInv => (~NotCalled => closed /\ ffmpeg # "running" /\ KeepaliveOver)
  BY DEF ChannelInv, Handover, GateInv, GateEnd, GateQuiet
<1> QED
  BY <1>1, ChannelInductive, PTL
===============================================================================
