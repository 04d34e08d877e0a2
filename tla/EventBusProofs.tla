--------------------------- MODULE EventBusProofs ---------------------------
(***************************************************************************)
(* Theorems about EventBus.  The ring always holds the last ids, every     *)
(* channel holds consecutive ones up to the newest, and what is at its     *)
(* head follows what a whole client already has.                           *)
(***************************************************************************)
EXTENDS EventBus, TLAPS

RingInv ==
  /\ Len(ring) <= RingSize /\ Len(ring) <= next - 1
  /\ ring = <<>> => next = 1
  /\ \A i \in 1..Len(ring) : ring[i] = next - 1 - Len(ring) + i

\* A Reset may only come first, and events follow one another, all before n.
Unbroken(q, n) ==
  /\ \A i \in 2..Len(q) : ~q[i].reset
  /\ \A i \in 1..Len(q) : q[i].id < n /\ (q[i].reset \/ q[i].id > 0)
  /\ \A i \in 1..(Len(q) - 1) : q[i].reset \/ q[i + 1].id = q[i].id + 1

ChannelInv(c) ==
  /\ Unbroken(ch[c], next)
  /\ c \in subs /\ ch[c] # <<>> => ch[c][Len(ch[c])].id = next - 1
  /\ c \in subs => link[c] \in {"fresh", "open"}
  /\ c \in subs /\ link[c] = "open" /\ ch[c] = <<>> => cursor[c] = next - 1
  /\ link[c] = "fresh" => \A i \in 1..Len(ch[c]) : ~ch[c][i].reset

CursorInv(c) ==
  /\ link[c] = "closed" => cursor[c] = NoId
  /\ link[c] = "fresh" => cursor[c] <= 0
  /\ since[c] <= base
  /\ since[c] = base => cursor[c] < next

\* The head of a channel follows what a whole client has.
HeadInv(c) ==
  link[c] = "open" /\ ch[c] # <<>> =>
    /\ Whole(c) /\ ~ch[c][1].reset => 1..(base + ch[c][1].id - 1) \subseteq knows[c]
    /\ since[c] = base /\ ch[c][1].reset => ch[c][1].id > 0

ClientInv(c) == ChannelInv(c) /\ CursorInv(c) /\ HeadInv(c)

BusInv == TypeOK /\ ChannelFits /\ RingInv /\ \A c \in Clients : ClientInv(c)

-----------------------------------------------------------------------------
(* What Subscribe puts into a channel.                                     *)

Replay(k) == [i \in 1..(Len(ring) - k) |-> Event(ring[k + i])]

IsEnd(k, last) == k \in 0..Len(ring) /\ \A i \in 1..Len(ring) : ring[i] > last <=> i > k

LEMMA ReplayShape ==
  ASSUME TypeOK, RingInv, NEW last \in Nat \ {0}, NEW k, IsEnd(k, last)
  PROVE  /\ Replay(k) \in Seq(Messages) /\ Len(Replay(k)) = Len(ring) - k
         /\ \A i \in 1..Len(Replay(k)) :
              Replay(k)[i].id = next - 1 - Len(ring) + k + i /\ ~Replay(k)[i].reset
         /\ k = Len(ring) => last >= next - 1
         /\ k # Len(ring) => last <= next - 1 - Len(ring) + k
         /\ k > 0 => last >= next - 1 - Len(ring) + k
<1>1. k \in 0..Len(ring) /\ Len(ring) \in Nat
  BY DEF IsEnd, TypeOK
<1>2. \A i \in 1..Len(ring) : ring[i] \in Nat
  BY DEF TypeOK
<1>3. \A i \in 1..(Len(ring) - k) : Event(ring[k + i]) \in Messages
  BY <1>1, <1>2 DEF Event, Messages
<1>4. Replay(k) \in Seq(Messages) /\ Len(Replay(k)) = Len(ring) - k
  BY <1>1, <1>3 DEF Replay
<1>5. \A i \in 1..Len(Replay(k)) :
        Replay(k)[i].id = next - 1 - Len(ring) + k + i /\ ~Replay(k)[i].reset
  <2> SUFFICES ASSUME NEW i \in 1..Len(Replay(k))
               PROVE  /\ Replay(k)[i].id = next - 1 - Len(ring) + k + i
                      /\ ~Replay(k)[i].reset
    OBVIOUS
  <2>1. i \in 1..(Len(ring) - k) /\ k + i \in 1..Len(ring) /\ i \in Nat /\ k \in Nat
    BY <1>1, <1>4
  <2>2. Replay(k)[i] = Event(ring[k + i])
    BY <2>1 DEF Replay
  <2>3. ring[k + i] = next - 1 - Len(ring) + (k + i)
    BY <2>1 DEF RingInv
  <2>4. next \in Nat
    BY DEF TypeOK
  <2> QED
    BY <1>1, <2>1, <2>2, <2>3, <2>4 DEF Event
<1>a. /\ \A i \in 1..Len(ring) : ring[i] > last <=> i > k
      /\ \A i \in 1..Len(ring) : ring[i] = next - 1 - Len(ring) + i
      /\ next \in Nat /\ (Len(ring) = 0 => next = 1)
  <2>1. Len(ring) = 0 => ring = <<>>
    BY DEF TypeOK
  <2> QED
    BY <2>1 DEF IsEnd, RingInv, TypeOK
<1>b. \A i \in 1..Len(ring) : next - 1 - Len(ring) + i > last <=> i > k
  BY <1>a
<1>6. k = Len(ring) => last >= next - 1
  <2>1. CASE Len(ring) = 0
    BY <2>1, <1>a
  <2>2. CASE Len(ring) > 0 /\ k = Len(ring)
    <3>1. Len(ring) \in 1..Len(ring)
      BY <2>2, <1>1
    <3> QED
      BY <2>2, <3>1, <1>1, <1>a, <1>b
  <2> QED
    BY <2>1, <2>2, <1>1
<1>7. k # Len(ring) => last <= next - 1 - Len(ring) + k
  <2> SUFFICES ASSUME k # Len(ring) PROVE last <= next - 1 - Len(ring) + k
    OBVIOUS
  <2>1. k + 1 \in 1..Len(ring)
    BY <1>1
  <2>2. next - 1 - Len(ring) + (k + 1) > last
    BY <2>1, <1>1, <1>b
  <2> QED
    BY <2>2, <1>1, <1>a
<1>8. k > 0 => last >= next - 1 - Len(ring) + k
  <2> SUFFICES ASSUME k > 0 PROVE last >= next - 1 - Len(ring) + k
    OBVIOUS
  <2>1. k \in 1..Len(ring)
    BY <1>1
  <2>2. ~(next - 1 - Len(ring) + k > last)
    BY <2>1, <1>1, <1>b
  <2> QED
    BY <2>2, <1>1, <1>a
<1> QED
  BY <1>4, <1>5, <1>6, <1>7, <1>8

LEMMA SubscribeShape ==
  ASSUME TypeOK, RingInv, NEW last \in Nat \ {0}, NEW k, IsEnd(k, last),
         NEW q, q = Resets(last) \o Replay(k)
  PROVE  /\ q \in Seq(Messages) /\ Len(q) <= Capacity /\ Unbroken(q, next)
         /\ q # <<>> => q[Len(q)].id = next - 1
         /\ q = <<>> => last = next - 1
         /\ q # <<>> /\ ~q[1].reset => q[1].id = last + 1
         /\ q # <<>> /\ q[1].reset /\ last < next => q[1].id > 0
<1> DEFINE r == Replay(k)
<1>0. /\ r \in Seq(Messages) /\ Len(r) = Len(ring) - k
      /\ \A i \in 1..Len(r) : r[i].id = next - 1 - Len(ring) + k + i /\ ~r[i].reset
      /\ k = Len(ring) => last >= next - 1
      /\ k # Len(ring) => last <= next - 1 - Len(ring) + k
      /\ k > 0 => last >= next - 1 - Len(ring) + k
  BY ReplayShape
<1>1. /\ k \in 0..Len(ring) /\ Len(ring) \in Nat /\ next \in Nat \ {0}
      /\ Len(ring) <= RingSize /\ Len(ring) <= next - 1
      /\ Len(ring) = 0 => next = 1
      /\ Oldest = next - Len(ring)
      /\ Capacity \in Nat /\ Capacity >= RingSize + 1 /\ RingSize \in Nat
  <2>1. Len(ring) \in Nat /\ next \in Nat \ {0} /\ (Len(ring) = 0 => ring = <<>>)
    BY DEF TypeOK
  <2>2. Oldest = next - Len(ring)
    <3>1. CASE ring = <<>>
      BY <2>1, <3>1 DEF Oldest, RingInv
    <3>2. CASE ring # <<>>
      <4>1. 1 \in 1..Len(ring)
        BY <2>1, <3>2
      <4>2. ring[1] = next - 1 - Len(ring) + 1
        BY <4>1 DEF RingInv
      <4> QED
        BY <2>1, <3>2, <4>2 DEF Oldest
    <3> QED
      BY <3>1, <3>2
  <2> QED
    BY <2>1, <2>2, BusConstants DEF IsEnd, RingInv, Capacity
<1> HIDE DEF r
<1>2. CASE last >= next
  <2>1. q = <<Reset(next - 1)>> \o r /\ Len(r) = 0
    BY <1>0, <1>1, <1>2 DEF Resets, r
  <2>2. q = <<Reset(next - 1)>>
    BY <1>0, <2>1
  <2> QED
    BY <1>1, <1>2, <2>2 DEF Reset, Messages, Unbroken
<1>3. CASE last < next /\ last + 1 < Oldest
  <2>1. q = <<Reset(last)>> \o r /\ k = 0
    BY <1>0, <1>1, <1>3 DEF Resets, r
  <2>2. /\ q \in Seq(Messages) /\ Len(q) = 1 + Len(r) /\ q[1] = Reset(last)
        /\ \A i \in 2..Len(q) : q[i] = r[i - 1]
    BY <1>0, <2>1 DEF Reset, Messages
  <2>3. \A i \in 2..Len(q) : q[i].id = next - 1 - Len(ring) + i - 1 /\ ~q[i].reset
    <3> SUFFICES ASSUME NEW i \in 2..Len(q)
                 PROVE  q[i].id = next - 1 - Len(ring) + i - 1 /\ ~q[i].reset
      OBVIOUS
    <3>1. i - 1 \in 1..Len(r) /\ q[i] = r[i - 1] /\ i \in Nat
      BY <1>0, <1>1, <2>2
    <3>2. r[i - 1].id = next - 1 - Len(ring) + k + (i - 1) /\ ~r[i - 1].reset
      BY <1>0, <3>1
    <3> QED
      BY <1>1, <2>1, <3>1, <3>2
  <2>4. Len(q) = 1 + Len(ring) /\ Len(ring) > 0
    BY <1>0, <1>1, <1>3, <2>1, <2>2
  <2>5. q[1].id = last /\ q[1].reset
    BY <2>2 DEF Reset
  <2>6. \A i \in 1..Len(q) : q[i].id < next /\ (q[i].reset \/ q[i].id > 0)
    <3> SUFFICES ASSUME NEW i \in 1..Len(q)
                 PROVE  q[i].id < next /\ (q[i].reset \/ q[i].id > 0)
      OBVIOUS
    <3>1. CASE i = 1
      BY <3>1, <1>3, <2>5
    <3>2. CASE i # 1
      <4>1. i \in 2..Len(q) /\ i \in Nat /\ i <= 1 + Len(ring)
        BY <3>2, <2>4, <1>1
      <4>2. q[i].id = next - 1 - Len(ring) + i - 1
        BY <4>1, <2>3
      <4> QED
        BY <4>1, <4>2, <1>1
    <3> QED
      BY <3>1, <3>2
  <2>7. \A i \in 1..(Len(q) - 1) : q[i].reset \/ q[i + 1].id = q[i].id + 1
    <3> SUFFICES ASSUME NEW i \in 1..(Len(q) - 1), i # 1 PROVE q[i + 1].id = q[i].id + 1
      BY <2>5
    <3>1. i \in 2..Len(q) /\ i + 1 \in 2..Len(q) /\ i \in Nat
      BY <2>4, <1>1
    <3>2. q[i].id = next - 1 - Len(ring) + i - 1
      BY <3>1, <2>3
    <3>3. q[i + 1].id = next - 1 - Len(ring) + (i + 1) - 1
      BY <3>1, <2>3
    <3> QED
      BY <3>1, <3>2, <3>3, <1>1
  <2>8. q[Len(q)].id = next - 1
    <3>1. Len(q) \in 2..Len(q)
      BY <2>4, <1>1
    <3> QED
      BY <3>1, <2>3, <2>4, <1>1
  <2>9. Unbroken(q, next)
    BY <2>3, <2>6, <2>7 DEF Unbroken
  <2> QED
    BY <1>1, <2>2, <2>4, <2>5, <2>8, <2>9
<1>4. CASE last < next /\ last + 1 >= Oldest
  <2>1. q = r
    BY <1>0, <1>1, <1>4 DEF Resets, r
  <2>2. r # <<>> => r[1].id = last + 1
    BY <1>0, <1>1, <1>4
  <2>3. Unbroken(r, next)
    <3>1. ASSUME NEW i \in 1..Len(r)
          PROVE  /\ i \in Nat /\ r[i].id = next - 1 - Len(ring) + k + i /\ ~r[i].reset
                 /\ r[i].id < next /\ r[i].id > 0
      BY <1>0, <1>1
    <3>2. ASSUME NEW i \in 1..(Len(r) - 1) PROVE r[i + 1].id = r[i].id + 1
      <4>1. i \in 1..Len(r) /\ i + 1 \in 1..Len(r)
        BY <1>0, <1>1
      <4>2. r[i + 1].id = next - 1 - Len(ring) + k + (i + 1)
        BY <4>1, <1>0
      <4>3. r[i].id = next - 1 - Len(ring) + k + i /\ i \in Nat
        BY <4>1, <1>0
      <4> QED
        BY <4>2, <4>3, <1>1
    <3> QED
      BY <3>1, <3>2, <1>0 DEF Unbroken
  <2>4. r # <<>> => r[Len(r)].id = next - 1 /\ ~r[1].reset
    <3> SUFFICES ASSUME r # <<>> PROVE r[Len(r)].id = next - 1 /\ ~r[1].reset
      OBVIOUS
    <3>1. 1 \in 1..Len(r) /\ Len(r) \in 1..Len(r)
      BY <1>0, <1>1
    <3> QED
      BY <3>1, <1>0, <1>1
  <2>5. r = <<>> => last = next - 1
    BY <1>0, <1>1, <1>4
  <2> QED
    BY <1>0, <1>1, <2>1, <2>2, <2>3, <2>4, <2>5
<1>5. \/ last >= next
      \/ last < next /\ last + 1 < Oldest
      \/ last < next /\ last + 1 >= Oldest
  BY <1>1
<1> QED
  BY <1>2, <1>3, <1>4, <1>5

\* A channel with one more event.
LEMMA AppendShape ==
  ASSUME TypeOK, NEW q \in Seq(Messages), Unbroken(q, next),
         q # <<>> => q[Len(q)].id = next - 1
  PROVE  LET a == Append(q, Event(next))
         IN /\ a \in Seq(Messages) /\ Len(a) = Len(q) + 1
            /\ Unbroken(a, next + 1) /\ a[Len(a)].id = next
            /\ q # <<>> => a[1] = q[1]
            /\ (\A i \in 1..Len(q) : ~q[i].reset) => \A i \in 1..Len(a) : ~a[i].reset
<1> DEFINE a == Append(q, Event(next))
<1>1. next \in Nat \ {0} /\ Len(q) \in Nat /\ Event(next) \in Messages
  BY DEF TypeOK, Event, Messages
<1>2. /\ a \in Seq(Messages) /\ Len(a) = Len(q) + 1
      /\ \A i \in 1..Len(q) : a[i] = q[i]
      /\ a[Len(q) + 1] = Event(next)
  BY <1>1
<1>3. Event(next).id = next /\ ~Event(next).reset
  BY DEF Event
<1> HIDE DEF a
<1>4. \A i \in 2..Len(a) : ~a[i].reset
  BY <1>1, <1>2, <1>3 DEF Unbroken
<1>5. ASSUME NEW i \in 1..Len(a) PROVE a[i].id < next + 1 /\ (a[i].reset \/ a[i].id > 0)
  <2>1. CASE i = Len(q) + 1
    BY <2>1, <1>1, <1>2, <1>3
  <2>2. CASE i # Len(q) + 1
    <3>1. i \in 1..Len(q) /\ a[i] = q[i] /\ q[i] \in Messages
      BY <2>2, <1>1, <1>2
    <3>2. q[i].id < next /\ (q[i].reset \/ q[i].id > 0) /\ q[i].id \in Nat
      BY <3>1 DEF Unbroken, Messages
    <3> QED
      BY <3>1, <3>2, <1>1
  <2> QED
    BY <2>1, <2>2
<1>6. ASSUME NEW i \in 1..(Len(a) - 1) PROVE a[i].reset \/ a[i + 1].id = a[i].id + 1
  <2>1. i \in 1..Len(q) /\ a[i] = q[i]
    BY <1>1, <1>2
  <2>2. CASE i = Len(q)
    BY <2>1, <2>2, <1>1, <1>2, <1>3
  <2>3. CASE i # Len(q)
    <3>1. i \in 1..(Len(q) - 1) /\ a[i + 1] = q[i + 1]
      BY <2>1, <2>3, <1>1, <1>2
    <3> QED
      BY <2>1, <3>1 DEF Unbroken
  <2> QED
    BY <2>2, <2>3
<1>7. Unbroken(a, next + 1)
  BY <1>4, <1>5, <1>6 DEF Unbroken
<1>8. ASSUME \A i \in 1..Len(q) : ~q[i].reset, NEW i \in 1..Len(a) PROVE ~a[i].reset
  <2>1. i \in 1..Len(q) \/ i = Len(q) + 1
    BY <1>1, <1>2
  <2> QED
    BY <2>1, <1>2, <1>3, <1>8
<1> QED
  BY <1>1, <1>2, <1>3, <1>7, <1>8 DEF a

\* A channel after its head has gone.
LEMMA TailShape ==
  ASSUME NEW q \in Seq(Messages), q # <<>>, Unbroken(q, next)
  PROVE  LET t == Tail(q)
         IN /\ t \in Seq(Messages) /\ Len(t) = Len(q) - 1 /\ Unbroken(t, next)
            /\ q[1] \in Messages /\ q[1].id < next /\ (q[1].reset \/ q[1].id > 0)
            /\ t # <<>> => /\ ~t[1].reset /\ t[Len(t)] = q[Len(q)]
                           /\ q[1].reset \/ t[1].id = q[1].id + 1
                           /\ t[1].id < next
<1> DEFINE t == Tail(q)
<1>1. /\ t \in Seq(Messages) /\ Len(q) \in Nat \ {0} /\ Len(t) = Len(q) - 1
      /\ \A i \in 1..Len(t) : t[i] = q[i + 1] /\ i + 1 \in 2..Len(q)
  OBVIOUS
<1>2. 1 \in 1..Len(q) /\ q[1] \in Messages
  BY <1>1
<1> HIDE DEF t
<1>3. \A i \in 1..Len(t) : ~t[i].reset /\ t[i].id < next /\ (t[i].reset \/ t[i].id > 0)
  BY <1>1 DEF Unbroken
<1>4. ASSUME NEW i \in 1..(Len(t) - 1) PROVE t[i + 1].id = t[i].id + 1
  <2>1. /\ i \in 1..Len(t) /\ i + 1 \in 1..Len(t)
        /\ i + 1 \in 1..(Len(q) - 1) /\ i + 1 \in 2..Len(q)
    BY <1>1
  <2>2. t[i] = q[i + 1] /\ t[i + 1] = q[(i + 1) + 1] /\ ~q[i + 1].reset
    BY <2>1, <1>1 DEF Unbroken
  <2> QED
    BY <2>1, <2>2 DEF Unbroken
<1>5. Unbroken(t, next)
  BY <1>1, <1>3, <1>4 DEF Unbroken
<1>6. t # <<>> => /\ ~t[1].reset /\ t[Len(t)] = q[Len(q)]
                  /\ q[1].reset \/ t[1].id = q[1].id + 1
                  /\ t[1].id < next
  <2> SUFFICES ASSUME t # <<>>
               PROVE  /\ ~t[1].reset /\ t[Len(t)] = q[Len(q)]
                      /\ q[1].reset \/ t[1].id = q[1].id + 1
                      /\ t[1].id < next
    OBVIOUS
  <2>1. 1 \in 1..Len(t) /\ Len(t) \in 1..Len(t) /\ 1 \in 1..(Len(q) - 1)
    BY <1>1
  <2>2. t[1] = q[1 + 1] /\ t[Len(t)] = q[Len(t) + 1]
    BY <2>1, <1>1
  <2>3. q[1].reset \/ q[1 + 1].id = q[1].id + 1
    BY <2>1 DEF Unbroken
  <2> QED
    BY <2>1, <2>2, <2>3, <1>1, <1>3
<1> QED
  BY <1>1, <1>2, <1>5, <1>6 DEF t, Unbroken

-----------------------------------------------------------------------------
(* Every step keeps the invariant.                                         *)

LEMMA BusInit == Init => BusInv
BY BusConstants
   DEF Init, BusInv, TypeOK, ChannelFits, Capacity, RingInv, ClientInv, ChannelInv,
       CursorInv, HeadInv, Unbroken, Links, NoId

LEMMA PublishKeeps == BusInv /\ Publish => BusInv'
<1> SUFFICES ASSUME BusInv, Publish PROVE BusInv'
  OBVIOUS
<1>0. TypeOK /\ RingInv /\ next' = next + 1 /\ next \in Nat \ {0}
  BY DEF BusInv, Publish, TypeOK
<1>1. ring' \in Seq(Nat) /\ RingInv'
  <2> DEFINE r == Keep(ring)
  <2>1. /\ r \in Seq(Nat) /\ Len(r) \in Nat /\ Len(r) < RingSize /\ Len(r) <= next - 1
        /\ \A i \in 1..Len(r) : r[i] = next - 1 - Len(r) + i
    <3>1. CASE Len(ring) # RingSize
      <4>1. r = ring /\ Len(ring) \in Nat
        BY <1>0, <3>1 DEF Keep, TypeOK
      <4> QED
        BY <1>0, <3>1, <4>1, BusConstants DEF RingInv, TypeOK
    <3>2. CASE Len(ring) = RingSize
      <4>1. /\ r \in Seq(Nat) /\ Len(r) = Len(ring) - 1 /\ Len(ring) \in Nat \ {0}
            /\ \A i \in 1..Len(r) : r[i] = ring[i + 1]
        BY <1>0, <3>2, BusConstants DEF Keep, TypeOK
      <4>2. ASSUME NEW i \in 1..Len(r) PROVE r[i] = next - 1 - Len(r) + i
        <5>1. i \in Nat /\ i + 1 \in 1..Len(ring)
          BY <4>1
        <5>2. ring[i + 1] = next - 1 - Len(ring) + (i + 1)
          BY <1>0, <5>1 DEF RingInv
        <5> QED
          BY <1>0, <4>1, <5>1, <5>2
      <4> QED
        BY <1>0, <3>2, <4>1, <4>2 DEF RingInv
    <3> QED
      BY <3>1, <3>2
  <2> HIDE DEF r
  <2>2. /\ ring' \in Seq(Nat) /\ Len(ring') = Len(r) + 1 /\ ring'[Len(r) + 1] = next
        /\ \A i \in 1..Len(r) : ring'[i] = r[i]
    BY <1>0, <2>1 DEF Publish, r
  <2>3. ASSUME NEW i \in 1..Len(ring') PROVE ring'[i] = next' - 1 - Len(ring') + i
    <3>1. CASE i = Len(r) + 1
      BY <3>1, <1>0, <2>1, <2>2
    <3>2. CASE i # Len(r) + 1
      <4>1. i \in 1..Len(r) /\ i \in Nat
        BY <3>2, <2>1, <2>2
      <4>2. ring'[i] = next - 1 - Len(r) + i
        BY <4>1, <2>1, <2>2
      <4> QED
        BY <4>1, <4>2, <1>0, <2>1, <2>2
    <3> QED
      BY <3>1, <3>2
  <2> QED
    BY <1>0, <2>1, <2>2, <2>3, BusConstants DEF RingInv
<1>2. ASSUME NEW c \in Clients
      PROVE  ch'[c] \in Seq(Messages) /\ Len(ch'[c]) <= Capacity /\ ClientInv(c)'
  <2> DEFINE q == ch[c]
  <2>0. /\ q \in Seq(Messages) /\ Len(q) \in Nat /\ Len(q) <= Capacity /\ Capacity \in Nat
        /\ ClientInv(c)
        /\ base \in Nat /\ since[c] \in Nat /\ cursor[c] \in Nat \cup {NoId}
    BY BusConstants DEF BusInv, TypeOK, ChannelFits, Capacity
  <2>1. CASE c \in subs /\ HasSpace(c)
    <3>1. ch'[c] = Append(q, Event(next)) /\ c \in subs'
      BY <2>1 DEF Publish
    <3>2. /\ ch'[c] \in Seq(Messages) /\ Len(ch'[c]) = Len(q) + 1
          /\ Unbroken(ch'[c], next') /\ ch'[c][Len(ch'[c])].id = next
          /\ q # <<>> => ch'[c][1] = q[1]
          /\ (\A i \in 1..Len(q) : ~q[i].reset) => \A i \in 1..Len(ch'[c]) : ~ch'[c][i].reset
      BY <1>0, <2>0, <2>1, <3>1, AppendShape DEF ClientInv, ChannelInv
    <3>3. Len(ch'[c]) <= Capacity
      BY <2>0, <2>1, <3>2 DEF HasSpace
    <3>4. ch'[c] # <<>>
      BY <2>0, <3>2
    <3>5. ChannelInv(c)'
      BY <1>0, <2>0, <2>1, <3>1, <3>2, <3>4 DEF ClientInv, ChannelInv, Publish
    <3>6. CursorInv(c)'
      BY <1>0, <2>0 DEF ClientInv, CursorInv, Publish, NoId
    <3>7. HeadInv(c)'
      <4>1. Whole(c)' <=> Whole(c)
        BY DEF Whole, Publish
      <4>2. CASE q # <<>>
        BY <2>0, <3>2, <4>1, <4>2 DEF ClientInv, HeadInv, Publish
      <4>3. CASE q = <<>>
        <5>1. ch'[c][1] = Event(next)
          BY <3>1, <4>3
        <5>2. link[c] = "open" => cursor[c] = next - 1
          BY <2>0, <2>1, <4>3 DEF ClientInv, ChannelInv
        <5> QED
          BY <1>0, <2>0, <4>1, <5>1, <5>2 DEF HeadInv, Whole, Event, Publish
      <4> QED
        BY <4>2, <4>3
    <3> QED
      BY <3>2, <3>3, <3>5, <3>6, <3>7 DEF ClientInv
  <2>2. CASE ~(c \in subs /\ HasSpace(c))
    <3>1. ch'[c] = q /\ c \notin subs' /\ UNCHANGED <<link, cursor, since, knows, base>>
      BY <2>2 DEF Publish
    <3>2. Unbroken(ch'[c], next')
      <4>1. \A i \in 1..Len(q) : q[i].id < next' /\ (q[i].reset \/ q[i].id > 0)
        <5> SUFFICES ASSUME NEW i \in 1..Len(q)
                     PROVE  q[i].id < next' /\ (q[i].reset \/ q[i].id > 0)
          OBVIOUS
        <5>1. q[i] \in Messages /\ q[i].id < next /\ (q[i].reset \/ q[i].id > 0)
          BY <2>0 DEF ClientInv, ChannelInv, Unbroken
        <5> QED
          BY <1>0, <5>1 DEF Messages
      <4>2. Unbroken(q, next)
        BY <2>0 DEF ClientInv, ChannelInv
      <4> QED
        BY <3>1, <4>1, <4>2 DEF Unbroken
    <3>3. ChannelInv(c)'
      BY <2>0, <3>1, <3>2 DEF ClientInv, ChannelInv
    <3>4. CursorInv(c)'
      BY <1>0, <2>0, <3>1 DEF ClientInv, CursorInv, NoId
    <3>5. HeadInv(c)'
      BY <2>0, <3>1 DEF ClientInv, HeadInv, Whole
    <3> QED
      BY <2>0, <3>1, <3>3, <3>4, <3>5 DEF ClientInv
  <2> QED
    BY <2>1, <2>2
<1>3. TypeOK'
  <2>1. ch' \in [Clients -> Seq(Messages)]
    BY <1>2 DEF Publish
  <2>2. subs' \subseteq Clients
    BY <1>0 DEF Publish, TypeOK
  <2> QED
    BY <1>0, <1>1, <2>1, <2>2 DEF Publish, TypeOK
<1> QED
  BY <1>1, <1>2, <1>3 DEF BusInv, ChannelFits

\* What a step leaves alone of a client.
Same(d) == /\ ch'[d] = ch[d] /\ link'[d] = link[d] /\ cursor'[d] = cursor[d]
           /\ since'[d] = since[d] /\ knows'[d] = knows[d]
           /\ d \in subs' <=> d \in subs

\* A step of one client and none of the bus: only that client is to be looked at.
LEMMA OneClient ==
  ASSUME BusInv, UNCHANGED server, NEW c \in Clients,
         \A d \in Clients \ {c} : Same(d),
         TypeOK', Len(ch'[c]) <= Capacity, ClientInv(c)'
  PROVE  BusInv'
<1>1. ASSUME NEW d \in Clients, d # c PROVE ClientInv(d)' /\ Len(ch'[d]) <= Capacity
  BY <1>1 DEF Same, BusInv, ChannelFits, ClientInv, ChannelInv, CursorInv, HeadInv,
              Whole, server
<1>2. RingInv'
  BY DEF BusInv, RingInv, server
<1> QED
  BY <1>1, <1>2 DEF BusInv, ChannelFits

LEMMA EverythingNat == TypeOK => Everything \subseteq Nat
  BY DEF TypeOK, Everything, Published

LEMMA SubscribeTypes ==
  ASSUME TypeOK, NEW c \in Clients, Subscribe(c), ch' \in [Clients -> Seq(Messages)]
  PROVE  TypeOK'
<1>1. link' \in [Clients -> Links] /\ subs' \subseteq Clients
  BY DEF Subscribe, TypeOK, Links
<1>2. knows' \in [Clients -> SUBSET Nat]
  BY EverythingNat DEF Subscribe, TypeOK
<1>3. UNCHANGED <<next, ring, base, cursor, since, trouble>>
  BY DEF Subscribe, server
<1> QED
  BY <1>1, <1>2, <1>3 DEF TypeOK

LEMMA SubscribeKeeps ==
  ASSUME BusInv, NEW c \in Clients, Subscribe(c)
  PROVE  BusInv'
<1>0. /\ TypeOK /\ RingInv /\ ClientInv(c) /\ UNCHANGED <<server, cursor, since>>
      /\ \A d \in Clients \ {c} : Same(d)
      /\ c \in subs' /\ base \in Nat /\ next \in Nat \ {0}
  BY DEF BusInv, Subscribe, Same, TypeOK, server
<1>1. CASE cursor[c] \in {NoId, 0}
  <2>1. ch'[c] = <<>> /\ link'[c] = "fresh"
    BY <1>0, <1>1 DEF Subscribe, TypeOK
  <2>2. TypeOK'
    <3>0. ch' = [ch EXCEPT ![c] = <<>>]
      BY <1>1 DEF Subscribe
    <3>1. ch' \in [Clients -> Seq(Messages)]
      BY <1>0, <3>0 DEF TypeOK
    <3> QED
      BY <1>0, <3>1, SubscribeTypes
  <2>3. ClientInv(c)'
    BY <1>0, <1>1, <2>1 DEF ClientInv, ChannelInv, CursorInv, HeadInv, Unbroken, NoId, server
  <2>4. Len(ch'[c]) <= Capacity
    BY <2>1, BusConstants DEF Capacity
  <2> QED
    BY <1>0, <2>2, <2>3, <2>4, OneClient
<1>2. CASE cursor[c] \notin {NoId, 0}
  <2>0. cursor[c] \in Nat \ {0} /\ link'[c] = "open" /\ link[c] # "closed"
    BY <1>0, <1>2 DEF Subscribe, TypeOK, ClientInv, CursorInv
  <2>1. PICK k \in 0..Len(ring) :
          IsEnd(k, cursor[c]) /\ ch'[c] = Resets(cursor[c]) \o Replay(k)
    BY <1>0, <1>2 DEF Subscribe, IsEnd, Replay, TypeOK
  <2>2. /\ ch'[c] \in Seq(Messages) /\ Len(ch'[c]) <= Capacity /\ Unbroken(ch'[c], next)
        /\ ch'[c] # <<>> => ch'[c][Len(ch'[c])].id = next - 1
        /\ ch'[c] = <<>> => cursor[c] = next - 1
        /\ ch'[c] # <<>> /\ ~ch'[c][1].reset => ch'[c][1].id = cursor[c] + 1
        /\ ch'[c] # <<>> /\ ch'[c][1].reset /\ cursor[c] < next => ch'[c][1].id > 0
    BY <1>0, <2>0, <2>1, SubscribeShape
  <2>3. TypeOK'
    <3>1. ch' \in [Clients -> Seq(Messages)]
      <4>1. \A d \in Clients : ch'[d] \in Seq(Messages)
        BY <1>0, <2>2 DEF Same, TypeOK
      <4>2. ch' = [d \in Clients |-> ch'[d]]
        BY <1>0, <1>2 DEF Subscribe, TypeOK
      <4> QED
        BY <4>1, <4>2
    <3> QED
      BY <1>0, <3>1, SubscribeTypes
  <2>4. ChannelInv(c)'
    BY <1>0, <2>0, <2>2 DEF ChannelInv, server
  <2>5. CursorInv(c)'
    BY <1>0, <2>0 DEF ClientInv, CursorInv, server
  <2>6. HeadInv(c)'
    <3>1. knows' = knows
      BY <2>0 DEF Subscribe
    <3>2. Whole(c)' <=> Whole(c)
      BY <1>0, <3>1 DEF Whole, server
    <3>3. Whole(c) => 1..(base + (cursor[c] + 1) - 1) \subseteq knows[c]
      BY <1>0, <2>0 DEF Whole
    <3> QED
      BY <1>0, <2>0, <2>2, <3>1, <3>2, <3>3 DEF HeadInv, ClientInv, CursorInv, server
  <2> QED
    BY <1>0, <2>2, <2>3, <2>4, <2>5, <2>6, OneClient DEF ClientInv
<1> QED
  BY <1>1, <1>2

LEMMA TellNowKeeps ==
  ASSUME BusInv, NEW c \in Clients, TellNow(c)
  PROVE  BusInv'
<1>0. /\ TypeOK /\ ClientInv(c) /\ UNCHANGED <<server, subs, ch, knows>>
      /\ \A d \in Clients \ {c} : Same(d)
      /\ link[c] = "fresh" /\ link'[c] = "open" /\ cursor'[c] = next - 1 /\ since'[c] = base
      /\ base \in Nat /\ next \in Nat \ {0} /\ Len(ch[c]) <= Capacity
  BY DEF BusInv, ChannelFits, TellNow, Same, TypeOK, server
<1>1. TypeOK'
  BY <1>0 DEF TellNow, TypeOK, Links, server
<1>2. ChannelInv(c)' /\ CursorInv(c)'
  BY <1>0 DEF ClientInv, ChannelInv, CursorInv, server
<1>3. HeadInv(c)'
  <2> SUFFICES ASSUME ch[c] # <<>>
               PROVE  /\ ~ch[c][1].reset
                      /\ Whole(c)' => 1..(base + ch[c][1].id - 1) \subseteq knows[c]
    BY <1>0 DEF HeadInv, server
  <2>1. 1 \in 1..Len(ch[c]) /\ ch[c][1] \in Messages
    BY <1>0 DEF TypeOK
  <2>2. ~ch[c][1].reset /\ ch[c][1].id < next /\ ch[c][1].id \in Nat
    BY <1>0, <2>1 DEF ClientInv, ChannelInv, Unbroken, Messages
  <2>3. Whole(c)' => 1..(base + (next - 1)) \subseteq knows[c]
    BY <1>0 DEF Whole, server
  <2> QED
    BY <1>0, <2>2, <2>3
<1> QED
  BY <1>0, <1>1, <1>2, <1>3, OneClient DEF ClientInv

LEMMA DeliverKeeps ==
  ASSUME BusInv, NEW c \in Clients, Deliver(c)
  PROVE  BusInv' /\ (Whole(c) => Whole(c)')
<1> DEFINE q == ch[c]
           e == ch[c][1]
           t == Tail(ch[c])
<1>0. /\ TypeOK /\ ClientInv(c) /\ UNCHANGED <<server, subs, link>>
      /\ \A d \in Clients \ {c} : Same(d)
      /\ link[c] = "open" /\ ch'[c] = t /\ cursor'[c] = e.id /\ since'[c] = base
      /\ knows'[c] = IF e.reset THEN Everything ELSE knows[c] \cup {base + e.id}
      /\ base \in Nat /\ next \in Nat \ {0} /\ Len(q) <= Capacity
      /\ q # <<>> /\ q \in Seq(Messages)
  BY DEF BusInv, ChannelFits, Deliver, Same, TypeOK, server
<1>1. Capacity \in Nat
  BY BusConstants DEF Capacity
<1>2. /\ t \in Seq(Messages) /\ Len(t) = Len(q) - 1 /\ Unbroken(t, next)
      /\ e \in Messages /\ e.id < next /\ (e.reset \/ e.id > 0)
      /\ t # <<>> => /\ ~t[1].reset /\ t[Len(t)] = q[Len(q)]
                     /\ e.reset \/ t[1].id = e.id + 1
                     /\ t[1].id < next
  BY <1>0, TailShape DEF ClientInv, ChannelInv
<1>3. e.id \in Nat /\ Len(q) \in Nat \ {0}
  BY <1>0, <1>2 DEF Messages
<1> HIDE DEF q, e, t
<1>4. TypeOK'
  <2>1. ch' \in [Clients -> Seq(Messages)]
    BY <1>0, <1>2 DEF Deliver, TypeOK, t
  <2>2. cursor' \in [Clients -> Nat \cup {NoId}]
    BY <1>0, <1>3 DEF Deliver, TypeOK, e
  <2>3. knows' \in [Clients -> SUBSET Nat]
    <3>1. Everything \subseteq Nat /\ base + e.id \in Nat
      BY <1>0, <1>3 DEF Everything, Published
    <3> QED
      BY <1>0, <3>1 DEF Deliver, TypeOK, e
  <2> QED
    BY <1>0, <2>1, <2>2, <2>3 DEF Deliver, TypeOK, server
<1>5. ChannelInv(c)'
  <2>1. t = <<>> /\ c \in subs => e.id = next - 1
    <3>1. t = <<>> => Len(q) = 1
      BY <1>2, <1>3
    <3> QED
      BY <1>0, <3>1 DEF ClientInv, ChannelInv, q, e
  <2>2. t # <<>> /\ c \in subs => t[Len(t)].id = next - 1
    BY <1>0, <1>2 DEF ClientInv, ChannelInv, q
  <2> QED
    BY <1>0, <1>2, <2>1, <2>2 DEF ClientInv, ChannelInv, server
<1>6. CursorInv(c)'
  BY <1>0, <1>2 DEF ClientInv, CursorInv, server
<1>7. HeadInv(c)'
  <2> SUFFICES ASSUME t # <<>>, Whole(c)'
               PROVE  1..(base + t[1].id - 1) \subseteq knows'[c]
    BY <1>0, <1>2 DEF HeadInv, server
  <2>0. t[1] \in Messages /\ t[1].id \in Nat
    <3>1. Len(t) \in Nat /\ Len(t) # 0
      BY <1>2
    <3>2. t[1] \in Messages
      BY <1>2, <3>1
    <3> QED
      BY <3>2 DEF Messages
  <2>1. CASE e.reset
    BY <1>0, <1>2, <2>0, <2>1 DEF Everything, Published
  <2>2. CASE ~e.reset
    <3>1. t[1].id = e.id + 1
      BY <1>2, <2>2
    <3>2. 1..(base + e.id) \subseteq knows'[c]
      BY <1>0 DEF Whole, server
    <3> QED
      BY <1>0, <1>3, <3>1, <3>2
  <2> QED
    BY <2>1, <2>2
<1>8. Whole(c) => Whole(c)'
  <2> SUFFICES ASSUME Whole(c)
               PROVE  e.id > 0 /\ 1..(base + e.id) \subseteq knows'[c]
    BY <1>0 DEF Whole, server
  <2>1. CASE e.reset
    <3>1. e.id > 0
      BY <1>0, <2>1 DEF Whole, ClientInv, HeadInv, q, e
    <3> QED
      BY <1>0, <1>2, <1>3, <2>1, <3>1 DEF Everything, Published
  <2>2. CASE ~e.reset
    <3>1. 1..(base + e.id - 1) \subseteq knows[c]
      BY <1>0, <2>2 DEF ClientInv, HeadInv, q, e
    <3> QED
      BY <1>0, <1>2, <1>3, <2>2, <3>1
  <2> QED
    BY <2>1, <2>2
<1>9. Len(ch'[c]) <= Capacity
  BY <1>0, <1>1, <1>2, <1>3
<1> QED
  BY <1>0, <1>4, <1>5, <1>6, <1>7, <1>8, <1>9, OneClient DEF ClientInv

LEMMA StreamEndKeeps ==
  ASSUME BusInv, NEW c \in Clients, Return(c) \/ Disconnect(c) \/ Refuse(c)
  PROVE  BusInv'
<1>0. /\ TypeOK /\ ClientInv(c) /\ UNCHANGED server
      /\ \A d \in Clients \ {c} : Same(d)
      /\ ch'[c] \in {ch[c], <<>>} /\ link'[c] \in {"retrying", "refused"}
      /\ c \notin subs' /\ since' = since /\ cursor'[c] \in {cursor[c], NoId}
      /\ base \in Nat /\ next \in Nat \ {0} /\ Len(ch[c]) <= Capacity
  BY DEF BusInv, ChannelFits, ClientInv, ChannelInv, Return, Disconnect, Refuse, Same,
         TypeOK, server
<1>1. TypeOK'
  <2>1. CASE Return(c)
    BY <1>0, <2>1 DEF Return, TypeOK, Links, server
  <2>2. CASE Disconnect(c)
    <3>1. ch' \in [Clients -> Seq(Messages)]
      BY <1>0, <2>2 DEF Disconnect, TypeOK
    <3> QED
      BY <1>0, <2>2, <3>1 DEF Disconnect, Troubled, TypeOK, Links, server
  <2>3. CASE Refuse(c)
    BY <1>0, <2>3 DEF Refuse, Troubled, TypeOK, Links, NoId, server
  <2> QED
    BY <2>1, <2>2, <2>3
<1>2. ClientInv(c)'
  BY <1>0 DEF ClientInv, ChannelInv, CursorInv, HeadInv, Unbroken, NoId, server
<1>3. Len(ch'[c]) <= Capacity
  BY <1>0, BusConstants DEF Capacity
<1> QED
  BY <1>0, <1>1, <1>2, <1>3, OneClient

LEMMA RestartKeeps == BusInv /\ Restart => BusInv'
<1> SUFFICES ASSUME BusInv, Restart PROVE BusInv'
  OBVIOUS
<1>0. TypeOK /\ next \in Nat \ {0} /\ base \in Nat /\ base' = base + next - 1 /\ next' = 1
  BY DEF BusInv, Restart, Published, TypeOK
<1>1. TypeOK'
  BY <1>0 DEF Restart, Troubled, TypeOK, Links
<1>2. RingInv' /\ ChannelFits'
  BY BusConstants DEF Restart, RingInv, ChannelFits, Capacity
<1>3. ASSUME NEW c \in Clients PROVE ClientInv(c)'
  <2>1. /\ ch'[c] = <<>> /\ c \notin subs' /\ UNCHANGED <<cursor, since>>
        /\ link'[c] \notin {"fresh", "open"} /\ (link'[c] = "closed" => link[c] = "closed")
    BY <1>0 DEF Restart, TypeOK
  <2>2. /\ link[c] = "closed" => cursor[c] = NoId
        /\ since[c] <= base /\ (since[c] = base => cursor[c] < next)
        /\ since[c] \in Nat /\ cursor[c] \in Nat \cup {NoId}
    BY <1>0 DEF BusInv, ClientInv, CursorInv, TypeOK
  <2>3. CursorInv(c)'
    BY <1>0, <2>1, <2>2 DEF CursorInv, NoId
  <2> QED
    BY <2>1, <2>3 DEF ClientInv, ChannelInv, HeadInv, Unbroken
<1> QED
  BY <1>1, <1>2, <1>3 DEF BusInv

LEMMA BusStep == BusInv /\ [Next]_vars => BusInv'
<1> SUFFICES ASSUME BusInv, [Next]_vars PROVE BusInv'
  OBVIOUS
<1>1. CASE UNCHANGED vars
  BY <1>1 DEF vars, BusInv, TypeOK, ChannelFits, RingInv, ClientInv, ChannelInv, CursorInv,
              HeadInv, Whole
<1>2. CASE Publish \/ Restart
  BY <1>2, PublishKeeps, RestartKeeps
<1>3. ASSUME NEW c \in Clients, \/ Subscribe(c) \/ TellNow(c) \/ Deliver(c)
                                \/ Return(c) \/ Disconnect(c) \/ Refuse(c)
      PROVE  BusInv'
  BY <1>3, SubscribeKeeps, TellNowKeeps, DeliverKeeps, StreamEndKeeps
<1> QED
  BY <1>1, <1>2, <1>3 DEF Next

LEMMA BusInvariant == Spec => []BusInv
BY BusInit, BusStep, PTL DEF Spec

-----------------------------------------------------------------------------
(* Theorems.                                                               *)

\* Every variable has its type, for any ring, buffer and number of clients.
THEOREM BusTypeCorrect == Spec => []TypeOK
<1>1. BusInv => TypeOK
  BY DEF BusInv
<1> QED
  BY <1>1, BusInvariant, PTL

\* Subscribe's Reset and replay always fit the channel they are put into.
THEOREM ChannelFitsHolds == Spec => []ChannelFits
<1>1. BusInv => ChannelFits
  BY DEF BusInv
<1> QED
  BY <1>1, BusInvariant, PTL

\* A subscribed client that has drained its channel stands at the newest event.
THEOREM LiveCursorHolds == Spec => []LiveCursor
<1>1. BusInv => LiveCursor
  BY DEF BusInv, LiveCursor, TypeOK, ClientInv, ChannelInv
<1> QED
  BY <1>1, BusInvariant, PTL

\* No delivery leaves a gap behind at a client that had none.
THEOREM NeverSkipsHolds == Spec => NeverSkips
<1> DEFINE StaysWhole ==
             \A c \in Clients : Whole(c) /\ base' = base /\ cursor'[c] # NoId => Whole(c)'
<1>1. BusInv /\ [Next]_vars => [StaysWhole]_vars
  <2> SUFFICES ASSUME BusInv, Next, NEW c \in Clients, Whole(c), base' = base,
                      cursor'[c] # NoId
               PROVE  Whole(c)'
    OBVIOUS
  <2>0. /\ TypeOK /\ ClientInv(c) /\ cursor[c] > 0 /\ since[c] = base
        /\ 1..(base + cursor[c]) \subseteq knows[c]
        /\ base \in Nat /\ next \in Nat \ {0} /\ cursor[c] \in Nat
    BY DEF BusInv, Whole, TypeOK, NoId
  <2>1. link[c] \notin {"closed", "fresh"}
    BY <2>0 DEF ClientInv, CursorInv, NoId
  <2>2. CASE Publish
    BY <2>2 DEF Publish, Whole
  <2>3. CASE Restart
    BY <2>0, <2>3 DEF Restart, Published, ClientInv, CursorInv
  <2>4. CASE Deliver(c)
    BY <2>4, DeliverKeeps
  <2>5. CASE Subscribe(c) \/ TellNow(c) \/ Return(c) \/ Disconnect(c) \/ Refuse(c)
    <3>1. Subscribe(c) \/ Return(c) \/ Disconnect(c)
      BY <2>0, <2>1, <2>5 DEF TellNow, Refuse, TypeOK
    <3> QED
      BY <2>1, <3>1 DEF Subscribe, Return, Disconnect, Whole
  <2>6. ASSUME NEW d \in Clients \ {c},
               \/ Subscribe(d) \/ TellNow(d) \/ Deliver(d)
               \/ Return(d) \/ Disconnect(d) \/ Refuse(d)
        PROVE  Whole(c)'
    <3>1. cursor'[c] = cursor[c] /\ since'[c] = since[c] /\ knows'[c] = knows[c]
      BY <2>0, <2>6 DEF Subscribe, TellNow, Deliver, Return, Disconnect, Refuse, TypeOK
    <3> QED
      BY <3>1 DEF Whole
  <2> QED
    BY <2>2, <2>3, <2>4, <2>5, <2>6 DEF Next
<1>2. Spec => [][StaysWhole]_vars
  BY <1>1, BusInvariant, PTL DEF Spec
<1> QED
  BY <1>2 DEF NeverSkips

=============================================================================
