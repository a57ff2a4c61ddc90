-------------------------- MODULE EventStreamProofs --------------------------
(* What EventStream keeps for any tabs, domains, rows and sizes: its types,   *)
(* and, where transactions commit in the order of their ids, that no tab's    *)
(* cursor passes a change of the leading domain which the tab does not show.  *)
(* Publishing a batch and replaying a history are folds; OrderedFolds says    *)
(* what they keep.                                                            *)
EXTENDS EventStream, FiniteSetTheorems, SequenceTheorems, TLAPS

Publishing == INSTANCE OrderedFolds WITH op <- PublishFrame
Queueing == INSTANCE OrderedFolds WITH op <- QueueFrame

Streaming == {c \in Clients : tab[c] = "streaming"}

-----------------------------------------------------------------------------
(* The invariant.                                                            *)

\* The frames of a sequence are no newer than k.
UpTo(q, k) == \A n \in 1 .. Len(q) : q[n].cursor <= k

\* A hub has not passed what its history and its queues hold.
Behind(h) ==
  /\ UpTo(h.history, h.cursor)
  /\ \A c \in DOMAIN h.queue : UpTo(h.queue[c], h.cursor)

\* A history is in ascending order, above its floor, and has every row between its
\* floor and the cursor.
Remembers(h, rows) ==
  /\ \A n \in 1 .. Len(h.history) : h.floor < h.history[n].cursor
  /\ \A m, n \in 1 .. Len(h.history) : m < n => h.history[m].cursor < h.history[n].cursor
  /\ \A i \in rows : h.floor < i /\ i <= h.cursor => \E n \in 1 .. Len(h.history) : h.history[n] = Frame[i]

\* A queue tells of row i of the leading domain: it has a frame of that domain, not
\* older than i, which the frames before it will not make the tab ignore.
Tells(q, i) ==
  \E n \in 1 .. Len(q) :
    /\ q[n].domain = Domains[1]
    /\ i <= q[n].cursor
    /\ \A m \in 1 .. Len(q) : m < n => q[m].cursor < i

\* No row still to be committed has a cursor up to k.
Settled(k) == k <= last /\ \A j \in open : k < j

Committed ==
  /\ \A j \in open : j <= last
  /\ \A i \in outbox \cup {hub.cursor} : Settled(i)
  /\ \A c \in Clients : Settled(at[c])

\* An outbox has rows, so a tab that has recovered has a cursor.
Begun == outbox # {} /\ \A c \in Clients : tab[c] # "away" => at[c] > 0

\* rows follow the cursor k in the outbox without a gap.
Follow(rows, k) ==
  \A i \in rows : k < i /\ \A j \in outbox : k < j /\ j <= i => j \in rows

\* What a tab does not show of the leading domain is still ahead of the hub, or in
\* the tab's queue.
Owed ==
  \A c \in Streaming : \A i \in stale[c] :
    Leading(i) => i > hub.cursor \/ Tells(hub.queue[c], i)

TypeInv ==
  /\ TypeOK
  /\ Behind(hub)
  /\ fetched # {} => Streaming # {}

Delivery ==
  /\ Committed
  /\ Begun
  /\ Follow(fetched, hub.cursor)
  /\ Remembers(hub, outbox)
  /\ Owed
  /\ LeadingDomainMissesNothing

-----------------------------------------------------------------------------
(* Frames and queues.                                                        *)

\* The constants, in the form the lemmas use them.
LEMMA Sizes ==
  /\ MaxRows \in Nat
  /\ BatchSize \in Nat /\ BatchSize >= 1
  /\ HistorySize \in Nat /\ HistorySize >= 1
  /\ QueueSize \in Nat /\ QueueSize >= 1
  /\ Len(Domains) \in Nat /\ Len(Domains) <= QueueSize
  /\ DOMAIN Domains = 1 .. Len(Domains)
  /\ Range(Domains) = {Domains[n] : n \in 1 .. Len(Domains)}
  <1>1. Domains \in Seq(Range(Domains))
    BY RowsAssumption
  <1>2. Len(Domains) \in Nat /\ DOMAIN Domains = 1 .. Len(Domains)
    BY <1>1, LenProperties
  <1>3. Range(Domains) = {Domains[n] : n \in 1 .. Len(Domains)}
    BY <1>2 DEF Range
  <1> QED
    BY <1>2, <1>3, RowsAssumption, SizesAssumption

\* Where there is a row there is a domain.
LEMMA SomeDomain ==
  ASSUME NEW i \in Rows
  PROVE  Len(Domains) >= 1
  <1>1. DomainOf[i] \in Range(Domains)
    BY RowsAssumption
  <1> QED
    BY <1>1, Sizes

\* A row's frame has its id as its cursor.
LEMMA FrameOfRow ==
  ASSUME NEW i \in Rows
  PROVE  Frame[i] \in Frames /\ Frame[i].cursor = i /\ Frame[i].domain = DomainOf[i]
  BY RowsAssumption DEF Frame, Frames

\* A reset has a frame for each domain, all of one cursor, the leading one first.
LEMMA ResetFrames ==
  ASSUME NEW k \in Rows
  PROVE  /\ Resets(k) \in Seq(Frames)
         /\ Len(Resets(k)) = Len(Domains)
         /\ \A n \in 1 .. Len(Domains) : Resets(k)[n] = [cursor |-> k, domain |-> Domains[n]]
  <1>1. \A n \in 1 .. Len(Domains) : [cursor |-> k, domain |-> Domains[n]] \in Frames
    BY Sizes DEF Frames
  <1>2. Resets(k) \in [1 .. Len(Domains) -> Frames]
    BY <1>1 DEF Resets
  <1>3. \A n \in 1 .. Len(Domains) : Resets(k)[n] = [cursor |-> k, domain |-> Domains[n]]
    BY DEF Resets
  <1> HIDE DEF Resets
  <1> QED
    BY <1>2, <1>3, Sizes

\* What is no newer than j is no newer than a greater k.
LEMMA UpToGrows ==
  ASSUME NEW q \in Seq(Frames), NEW j \in Nat, NEW k \in Nat, j <= k, UpTo(q, j)
  PROVE  UpTo(q, k)
  <1> SUFFICES ASSUME NEW n \in 1 .. Len(q) PROVE q[n].cursor <= k
    BY DEF UpTo
  <1>1. q[n] \in Frames
    BY ElementOfSeq
  <1>2. q[n].cursor \in Nat /\ q[n].cursor <= j
    BY <1>1, Sizes DEF Frames, Rows, UpTo
  <1> QED
    BY <1>2

\* The frames of a reset carry its cursor, so none is past it.
LEMMA ResetsUpTo ==
  ASSUME NEW k \in Rows
  PROVE  UpTo(Resets(k), k)
  <1>1. Len(Resets(k)) = Len(Domains)
    BY ResetFrames
  <1>2. ASSUME NEW n \in 1 .. Len(Domains)
        PROVE  Resets(k)[n].cursor <= k
    <2>1. Resets(k)[n] = [cursor |-> k, domain |-> Domains[n]]
      BY ResetFrames
    <2>2. k \in Nat
      BY Sizes DEF Rows
    <2> QED
      BY <2>1, <2>2
  <1> QED
    BY ONLY <1>1, <1>2 DEF UpTo

\* The cursor of a frame is the id of a row.
LEMMA FrameFields ==
  ASSUME NEW f \in Frames
  PROVE  f.cursor \in Rows /\ f.cursor \in 0 .. MaxRows /\ f.cursor \in Nat /\ f.cursor >= 1
  BY Sizes DEF Frames, Rows

\* The parts of a hub and their bounds, one by one.
LEMMA HubFields ==
  ASSUME NEW S, NEW h \in Hubs(S)
  PROVE  /\ h = [cursor |-> h.cursor, floor |-> h.floor, history |-> h.history, queue |-> h.queue]
         /\ h.cursor \in 0 .. MaxRows /\ h.cursor \in Nat
         /\ h.floor \in 0 .. MaxRows /\ h.floor \in Nat /\ h.floor <= h.cursor
         /\ h.history \in Seq(Frames) /\ Len(h.history) \in Nat /\ Len(h.history) <= HistorySize
         /\ h.queue \in [S -> Seq(Frames)] /\ DOMAIN h.queue = S
         /\ \A c \in S : h.queue[c] \in Seq(Frames) /\ Len(h.queue[c]) \in Nat /\ Len(h.queue[c]) <= QueueSize
  <1>1. /\ h \in [cursor : 0 .. MaxRows, floor : 0 .. MaxRows,
                  history : Seq(Frames), queue : [S -> Seq(Frames)]]
        /\ h.floor <= h.cursor
        /\ Len(h.history) <= HistorySize
        /\ \A c \in S : Len(h.queue[c]) <= QueueSize
    BY DEF Hubs
  <1>2. h.history \in Seq(Frames) /\ h.queue \in [S -> Seq(Frames)]
    BY <1>1
  <1>3. Len(h.history) \in Nat /\ \A c \in S : h.queue[c] \in Seq(Frames) /\ Len(h.queue[c]) \in Nat
    BY <1>2, LenProperties
  <1> QED
    BY <1>1, <1>2, <1>3, Sizes

\* A queue keeps its type and its limit.
LEMMA QueuedFrames ==
  ASSUME NEW q \in Seq(Frames), NEW f \in Frames
  PROVE  QueueFrame(f, q) \in Seq(Frames)
  BY FrameFields, ResetFrames, AppendProperties DEF QueueFrame

\* _queue_frame: a queue stays within its size, for a full one gives way to a reset,
\* which holds one frame per domain.
LEMMA QueueFrameTypes ==
  ASSUME NEW q \in Seq(Frames), Len(q) <= QueueSize, NEW f \in Frames
  PROVE  QueueFrame(f, q) \in Seq(Frames) /\ Len(QueueFrame(f, q)) <= QueueSize
  <1>1. f.cursor \in Rows
    BY DEF Frames
  <1>2. CASE Len(q) >= QueueSize
    BY <1>1, <1>2, ResetFrames, Sizes DEF QueueFrame
  <1>3. CASE ~ Len(q) >= QueueSize
    BY <1>3, AppendProperties, LenProperties, Sizes DEF QueueFrame
  <1> QED
    BY <1>2, <1>3

\* Its frames are no newer than k if the one queued is not.
LEMMA QueueFrameUpTo ==
  ASSUME NEW q \in Seq(Frames), NEW f \in Frames, NEW k \in Nat, f.cursor <= k, UpTo(q, k)
  PROVE  UpTo(QueueFrame(f, q), k)
  <1>1. f.cursor \in Rows /\ f.cursor \in Nat
    BY FrameFields
  <1>2. CASE Len(q) >= QueueSize
    <2>1. Resets(f.cursor) \in Seq(Frames) /\ UpTo(Resets(f.cursor), f.cursor)
      BY <1>1, ResetFrames, ResetsUpTo
    <2>2. UpTo(Resets(f.cursor), k)
      BY <1>1, <2>1, UpToGrows
    <2> QED
      BY <1>2, <2>2 DEF QueueFrame
  <1>3. CASE ~ Len(q) >= QueueSize
    BY <1>1, <1>3, AppendProperties, LenProperties DEF QueueFrame, UpTo
  <1> QED
    BY <1>2, <1>3

\* A reset tells of every row up to its cursor.
LEMMA ResetsTell ==
  ASSUME NEW k \in Rows, NEW i \in Rows, i <= k
  PROVE  Tells(Resets(k), i)
  <1>1. /\ Resets(k)[1] = [cursor |-> k, domain |-> Domains[1]]
        /\ Len(Resets(k)) = Len(Domains) /\ Len(Domains) \in Nat /\ Len(Domains) >= 1
    BY ResetFrames, Sizes, SomeDomain
  <1>2. i \in Nat
    BY Sizes DEF Rows
  <1> QED
    BY <1>1, <1>2 DEF Tells

\* What a queue told of it still tells of when a newer frame is queued, in the
\* place of that frame if need be.
LEMMA QueueFrameTells ==
  ASSUME NEW q \in Seq(Frames), NEW f \in Frames, UpTo(q, f.cursor),
         NEW i \in Rows, Tells(q, i)
  PROVE  Tells(QueueFrame(f, q), i)
  <1>1. f.cursor \in Rows /\ f.cursor \in Nat /\ i \in Nat
    BY Sizes DEF Frames, Rows
  <1>2. PICK n \in 1 .. Len(q) :
          /\ q[n].domain = Domains[1]
          /\ i <= q[n].cursor
          /\ \A m \in 1 .. Len(q) : m < n => q[m].cursor < i
    BY DEF Tells
  <1>3. q[n].cursor \in Nat /\ q[n].cursor <= f.cursor /\ Len(q) \in Nat
    <2>1. Len(q) \in Nat
      BY LenProperties
    <2>2. q[n] \in Frames
      BY ElementOfSeq
    <2>3. q[n].cursor \in Nat
      BY <2>2, Sizes DEF Frames, Rows
    <2> QED
      BY <2>1, <2>3 DEF UpTo
  <1>4. CASE Len(q) >= QueueSize
    <2>1. i <= f.cursor
      BY <1>1, <1>2, <1>3
    <2>2. Tells(Resets(f.cursor), i)
      BY <1>1, <2>1, ResetsTell
    <2> QED
      BY <1>4, <2>2 DEF QueueFrame
  <1>5. CASE ~ Len(q) >= QueueSize
    <2>1. /\ Len(Append(q, f)) = Len(q) + 1
          /\ \A m \in 1 .. Len(q) : Append(q, f)[m] = q[m]
      BY AppendProperties, <1>3
    <2>2. Tells(Append(q, f), i)
      BY <1>2, <1>3, <2>1 DEF Tells
    <2> QED
      BY <1>5, <2>2 DEF QueueFrame
  <1> QED
    BY <1>4, <1>5

\* The frame of a leading row, queued after older ones, tells of the row.
LEMMA QueueFrameTellsItsRow ==
  ASSUME NEW q \in Seq(Frames), NEW i \in Rows, Leading(i),
         \A m \in 1 .. Len(q) : q[m].cursor < i
  PROVE  Tells(QueueFrame(Frame[i], q), i)
  <1>1. Frame[i] \in Frames /\ Frame[i].cursor = i /\ Frame[i].domain = Domains[1]
    BY FrameOfRow DEF Leading
  <1>2. i \in Nat /\ Len(q) \in Nat
    BY LenProperties, Sizes DEF Rows
  <1>3. CASE Len(q) >= QueueSize
    <2>1. Tells(Resets(i), i)
      BY <1>2, ResetsTell
    <2> QED
      BY <1>1, <1>3, <2>1 DEF QueueFrame
  <1>4. CASE ~ Len(q) >= QueueSize
    <2>1. /\ Len(Append(q, Frame[i])) = Len(q) + 1
          /\ Append(q, Frame[i])[Len(q) + 1] = Frame[i]
          /\ \A m \in 1 .. Len(q) : Append(q, Frame[i])[m] = q[m]
      BY AppendProperties, <1>1, <1>2
    <2>2. Tells(Append(q, Frame[i]), i)
      <3> DEFINE r == Append(q, Frame[i])
      <3>1. Len(q) + 1 \in 1 .. Len(r) /\ r[Len(q) + 1] = Frame[i]
        BY <1>2, <2>1
      <3>2. \A m \in 1 .. Len(r) : m < Len(q) + 1 => r[m].cursor < i
        BY <1>2, <2>1
      <3> HIDE DEF r
      <3> QED
        BY <1>1, <1>2, <3>1, <3>2 DEF Tells
    <2> QED
      BY <1>4, <2>2 DEF QueueFrame
  <1> QED
    BY <1>3, <1>4
-----------------------------------------------------------------------------
(* Publishing.                                                               *)

\* What a history keeps when a frame is to be added: all of it, or all but the oldest.
Kept(h) == IF Len(h.history) = HistorySize THEN Tail(h.history) ELSE h.history

\* A deque at its maxlen loses its oldest frame only: what is kept is a suffix.
LEMMA KeptHistory ==
  ASSUME NEW S, NEW h \in Hubs(S)
  PROVE  /\ Kept(h) \in Seq(Frames)
         /\ Len(Kept(h)) \in Nat /\ Len(Kept(h)) < HistorySize
         /\ LET d == IF Len(h.history) = HistorySize THEN 1 ELSE 0
            IN  /\ Len(h.history) = Len(Kept(h)) + d
                /\ \A m \in 1 .. Len(Kept(h)) : Kept(h)[m] = h.history[m + d]
  <1>1. h.history \in Seq(Frames) /\ Len(h.history) \in Nat /\ Len(h.history) <= HistorySize
    BY LenProperties DEF Hubs
  <1>2. CASE Len(h.history) = HistorySize
    <2>1. h.history # << >>
      BY <1>1, <1>2, Sizes
    <2>2. /\ Tail(h.history) \in Seq(Frames)
          /\ Len(Tail(h.history)) = Len(h.history) - 1
          /\ \A m \in 1 .. Len(Tail(h.history)) : Tail(h.history)[m] = h.history[m + 1]
      BY <1>1, <2>1, HeadTailProperties
    <2> QED
      BY <1>1, <1>2, <2>2, Sizes DEF Kept
  <1>3. CASE Len(h.history) # HistorySize
    BY <1>1, <1>3, Sizes DEF Kept
  <1> QED
    BY <1>2, <1>3

\* Every frame that is kept was in the history.
LEMMA KeptIsHistory ==
  ASSUME NEW S, NEW h \in Hubs(S), NEW m \in 1 .. Len(Kept(h))
  PROVE  \E n \in 1 .. Len(h.history) : Kept(h)[m] = h.history[n]
  <1>1. PICK d \in {0, 1} : Len(h.history) = Len(Kept(h)) + d /\ Kept(h)[m] = h.history[m + d]
    BY KeptHistory
  <1>2. m + d \in 1 .. Len(h.history)
    BY <1>1, KeptHistory
  <1> QED
    BY <1>1, <1>2

\* The hub after a frame that is past its cursor.
LEMMA PublishedFrame ==
  ASSUME NEW h, NEW f, ~ f.cursor <= h.cursor
  PROVE  PublishFrame(f, h) =
           [cursor |-> f.cursor,
            floor |-> IF Len(h.history) = HistorySize THEN Head(h.history).cursor ELSE h.floor,
            history |-> Append(Kept(h), f),
            queue |-> [c \in DOMAIN h.queue |-> QueueFrame(f, h.queue[c])]]
  BY DEF PublishFrame, Kept

\* Publishing a frame leaves a hub, and none of its frames is past its cursor.
LEMMA PublishFrameTypes ==
  ASSUME NEW S, NEW h \in Hubs(S), Behind(h), NEW f \in Frames
  PROVE  PublishFrame(f, h) \in Hubs(S) /\ Behind(PublishFrame(f, h))
  <1> DEFINE p == PublishFrame(f, h)
  <1>1. CASE f.cursor <= h.cursor
    BY <1>1 DEF PublishFrame
  <1>2. CASE ~ f.cursor <= h.cursor
    <2>1. /\ f.cursor \in 0 .. MaxRows /\ f.cursor \in Nat
          /\ h.cursor \in Nat /\ h.floor \in 0 .. MaxRows /\ h.floor <= h.cursor
          /\ h.history \in Seq(Frames) /\ Len(h.history) \in Nat
          /\ h.queue \in [S -> Seq(Frames)] /\ DOMAIN h.queue = S
      BY HubFields, FrameFields
    <2>2. p.floor \in 0 .. MaxRows /\ p.floor <= f.cursor
      <3>1. CASE Len(h.history) = HistorySize
        <4>1. h.history # << >> /\ 1 \in 1 .. Len(h.history)
          BY <2>1, <3>1, Sizes
        <4>2. h.history[1] \in Frames /\ Head(h.history) = h.history[1]
          BY <2>1, <4>1, HeadTailProperties, ElementOfSeq
        <4>3. h.history[1].cursor <= h.cursor
          BY <4>1 DEF Behind, UpTo
        <4>4. h.history[1].cursor \in 0 .. MaxRows /\ h.history[1].cursor \in Nat
          BY <4>2, Sizes DEF Frames, Rows
        <4>5. p.floor = h.history[1].cursor
          BY <1>2, <3>1, <4>2, PublishedFrame
        <4> QED
          BY <1>2, <2>1, <4>3, <4>4, <4>5
      <3>2. CASE Len(h.history) # HistorySize
        <4>1. p.floor = h.floor
          BY <1>2, <3>2, PublishedFrame
        <4> QED
          BY <1>2, <2>1, <4>1, Sizes
      <3> QED
        BY <3>1, <3>2
    <2>3. p.history \in Seq(Frames) /\ Len(p.history) <= HistorySize /\ UpTo(p.history, f.cursor)
      <3>1. p.history = Append(Kept(h), f)
        BY <1>2, PublishedFrame
      <3>2. /\ Append(Kept(h), f) \in Seq(Frames)
            /\ Len(Append(Kept(h), f)) = Len(Kept(h)) + 1
            /\ Append(Kept(h), f)[Len(Kept(h)) + 1] = f
            /\ \A m \in 1 .. Len(Kept(h)) : Append(Kept(h), f)[m] = Kept(h)[m]
        BY KeptHistory, AppendProperties
      <3>3. \A m \in 1 .. Len(Kept(h)) : Kept(h)[m].cursor <= f.cursor
        <4> TAKE m \in 1 .. Len(Kept(h))
        <4>1. PICK n \in 1 .. Len(h.history) : Kept(h)[m] = h.history[n]
          BY KeptIsHistory
        <4>2. h.history[n] \in Frames
          BY <2>1, ElementOfSeq
        <4>3. h.history[n].cursor \in Nat /\ h.history[n].cursor <= h.cursor
          BY <4>2, Sizes DEF Frames, Rows, Behind, UpTo
        <4> QED
          BY <1>2, <2>1, <4>1, <4>3
      <3>4. UpTo(Append(Kept(h), f), f.cursor)
        BY <2>1, <3>2, <3>3, KeptHistory DEF UpTo
      <3> QED
        BY <3>1, <3>2, <3>4, KeptHistory, Sizes
    <2>4. /\ p.queue \in [S -> Seq(Frames)]
          /\ \A c \in S : Len(p.queue[c]) <= QueueSize /\ UpTo(p.queue[c], f.cursor)
      <3>1. p.queue = [c \in S |-> QueueFrame(f, h.queue[c])]
        BY <1>2, <2>1, PublishedFrame
      <3>2. ASSUME NEW c \in S
            PROVE  /\ QueueFrame(f, h.queue[c]) \in Seq(Frames)
                   /\ Len(QueueFrame(f, h.queue[c])) <= QueueSize
                   /\ UpTo(QueueFrame(f, h.queue[c]), f.cursor)
        <4>1. h.queue[c] \in Seq(Frames) /\ Len(h.queue[c]) <= QueueSize /\ UpTo(h.queue[c], h.cursor)
          BY <2>1 DEF Hubs, Behind
        <4>2. UpTo(h.queue[c], f.cursor)
          BY <1>2, <2>1, <4>1, UpToGrows
        <4>3. f.cursor <= f.cursor
          BY <2>1
        <4> QED
          BY <2>1, <4>1, <4>2, <4>3, QueueFrameTypes, QueueFrameUpTo
      <3> QED
        BY <3>1, <3>2
    <2>5. p = [cursor |-> f.cursor, floor |-> p.floor, history |-> p.history, queue |-> p.queue]
      BY <1>2, PublishedFrame
    <2> HIDE DEF p
    <2>6. p \in Hubs(S)
      BY <2>1, <2>2, <2>3, <2>4, <2>5 DEF Hubs
    <2>7. Behind(p)
      BY <2>3, <2>4, <2>5 DEF Behind
    <2> QED
      BY <2>6, <2>7 DEF p
  <1> QED
    BY <1>1, <1>2

\* Publishing the next row after the cursor: the history goes on without a gap, and
\* the queues tell of what they told of and of that row.
LEMMA PublishNextRow ==
  ASSUME NEW S, NEW h \in Hubs(S), Behind(h),
         NEW rows \in SUBSET Rows, Remembers(h, rows),
         NEW i \in rows, h.cursor < i,
         \A j \in rows : h.cursor < j /\ j <= i => j = i
  PROVE  /\ PublishFrame(Frame[i], h).cursor = i
         /\ Remembers(PublishFrame(Frame[i], h), rows)
         /\ \A c \in S : \A j \in Rows :
              Leading(j) /\ (Tells(h.queue[c], j) \/ j = i) =>
                Tells(PublishFrame(Frame[i], h).queue[c], j)
  <1> DEFINE p == PublishFrame(Frame[i], h)
             d == IF Len(h.history) = HistorySize THEN 1 ELSE 0
             r == Kept(h)
  <1>1. i \in Rows /\ i \in Nat /\ Frame[i] \in Frames /\ Frame[i].cursor = i /\ h.cursor \in Nat /\ h.floor \in Nat
    BY FrameOfRow, HubFields, Sizes DEF Rows
  <1>2. /\ p.cursor = i
        /\ p.floor = IF Len(h.history) = HistorySize THEN Head(h.history).cursor ELSE h.floor
        /\ p.history = Append(r, Frame[i])
        /\ p.queue = [c \in S |-> QueueFrame(Frame[i], h.queue[c])]
    BY <1>1, PublishedFrame, HubFields
  <1>3. /\ Len(r) \in Nat /\ Len(h.history) \in Nat /\ Len(h.history) = Len(r) + d
        /\ \A m \in 1 .. Len(r) : r[m] = h.history[m + d]
        /\ r \in Seq(Frames) /\ h.history \in Seq(Frames)
    BY KeptHistory, HubFields
  <1>4. /\ Len(p.history) = Len(r) + 1
        /\ p.history[Len(r) + 1] = Frame[i]
        /\ \A m \in 1 .. Len(r) : p.history[m] = h.history[m + d]
    BY <1>1, <1>2, <1>3, AppendProperties
  <1> HIDE DEF r, p
  <1>5. d \in {0, 1} /\ (d = 1 <=> Len(h.history) = HistorySize)
    OBVIOUS
  <1> HIDE DEF d
  <1>6. \A m \in 1 .. Len(h.history) : h.history[m].cursor \in Nat /\ h.history[m].cursor < i
    <2> TAKE m \in 1 .. Len(h.history)
    <2>1. h.history[m] \in Frames
      BY <1>3, ElementOfSeq
    <2>2. h.history[m].cursor \in Nat /\ h.history[m].cursor <= h.cursor
      BY <2>1, FrameFields DEF Behind, UpTo
    <2> QED
      BY <1>1, <2>2
  <1>7. Len(h.history) = HistorySize => 1 \in 1 .. Len(h.history) /\ p.floor = h.history[1].cursor
    <2> HAVE Len(h.history) = HistorySize
    <2>1. 1 \in 1 .. Len(h.history) /\ h.history # << >>
      BY <1>3, Sizes
    <2>2. Head(h.history) = h.history[1]
      BY <1>3, <2>1, HeadTailProperties
    <2> QED
      BY <1>2, <2>1, <2>2
  <1>8. ASSUME NEW n \in 1 .. Len(p.history)
         PROVE  p.floor < p.history[n].cursor
    <2>1. CASE n = Len(r) + 1
      <3>1. p.history[n].cursor = i
        BY <1>1, <1>4, <2>1
      <3>2. CASE Len(h.history) = HistorySize
        BY <1>1, <1>6, <1>7, <3>1, <3>2
      <3>3. CASE Len(h.history) # HistorySize
        <4>1. p.floor = h.floor /\ h.floor <= h.cursor
          BY <1>2, <3>3, HubFields
        <4> QED
          BY <1>1, <3>1, <4>1
      <3> QED
        BY <3>2, <3>3
    <2>2. CASE n # Len(r) + 1
      <3>1. n \in 1 .. Len(r) /\ n + d \in 1 .. Len(h.history)
        BY <1>3, <1>4, <1>5, <2>2
      <3>2. p.history[n] = h.history[n + d]
        BY <1>4, <3>1
      <3>3. CASE d = 1
        <4>1. 1 \in 1 .. Len(h.history) /\ p.floor = h.history[1].cursor /\ 1 < n + d
          BY <1>5, <1>7, <3>1, <3>3
        <4>2. h.history[1].cursor < h.history[n + d].cursor
          BY <3>1, <4>1 DEF Remembers
        <4> QED
          BY <3>2, <4>1, <4>2
      <3>4. CASE d = 0
        <4>1. p.floor = h.floor
          BY <1>2, <1>5, <3>4
        <4> QED
          BY <3>1, <3>2, <4>1 DEF Remembers
      <3> QED
        BY <1>5, <3>3, <3>4
    <2> QED
      BY <2>1, <2>2
  <1>9. ASSUME NEW m \in 1 .. Len(p.history), NEW n \in 1 .. Len(p.history), m < n
        PROVE  p.history[m].cursor < p.history[n].cursor
    <2>1. m \in 1 .. Len(r) /\ m + d \in 1 .. Len(h.history)
      BY <1>3, <1>4, <1>5, <1>9
    <2>2. CASE n = Len(r) + 1
      BY <1>1, <1>4, <1>6, <2>1, <2>2
    <2>3. CASE n # Len(r) + 1
      <3>1. n \in 1 .. Len(r) /\ n + d \in 1 .. Len(h.history) /\ m + d < n + d
        BY <1>3, <1>4, <1>5, <1>9, <2>3
      <3>2. h.history[m + d].cursor < h.history[n + d].cursor
        BY <2>1, <3>1 DEF Remembers
      <3> QED
        BY <1>4, <2>1, <3>1, <3>2
    <2> QED
      BY <2>2, <2>3
  <1>10. ASSUME NEW j \in rows, p.floor < j, j <= p.cursor
        PROVE  \E n \in 1 .. Len(p.history) : p.history[n] = Frame[j]
    <2>1. j \in Nat
      BY Sizes DEF Rows
    <2>2. CASE j = i
      BY <1>3, <1>4, <2>2
    <2>3. CASE j # i
      <3>1. j <= h.cursor
        BY <1>1, <1>2, <1>10, <2>1, <2>3
      <3>2. h.floor < j
        <4>1. CASE Len(h.history) = HistorySize
          <5>1. 1 \in 1 .. Len(h.history) /\ p.floor = h.history[1].cursor
            BY <1>7, <4>1
          <5>2. h.floor < h.history[1].cursor
            BY <5>1 DEF Remembers
          <5> QED
            BY <1>1, <1>6, <1>10, <2>1, <5>1, <5>2
        <4>2. CASE Len(h.history) # HistorySize
          BY <1>2, <1>10, <4>2
        <4> QED
          BY <4>1, <4>2
      <3>3. PICK n \in 1 .. Len(h.history) : h.history[n] = Frame[j]
        BY <3>1, <3>2 DEF Remembers
      <3>4. n - d \in 1 .. Len(r)
        <4>1. CASE d = 1 /\ n = 1
          <5>1. p.floor = h.history[1].cursor
            BY <1>5, <1>7, <4>1
          <5>2. h.history[1].cursor = j
            BY <3>3, <4>1, FrameOfRow
          <5> QED
            BY <1>10, <2>1, <5>1, <5>2
        <4>2. CASE ~ (d = 1 /\ n = 1)
          BY <1>3, <1>5, <4>2
        <4> QED
          BY <4>1, <4>2
      <3>5. (n - d) + d = n /\ n - d \in 1 .. Len(p.history)
        BY <1>3, <1>4, <1>5, <3>4
      <3> QED
        BY <1>4, <3>3, <3>4, <3>5
    <2> QED
      BY <2>2, <2>3
  <1>11. ASSUME NEW c \in S, NEW j \in Rows, Leading(j), Tells(h.queue[c], j) \/ j = i
        PROVE  Tells(p.queue[c], j)
    <2>1. h.queue[c] \in Seq(Frames) /\ UpTo(h.queue[c], h.cursor)
      BY HubFields DEF Behind
    <2>2. p.queue[c] = QueueFrame(Frame[i], h.queue[c])
      BY <1>2
    <2>3. CASE Tells(h.queue[c], j)
      <3>1. UpTo(h.queue[c], i)
        BY <1>1, <2>1, UpToGrows
      <3> QED
        BY <1>1, <2>1, <2>2, <2>3, <3>1, QueueFrameTells
    <2>4. CASE j = i
      <3>1. \A m \in 1 .. Len(h.queue[c]) : h.queue[c][m].cursor < i
        <4> TAKE m \in 1 .. Len(h.queue[c])
        <4>1. h.queue[c][m] \in Frames
          BY <2>1, ElementOfSeq
        <4>2. h.queue[c][m].cursor \in Nat /\ h.queue[c][m].cursor <= h.cursor
          BY <2>1, <4>1, FrameFields DEF UpTo
        <4> QED
          BY <1>1, <4>2
      <3> QED
        BY <1>11, <2>1, <2>2, <2>4, <3>1, QueueFrameTellsItsRow
    <2> QED
      BY <1>11, <2>3, <2>4
  <1> QED
    BY <1>2, <1>9, <1>10, <1>11, <1>8 DEF Remembers, p

\* A batch is published by a fold.
LEMMA PublishIsFold ==
  ASSUME NEW h, NEW rows
  PROVE  Publish(h, rows) = Publishing!Fold(h, Frame, rows)
  BY DEF Publish, Publishing!Fold, Publishing!MapThenFoldSet, Publishing!Max, MapThenFoldSet, Max

\* _publish_rows leaves a hub a hub, with no frame past its cursor.
LEMMA PublishTypes ==
  ASSUME NEW S, NEW h \in Hubs(S), Behind(h), NEW rows \in SUBSET Rows
  PROVE  Publish(h, rows) \in Hubs(S) /\ Behind(Publish(h, rows))
  <1> DEFINE P == {<<k, v>> : k \in 0 .. MaxRows, v \in {g \in Hubs(S) : Behind(g)}}
  <1>1. <<0, h>> \in P
    BY Sizes
  <1>2. ASSUME NEW k \in 1 .. MaxRows, NEW v, <<k - 1, v>> \in P
        PROVE  <<k, IF k \in rows THEN PublishFrame(Frame[k], v) ELSE v>> \in P
    <2>1. v \in Hubs(S) /\ Behind(v)
      BY <1>2
    <2>2. k \in Rows /\ Frame[k] \in Frames /\ k \in 0 .. MaxRows
      BY FrameOfRow, Sizes DEF Rows
    <2>3. PublishFrame(Frame[k], v) \in Hubs(S) /\ Behind(PublishFrame(Frame[k], v))
      BY <2>1, <2>2, PublishFrameTypes
    <2> QED
      BY <2>1, <2>2, <2>3
  <1> HIDE DEF P
  <1>3. \A k \in 1 .. MaxRows : \A v : <<k - 1, v>> \in P =>
          <<k, IF k \in rows THEN PublishFrame(Frame[k], v) ELSE v>> \in P
    BY <1>2
  <1>4. <<MaxRows, Publishing!Fold(h, Frame, rows)>> \in P
    BY <1>1, <1>3, Sizes, Publishing!FoldInduction DEF Rows
  <1> QED
    BY <1>4, PublishIsFold DEF P

\* A batch without a gap: the queues tell of all it has of the leading domain, and
\* of what they told of before.
LEMMA PublishTells ==
  ASSUME NEW S, NEW h \in Hubs(S), Behind(h), outbox \subseteq Rows, Remembers(h, outbox),
         NEW rows \in SUBSET outbox, Follow(rows, h.cursor)
  PROVE  LET p == Publish(h, rows)
         IN  /\ p.cursor = h.cursor \/ p.cursor \in rows
             /\ \A i \in rows : i <= p.cursor
             /\ Remembers(p, outbox)
             /\ \A c \in S : \A j \in outbox :
                  Leading(j) /\ (Tells(h.queue[c], j) \/ (h.cursor < j /\ j <= p.cursor)) =>
                    Tells(p.queue[c], j)
  <1> DEFINE Good(k, v) ==
               /\ v \in Hubs(S) /\ Behind(v)
               /\ v.cursor = h.cursor \/ (v.cursor \in rows /\ v.cursor <= k)
               /\ \A i \in rows : i <= k => i <= v.cursor
               /\ Remembers(v, outbox)
               /\ \A c \in S : \A j \in outbox :
                    Leading(j) /\ (Tells(h.queue[c], j) \/ (h.cursor < j /\ j <= v.cursor)) =>
                      Tells(v.queue[c], j)
             P == {x \in (0 .. MaxRows) \X Hubs(S) : Good(x[1], x[2])}
  <1>1. \A i \in rows : i \in Nat /\ i >= 1 /\ h.cursor < i
    BY Sizes DEF Rows, Follow
  <1>2. h.cursor \in Nat /\ \A j \in outbox : j \in Nat /\ j \in Rows
    BY HubFields, Sizes DEF Rows
  <1>3. Good(0, h)
    BY <1>1, <1>2
  <1>4. ASSUME NEW k \in 1 .. MaxRows, NEW v \in Hubs(S), Good(k - 1, v), k \in rows
        PROVE  Good(k, PublishFrame(Frame[k], v))
    <2>1. k \in Nat /\ k \in Rows /\ h.cursor < k /\ v.cursor \in Nat
      BY <1>1, <1>4, HubFields DEF Rows
    <2>2. v.cursor < k
      BY <1>2, <1>4, <2>1
    <2>3. \A j \in outbox : v.cursor < j /\ j <= k => j = k
      <3> SUFFICES ASSUME NEW j \in outbox, v.cursor < j, j <= k PROVE j = k
        OBVIOUS
      <3>1. h.cursor <= v.cursor
        BY <1>1, <1>2, <1>4, <2>1
      <3>2. j \in rows
        BY <1>2, <1>4, <2>1, <3>1 DEF Follow
      <3>3. ~ j <= k - 1
        BY <1>2, <1>4, <2>1, <3>2
      <3> QED
        BY <1>2, <2>1, <3>3
    <2>4. /\ PublishFrame(Frame[k], v).cursor = k
          /\ Remembers(PublishFrame(Frame[k], v), outbox)
          /\ \A c \in S : \A j \in Rows :
               Leading(j) /\ (Tells(v.queue[c], j) \/ j = k) => Tells(PublishFrame(Frame[k], v).queue[c], j)
      BY <1>4, <2>2, <2>3, PublishNextRow
    <2>5. PublishFrame(Frame[k], v) \in Hubs(S) /\ Behind(PublishFrame(Frame[k], v))
      BY <1>4, <2>1, FrameOfRow, PublishFrameTypes
    <2> DEFINE w == PublishFrame(Frame[k], v)
    <2> HIDE DEF w
    <2>6. ASSUME NEW c \in S, NEW j \in outbox, Leading(j),
                 Tells(h.queue[c], j) \/ (h.cursor < j /\ j <= k)
          PROVE  Tells(w.queue[c], j)
      <3>1. CASE j = k
        BY <1>2, <2>4, <2>6, <3>1 DEF w
      <3>2. CASE j # k
        <4>1. h.cursor < j /\ j <= k => j <= v.cursor
          BY <1>2, <2>1, <2>3, <3>2
        <4>2. Tells(v.queue[c], j)
          BY <1>4, <2>6, <4>1
        <4> QED
          BY <1>2, <2>4, <2>6, <4>2 DEF w
      <3> QED
        BY <3>1, <3>2
    <2> HIDE DEF P
    <2>7. \A i \in rows : i <= k => i <= w.cursor
      BY <2>4 DEF w
    <2>8. w.cursor \in rows /\ w.cursor <= k
      BY <1>4, <2>1, <2>4 DEF w
    <2>9. \A c \in S : \A j \in outbox :
            Leading(j) /\ (Tells(h.queue[c], j) \/ (h.cursor < j /\ j <= w.cursor)) => Tells(w.queue[c], j)
      BY <2>4, <2>6 DEF w
    <2> QED
      BY <2>4, <2>5, <2>7, <2>8, <2>9 DEF w
  <1>5. ASSUME NEW k \in 1 .. MaxRows, NEW v \in Hubs(S), Good(k - 1, v), k \notin rows
        PROVE  Good(k, v)
    <2>1. \A i \in rows : i <= k => i <= k - 1
      BY <1>1, <1>5
    <2>2. v.cursor \in Nat /\ (v.cursor <= k - 1 => v.cursor <= k)
      BY HubFields
    <2> QED
      BY <1>5, <2>1, <2>2
  <1> HIDE DEF Good
  <1>6. <<0, h>> \in P
    BY <1>3, Sizes
  <1>7. ASSUME NEW k \in 1 .. MaxRows, NEW v, <<k - 1, v>> \in P
        PROVE  <<k, IF k \in rows THEN PublishFrame(Frame[k], v) ELSE v>> \in P
    <2>1. v \in Hubs(S) /\ Good(k - 1, v) /\ k \in 0 .. MaxRows
      BY <1>7, Sizes
    <2>2. CASE k \in rows
      <3>1. Good(k, PublishFrame(Frame[k], v))
        BY <1>4, <2>1, <2>2
      <3>2. PublishFrame(Frame[k], v) \in Hubs(S)
        BY <3>1 DEF Good
      <3> QED
        BY <2>1, <2>2, <3>1, <3>2
    <2>3. CASE k \notin rows
      BY <1>5, <2>1, <2>3
    <2> QED
      BY <2>2, <2>3
  <1> HIDE DEF P
  <1>8. <<MaxRows, Publishing!Fold(h, Frame, rows)>> \in P
    BY <1>6, <1>7, <1>2, Sizes, Publishing!FoldInduction DEF Rows
  <1>9. Good(MaxRows, Publish(h, rows))
    BY <1>8, PublishIsFold DEF P
  <1>10. \A i \in rows : i <= MaxRows
    BY <1>2, Sizes DEF Rows
  <1> QED
    BY <1>9, <1>10 DEF Good

-----------------------------------------------------------------------------
(* Replaying the history for a subscriber that is not the first.             *)

\* Where in the history the replay begins.
Unseen(after) == {n \in 1 .. Len(hub.history) : hub.history[n].cursor > after}

\* The replay of the history is a fold over its positions.
LEMMA ReplayIsFold ==
  ASSUME NEW S, hub \in Hubs(S), NEW after
  PROVE  Replay(after) = Queueing!Fold(<< >>, hub.history, Unseen(after))
  <1>1. DOMAIN hub.history = 1 .. Len(hub.history)
    BY HubFields, LenProperties
  <1> QED
    BY <1>1 DEF Replay, Unseen, Queueing!Fold, Queueing!MapThenFoldSet, Queueing!Max, MapThenFoldSet, Max

\* No frame of the history is past the hub's cursor.
LEMMA HistoryFrames ==
  ASSUME NEW S, hub \in Hubs(S), Behind(hub), NEW n \in 1 .. Len(hub.history)
  PROVE  hub.history[n] \in Frames /\ hub.history[n].cursor \in Nat /\ hub.history[n].cursor <= hub.cursor
  <1>1. hub.history[n] \in Frames
    BY HubFields, ElementOfSeq
  <1> QED
    BY <1>1, FrameFields DEF Behind, UpTo

\* _replay_or_reset: a replayed queue is within its size and not past the hub's cursor.
LEMMA ReplayTypes ==
  ASSUME NEW S, hub \in Hubs(S), Behind(hub), NEW after
  PROVE  /\ Replay(after) \in Seq(Frames)
         /\ Len(Replay(after)) <= QueueSize
         /\ UpTo(Replay(after), hub.cursor)
  <1> DEFINE n == Len(hub.history)
             Queues == {q \in Seq(Frames) : Len(q) <= QueueSize /\ UpTo(q, hub.cursor)}
             P == (0 .. n) \X Queues
  <1>1. n \in Nat /\ hub.cursor \in Nat
    BY HubFields
  <1>2. << >> \in Queues
    BY Sizes DEF UpTo
  <1>3. ASSUME NEW k \in 1 .. n, NEW q \in Queues
        PROVE  QueueFrame(hub.history[k], q) \in Queues
    <2>1. hub.history[k] \in Frames /\ hub.history[k].cursor <= hub.cursor
      BY HistoryFrames
    <2> QED
      BY <1>1, <2>1, QueueFrameTypes, QueueFrameUpTo
  <1> HIDE DEF Queues
  <1>4. <<0, << >> >> \in P
    BY <1>1, <1>2
  <1>5. ASSUME NEW k \in 1 .. n, NEW q, <<k - 1, q>> \in P
        PROVE  <<k, IF k \in Unseen(after) THEN QueueFrame(hub.history[k], q) ELSE q>> \in P
    <2>1. q \in Queues /\ k \in 0 .. n
      BY <1>1, <1>5
    <2>2. QueueFrame(hub.history[k], q) \in Queues
      BY <1>3, <2>1
    <2> QED
      BY <2>1, <2>2
  <1>6. Unseen(after) \in SUBSET (1 .. n)
    BY DEF Unseen
  <1> HIDE DEF P, n
  <1>7. <<n, Queueing!Fold(<< >>, hub.history, Unseen(after))>> \in P
    BY <1>1, <1>4, <1>5, <1>6, Queueing!FoldInduction
  <1> QED
    BY <1>7, ReplayIsFold DEF P, Queues

\* A replay from a cursor the history reaches back to tells of every row between
\* that cursor and the hub's.
LEMMA ReplayTells ==
  ASSUME NEW S, hub \in Hubs(S), Behind(hub), outbox \subseteq Rows, Remembers(hub, outbox),
         NEW after \in Nat, hub.floor <= after,
         NEW j \in outbox, Leading(j), after < j, j <= hub.cursor
  PROVE  Tells(Replay(after), j)
  <1> DEFINE n == Len(hub.history)
             At(l) == hub.history[l]
             Good(k, q) ==
               /\ q \in Seq(Frames)
               /\ \A l \in 1 .. n : k < l => \A m \in 1 .. Len(q) : q[m].cursor < At(l).cursor
               /\ (\E l \in 1 .. n : l <= k /\ At(l) = Frame[j]) => Tells(q, j)
             P == {x \in (0 .. n) \X Seq(Frames) : Good(x[1], x[2])}
  <1>1. n \in Nat /\ hub.floor \in Nat /\ j \in Nat /\ j \in Rows
    BY HubFields, Sizes DEF Rows
  <1>2. PICK l \in 1 .. n : At(l) = Frame[j]
    BY <1>1 DEF Remembers
  <1>3. \A k, m \in 1 .. n : k < m => At(k).cursor < At(m).cursor
    BY DEF Remembers
  <1>4. \A k \in 1 .. n : At(k) \in Frames /\ At(k).cursor \in Nat
    BY HistoryFrames
  <1>5. Good(0, << >>)
    BY <1>1
  <1>6. ASSUME NEW k \in 1 .. n, NEW q, Good(k - 1, q), k \in Unseen(after)
        PROVE  Good(k, QueueFrame(At(k), q))
    <2> DEFINE r == QueueFrame(At(k), q)
    <2>1. k \in Nat /\ At(k) \in Frames /\ At(k).cursor \in Nat /\ k - 1 < k
      BY <1>4
    <2>2. \A m \in 1 .. Len(q) : q[m] \in Frames /\ q[m].cursor \in Nat /\ q[m].cursor < At(k).cursor
      BY <1>6, <2>1, ElementOfSeq, FrameFields
    <2>3. UpTo(q, At(k).cursor)
      BY <2>1, <2>2 DEF UpTo
    <2>4. r \in Seq(Frames) /\ UpTo(r, At(k).cursor)
      <3>1. q \in Seq(Frames) /\ At(k).cursor <= At(k).cursor
        BY <1>6, <2>1
      <3> QED
        BY ONLY <2>1, <2>3, <3>1, QueuedFrames, QueueFrameUpTo
    <2>5. ASSUME NEW m \in 1 .. n, k < m, NEW i \in 1 .. Len(r)
          PROVE  r[i].cursor < At(m).cursor
      <3>1. r[i].cursor \in Nat /\ r[i].cursor <= At(k).cursor
        BY <2>4, ElementOfSeq, FrameFields DEF UpTo
      <3>2. At(k).cursor < At(m).cursor /\ At(m).cursor \in Nat
        BY <1>3, <1>4, <2>5
      <3> QED
        BY <2>1, <3>1, <3>2
    <2>6. ASSUME NEW m \in 1 .. n, m <= k, At(m) = Frame[j]
          PROVE  Tells(r, j)
      <3>1. CASE m = k
        <4>1. \A i \in 1 .. Len(q) : q[i].cursor < j
          BY <1>1, <2>2, <2>6, <3>1, FrameOfRow
        <4> QED
          BY <1>1, <1>6, <2>6, <3>1, <4>1, QueueFrameTellsItsRow
      <3>2. CASE m # k
        <4>1. m <= k - 1
          BY <2>6, <3>2
        <4>2. Tells(q, j)
          BY <1>6, <2>6, <4>1
        <4> QED
          BY <1>1, <1>6, <2>1, <2>3, <4>2, QueueFrameTells
      <3> QED
        BY <3>1, <3>2
    <2> QED
      BY <2>4, <2>5, <2>6
  <1>7. ASSUME NEW k \in 1 .. n, NEW q, Good(k - 1, q), k \notin Unseen(after)
        PROVE  Good(k, q)
    <2>1. \A m \in 1 .. n : k < m => k - 1 < m
      OBVIOUS
    <2>2. At(k).cursor <= after
      BY <1>4, <1>7 DEF Unseen
    <2>3. \A m \in 1 .. n : m <= k /\ At(m) = Frame[j] => m <= k - 1
      BY <1>1, <1>4, <2>2, FrameOfRow
    <2> QED
      BY <1>7, <2>1, <2>3
  <1> HIDE DEF Good
  <1>8. <<0, << >> >> \in P
    <2>1. << >> \in Seq(Frames) /\ 0 \in 0 .. n
      BY <1>1
    <2> QED
      BY <1>5, <2>1
  <1>9. ASSUME NEW k \in 1 .. n, NEW q, <<k - 1, q>> \in P
        PROVE  <<k, IF k \in Unseen(after) THEN QueueFrame(At(k), q) ELSE q>> \in P
    <2>1. Good(k - 1, q) /\ k \in 0 .. n /\ q \in Seq(Frames)
      BY <1>1, <1>9
    <2>2. CASE k \in Unseen(after)
      <3>1. Good(k, QueueFrame(At(k), q))
        BY <1>6, <2>1, <2>2
      <3>2. QueueFrame(At(k), q) \in Seq(Frames)
        BY <3>1 DEF Good
      <3> QED
        BY <2>1, <2>2, <3>1, <3>2
    <2>3. CASE k \notin Unseen(after)
      BY <1>7, <2>1, <2>3
    <2> QED
      BY <2>2, <2>3
  <1>10. Unseen(after) \in SUBSET (1 .. n)
    BY DEF Unseen
  <1> HIDE DEF P
  <1>11. <<n, Queueing!Fold(<< >>, hub.history, Unseen(after))>> \in P
    BY <1>1, <1>8, <1>9, <1>10, Queueing!FoldInduction
  <1>12. Good(n, Replay(after))
    BY <1>11, ReplayIsFold DEF P
  <1> QED
    BY <1>1, <1>2, <1>12 DEF Good

-----------------------------------------------------------------------------
(* Batches and subscribers.                                                  *)

\* The rows of a batch follow its cursor without a gap.
LEMMA FirstHasNoGap ==
  ASSUME outbox \subseteq Rows, NEW k \in Nat, NEW n \in Nat
  PROVE  /\ First(Newer(k), n) \in SUBSET outbox
         /\ \A i \in First(Newer(k), n) : k < i
         /\ Follow(First(Newer(k), n), k)
  <1> DEFINE S == Newer(k)
             To(j) == {x \in S : x <= j}
  <1>1. S \subseteq outbox /\ \A i \in S : k < i
    BY Sizes DEF Newer, Rows
  <1>2. \A i \in outbox : i \in Nat
    BY Sizes DEF Rows
  <1>3. ASSUME NEW i \in First(S, n), NEW j \in outbox, k < j, j <= i
        PROVE  j \in First(S, n)
    <2>1. i \in S /\ Cardinality(To(i)) <= n
      BY <1>3 DEF First
    <2>2. j \in S
      BY <1>2, <1>3 DEF Newer
    <2>3. To(j) \in SUBSET To(i)
      BY <1>1, <1>2, <1>3, <2>1
    <2>4. IsFiniteSet(To(i))
      <3>1. To(i) \in SUBSET (1 .. MaxRows)
        BY <1>1 DEF Rows
      <3>2. IsFiniteSet(1 .. MaxRows)
        BY FS_Interval, Sizes
      <3> QED
        BY <3>1, <3>2, FS_Subset
    <2>5. Cardinality(To(j)) <= Cardinality(To(i)) /\ IsFiniteSet(To(j))
      BY <2>3, <2>4, FS_Subset
    <2>6. Cardinality(To(i)) \in Nat /\ Cardinality(To(j)) \in Nat
      BY <2>4, <2>5, FS_CardinalityType
    <2>7. Cardinality(To(j)) <= n
      BY <2>1, <2>5, <2>6
    <2> QED
      BY <2>2, <2>7 DEF First
  <1>4. First(S, n) \subseteq S
    BY DEF First
  <1> HIDE DEF S
  <1> QED
    BY <1>1, <1>3, <1>4 DEF Follow, S

\* The latest row is a row of the outbox, or zero where there is none.
LEMMA LatestIsLatest ==
  ASSUME outbox \subseteq Rows
  PROVE  /\ Latest \in outbox \cup {0} /\ Latest \in 0 .. MaxRows /\ Latest \in Nat
         /\ \A i \in outbox : i <= Latest
  <1>1. outbox \cup {0} \in SUBSET (0 .. MaxRows) /\ outbox \cup {0} # {}
    BY Sizes DEF Rows
  <1>2. /\ Publishing!Max(outbox \cup {0}) \in outbox \cup {0}
        /\ \A j \in outbox \cup {0} : j <= Publishing!Max(outbox \cup {0})
    BY <1>1, Sizes, Publishing!MaxIsGreatest
  <1>3. Latest = Publishing!Max(outbox \cup {0})
    BY DEF Latest, Max, Publishing!Max
  <1>4. Latest \in outbox \cup {0} /\ \A i \in outbox : i <= Latest
    BY ONLY <1>2, <1>3
  <1>5. Latest \in 0 .. MaxRows
    BY ONLY <1>1, <1>4
  <1>6. Latest \in Nat
    BY ONLY <1>5, Sizes
  <1> QED
    BY <1>4, <1>5, <1>6

\* A tab that has recovered is as far as the latest row, or where it was.
LEMMA LatestAndOwn ==
  ASSUME outbox \subseteq Rows, NEW k \in 0 .. MaxRows
  PROVE  /\ Max({k, Latest}) \in {k, Latest}
         /\ Max({k, Latest}) \in 0 .. MaxRows /\ Max({k, Latest}) \in Nat
         /\ k <= Max({k, Latest}) /\ Latest <= Max({k, Latest})
  <1>1. {k, Latest} \in SUBSET (0 .. MaxRows) /\ {k, Latest} # {}
    BY LatestIsLatest
  <1>2. /\ Publishing!Max({k, Latest}) \in {k, Latest}
        /\ \A j \in {k, Latest} : j <= Publishing!Max({k, Latest})
    BY ONLY <1>1, Sizes, Publishing!MaxIsGreatest
  <1>3. Max({k, Latest}) = Publishing!Max({k, Latest})
    BY DEF Max, Publishing!Max
  <1>4. Max({k, Latest}) \in 0 .. MaxRows
    BY ONLY <1>1, <1>2, <1>3
  <1>5. Max({k, Latest}) \in Nat
    BY ONLY <1>4, Sizes
  <1> QED
    BY <1>2, <1>3, <1>4, <1>5

\* The hub a first subscriber finds.
Alone(c, k) == [cursor |-> k, floor |-> k, history |-> << >>, queue |-> [x \in {c} |-> << >>]]

\* The hub of a first subscriber is a hub, and has missed nothing after its cursor.
LEMMA AloneTypes ==
  ASSUME NEW c, NEW k \in 0 .. MaxRows
  PROVE  /\ Alone(c, k) \in Hubs({c}) /\ Behind(Alone(c, k))
         /\ Alone(c, k).cursor = k
         /\ \A rows \in SUBSET Rows : Remembers(Alone(c, k), rows)
  <1>1. k \in Nat /\ k <= k
    BY Sizes
  <1>2. << >> \in Seq(Frames) /\ Len(<< >>) = 0
    OBVIOUS
  <1>3. [x \in {c} |-> << >>] \in [{c} -> Seq(Frames)]
    BY <1>2
  <1>4. Alone(c, k) \in Hubs({c})
    BY <1>1, <1>2, <1>3, Sizes DEF Alone, Hubs
  <1>5. Behind(Alone(c, k))
    BY <1>2 DEF Alone, Behind, UpTo
  <1>6. ASSUME NEW rows \in SUBSET Rows
        PROVE  Remembers(Alone(c, k), rows)
    <2>1. \A i \in rows : i \in Nat
      BY Sizes DEF Rows
    <2> QED
      BY <1>1, <1>2, <2>1 DEF Alone, Remembers
  <1> QED
    BY <1>4, <1>5, <1>6 DEF Alone

\* A hub with other queues is that hub otherwise.
LEMMA HubWithQueues ==
  ASSUME NEW S, NEW h \in Hubs(S), NEW X
  PROVE  [h EXCEPT !.queue = X] =
           [cursor |-> h.cursor, floor |-> h.floor, history |-> h.history, queue |-> X]
  <1> h \in [cursor : 0 .. MaxRows, floor : 0 .. MaxRows,
             history : Seq(Frames), queue : [S -> Seq(Frames)]]
    BY DEF Hubs
  <1> QED
    OBVIOUS

\* A hub with one subscriber more.
LEMMA JoinedHub ==
  ASSUME NEW S, hub \in Hubs(S), NEW c, NEW q
  PROVE  Joined(c, q) = [cursor |-> hub.cursor, floor |-> hub.floor, history |-> hub.history,
                         queue |-> [x \in S \cup {c} |-> IF x = c THEN q ELSE hub.queue[x]]]
  <1>1. Subscribers = S
    BY HubFields DEF Subscribers
  <1> QED
    BY <1>1, HubWithQueues DEF Joined

\* A hub with one subscriber more is a hub, when the new queue fits it.
LEMMA JoinedTypes ==
  ASSUME NEW S, hub \in Hubs(S), Behind(hub), NEW c, c \notin S,
         NEW q \in Seq(Frames), Len(q) <= QueueSize, UpTo(q, hub.cursor)
  PROVE  Joined(c, q) \in Hubs(S \cup {c}) /\ Behind(Joined(c, q))
  <1> DEFINE j == Joined(c, q)
             X == [x \in S \cup {c} |-> IF x = c THEN q ELSE hub.queue[x]]
  <1>1. j = [cursor |-> hub.cursor, floor |-> hub.floor, history |-> hub.history, queue |-> X]
    <2>1. Subscribers = S
      BY HubFields DEF Subscribers
    <2> QED
      BY <2>1, HubWithQueues DEF Joined
  <1> HIDE DEF j
  <1>2. /\ j = [cursor |-> hub.cursor, floor |-> hub.floor, history |-> hub.history, queue |-> j.queue]
        /\ DOMAIN j.queue = S \cup {c} /\ j.queue = [x \in S \cup {c} |-> j.queue[x]]
        /\ j.queue[c] = q /\ \A x \in S : j.queue[x] = hub.queue[x]
    BY <1>1
  <1>3. \A x \in S \cup {c} :
          j.queue[x] \in Seq(Frames) /\ Len(j.queue[x]) <= QueueSize /\ UpTo(j.queue[x], hub.cursor)
    BY <1>2, HubFields DEF Behind
  <1>4. j \in Hubs(S \cup {c})
    <2>1. j.queue \in [S \cup {c} -> Seq(Frames)]
      BY <1>2, <1>3
    <2> QED
      BY <1>2, <1>3, <2>1, HubFields DEF Hubs
  <1>5. Behind(j)
    <2>1. j.cursor = hub.cursor /\ j.history = hub.history
      BY <1>2
    <2> QED
      BY <1>2, <1>3, <2>1 DEF Behind
  <1> QED
    BY <1>4, <1>5 DEF j

\* A hub with some subscribers less.
LEMMA RestrictedTypes ==
  ASSUME NEW S, NEW h \in Hubs(S), Behind(h), NEW R \in SUBSET S
  PROVE  LET j == [h EXCEPT !.queue = Restrict(@, R)]
         IN  /\ j \in Hubs(R) /\ Behind(j)
             /\ j.cursor = h.cursor /\ j.floor = h.floor /\ j.history = h.history
             /\ \A x \in R : j.queue[x] = h.queue[x]
  <1> DEFINE j == [h EXCEPT !.queue = Restrict(@, R)]
  <1>1. /\ j = [cursor |-> h.cursor, floor |-> h.floor, history |-> h.history, queue |-> j.queue]
        /\ j.queue = [x \in R |-> h.queue[x]]
    BY HubFields DEF Restrict
  <1> HIDE DEF j
  <1>2. j \in Hubs(R)
    <2>1. j.queue \in [R -> Seq(Frames)] /\ \A x \in R : Len(j.queue[x]) <= QueueSize
      BY <1>1, HubFields
    <2> QED
      BY <1>1, <2>1, HubFields DEF Hubs
  <1>3. Behind(j)
    BY <1>1, HubFields DEF Behind
  <1> QED
    BY <1>1, <1>2, <1>3 DEF j

\* A hub whose subscriber c has taken the head of its queue.
LEMMA TakenTypes ==
  ASSUME NEW S, NEW h \in Hubs(S), Behind(h), NEW c \in S, h.queue[c] # << >>
  PROVE  LET j == [h EXCEPT !.queue[c] = Tail(@)]
         IN  /\ j \in Hubs(S) /\ Behind(j)
             /\ j.cursor = h.cursor /\ j.floor = h.floor /\ j.history = h.history
             /\ j.queue[c] = Tail(h.queue[c]) /\ \A x \in S \ {c} : j.queue[x] = h.queue[x]
  <1> DEFINE j == [h EXCEPT !.queue[c] = Tail(@)]
             q == h.queue[c]
  <1>1. /\ j = [cursor |-> h.cursor, floor |-> h.floor, history |-> h.history, queue |-> j.queue]
        /\ j.queue = [h.queue EXCEPT ![c] = Tail(q)]
    BY HubWithQueues
  <1> HIDE DEF j
  <1>2. /\ q \in Seq(Frames) /\ Len(q) \in Nat /\ Len(q) <= QueueSize /\ UpTo(q, h.cursor)
        /\ Tail(q) \in Seq(Frames) /\ Len(Tail(q)) = Len(q) - 1
        /\ \A m \in 1 .. Len(Tail(q)) : Tail(q)[m] = q[m + 1]
    BY HubFields, HeadTailProperties DEF Behind
  <1> HIDE DEF q
  <1>3. Len(Tail(q)) <= QueueSize /\ UpTo(Tail(q), h.cursor)
    BY <1>2, Sizes DEF UpTo
  <1>4. \A x \in S :
          j.queue[x] \in Seq(Frames) /\ Len(j.queue[x]) <= QueueSize /\ UpTo(j.queue[x], h.cursor)
    BY <1>1, <1>2, <1>3, HubFields DEF Behind
  <1>5. DOMAIN j.queue = S /\ j.queue[c] = Tail(q) /\ \A x \in S \ {c} : j.queue[x] = h.queue[x]
    BY <1>1, HubFields
  <1>6. j \in Hubs(S)
    <2>1. j.queue \in [S -> Seq(Frames)]
      BY <1>1, <1>2, HubFields
    <2>2. j = [cursor |-> h.cursor, floor |-> h.floor, history |-> h.history, queue |-> j.queue]
      BY <1>1
    <2> QED
      BY <1>4, <2>1, <2>2, HubFields DEF Hubs
  <1>7. Behind(j)
    <2>1. j.cursor = h.cursor /\ j.history = h.history
      BY <1>1
    <2> QED
      BY <1>4, <1>5, <2>1 DEF Behind
  <1> QED
    BY <1>1, <1>7, <1>5, <1>6 DEF j, q

-----------------------------------------------------------------------------
(* Types.                                                                    *)

\* What the types say of the hub.
LEMMA HubTypes ==
  ASSUME TypeInv
  PROVE  /\ hub \in Hubs(Streaming) /\ Behind(hub)
         /\ Subscribers = Streaming
         /\ outbox \subseteq Rows
         /\ at \in [Clients -> 0 .. MaxRows]
         /\ \A c \in Clients : at[c] \in Nat
  <1>1. hub \in Hubs(Streaming) /\ Behind(hub) /\ outbox \subseteq Rows /\ at \in [Clients -> 0 .. MaxRows]
    BY DEF TypeInv, TypeOK, Streaming
  <1>2. Subscribers = Streaming
    BY <1>1, HubFields DEF Subscribers
  <1> QED
    BY <1>1, <1>2, Sizes

\* What is queued for a subscriber that joins is a queue.
LEMMA ReplayedTypes ==
  ASSUME NEW S, hub \in Hubs(S), Behind(hub), NEW after \in 0 .. MaxRows
  PROVE  /\ Replayed(after) \in Seq(Frames)
         /\ Len(Replayed(after)) <= QueueSize
         /\ UpTo(Replayed(after), hub.cursor)
  <1>1. << >> \in Seq(Frames) /\ Len(<< >>) <= QueueSize /\ UpTo(<< >>, hub.cursor)
    BY Sizes DEF UpTo
  <1>2. ASSUME after # 0, ~ after >= hub.cursor
        PROVE  /\ Resets(hub.cursor) \in Seq(Frames)
               /\ Len(Resets(hub.cursor)) <= QueueSize
               /\ UpTo(Resets(hub.cursor), hub.cursor)
    <2>1. hub.cursor \in Rows
      BY <1>2, HubFields, Sizes DEF Rows
    <2> QED
      BY <2>1, ResetFrames, ResetsUpTo, Sizes
  <1> QED
    BY <1>1, <1>2, ReplayTypes DEF Replayed

\* The hub that Open leaves has the new subscriber.
LEMMA OpenTypes ==
  ASSUME TypeInv, NEW c \in Clients, NEW up, NEW answered, Open(c, up, answered)
  PROVE  /\ Streaming' = Streaming \cup {c}
         /\ hub' \in Hubs(Streaming') /\ Behind(hub')
  <1>1. /\ tab \in [Clients -> {"away", "recovered", "streaming"}]
        /\ tab[c] = "recovered" /\ tab' = [tab EXCEPT ![c] = "streaming"]
    BY DEF Open, TypeInv, TypeOK
  <1>2. Streaming' = Streaming \cup {c} /\ c \notin Streaming
    BY <1>1 DEF Streaming
  <1>3. CASE Subscribers # {}
    <2>1. hub' = Joined(c, Replayed(at[c]))
      BY <1>3 DEF Open
    <2>2. at[c] \in 0 .. MaxRows
      BY HubTypes
    <2> QED
      BY <1>2, <2>1, <2>2, HubTypes, JoinedTypes, ReplayedTypes
  <1>4. CASE Subscribers = {}
    <2> DEFINE start == IF at[c] = 0 THEN Latest ELSE at[c]
    <2>1. hub' = IF answered THEN Publish(Alone(c, start), Batch(start)) ELSE Alone(c, start)
      BY <1>4 DEF Open, Alone
    <2>2. start \in 0 .. MaxRows /\ start \in Nat
      BY HubTypes, LatestIsLatest, Sizes
    <2> HIDE DEF start
    <2>3. Batch(start) \in SUBSET Rows
      BY <2>2, HubTypes, FirstHasNoGap, Sizes DEF Batch
    <2>4. Alone(c, start) \in Hubs({c}) /\ Behind(Alone(c, start))
      BY <2>2, AloneTypes
    <2>5. Publish(Alone(c, start), Batch(start)) \in Hubs({c}) /\ Behind(Publish(Alone(c, start), Batch(start)))
      BY <2>3, <2>4, PublishTypes
    <2>6. Streaming' = {c}
      BY <1>2, <1>4, HubTypes
    <2> QED
      BY <1>2, <2>1, <2>4, <2>5, <2>6
  <1> QED
    BY <1>2, <1>3, <1>4

\* The hub that Leave leaves has the others.
LEMMA LeaveTypes ==
  ASSUME TypeInv, NEW c \in Clients, Leave(c)
  PROVE  /\ Streaming' = Streaming \ {c} /\ c \in Streaming
         /\ hub' \in Hubs(Streaming') /\ Behind(hub')
         /\ Streaming' = {} => fetched' = {}
         /\ Streaming' # {} => /\ hub' = [hub EXCEPT !.queue = Restrict(@, Streaming')]
                              /\ fetched' = fetched
  <1>1. /\ tab \in [Clients -> {"away", "recovered", "streaming"}]
        /\ tab[c] = "streaming" /\ tab' = [tab EXCEPT ![c] = "away"]
    BY DEF Leave, TypeInv, TypeOK
  <1>2. Streaming' = Streaming \ {c} /\ c \in Streaming
    BY <1>1 DEF Streaming
  <1>3. CASE Streaming' = {}
    <2>1. Subscribers = {c}
      BY <1>2, <1>3, HubTypes
    <2>2. hub' = NoHub /\ fetched' = {}
      BY <2>1 DEF Leave
    <2>3. NoHub \in Hubs({}) /\ Behind(NoHub)
      <3>1. << >> \in Seq(Frames) /\ << >> \in [{} -> Seq(Frames)] /\ Len(<< >>) = 0 /\ DOMAIN << >> = {}
        OBVIOUS
      <3> QED
        BY <3>1, Sizes DEF NoHub, Hubs, Behind, UpTo
    <2> QED
      BY <1>2, <1>3, <2>2, <2>3
  <1>4. CASE Streaming' # {}
    <2>1. Subscribers # {c} /\ Subscribers \ {c} = Streaming'
      BY <1>2, <1>4, HubTypes
    <2>2. hub' = [hub EXCEPT !.queue = Restrict(@, Streaming')] /\ fetched' = fetched
      BY <2>1 DEF Leave
    <2>3. Streaming' \in SUBSET Streaming
      BY <1>2
    <2> QED
      BY <1>2, <1>4, <2>2, <2>3, HubTypes, RestrictedTypes
  <1> QED
    BY <1>3, <1>4

\* The initial state: no hub, and no tab streams.
LEMMA TypeInit == Init => TypeInv
  <1> SUFFICES ASSUME Init PROVE TypeInv
    OBVIOUS
  <1>1. Streaming = {} /\ hub = NoHub
    BY DEF Init, Streaming
  <1>2. << >> \in Seq(Frames) /\ << >> \in [{} -> Seq(Frames)] /\ Len(<< >>) = 0 /\ DOMAIN << >> = {}
    OBVIOUS
  <1>3. hub \in Hubs({}) /\ Behind(hub)
    BY <1>1, <1>2, Sizes DEF NoHub, Hubs, Behind, UpTo
  <1>4. 1 .. Earlier \subseteq Rows /\ Earlier \in 0 .. MaxRows /\ 0 \in 0 .. MaxRows
    BY RowsAssumption DEF Rows
  <1> QED
    BY <1>1, <1>3, <1>4 DEF Init, TypeInv, TypeOK, Streaming

\* Every step of a transaction, the hub, the poll or a tab keeps the types.
LEMMA TypeStep == TypeInv /\ [Next]_vars => TypeInv'
  <1> SUFFICES ASSUME TypeInv, [Next]_vars PROVE TypeInv'
    OBVIOUS
  <1> USE DEF tables, server, browsers
  <1>1. CASE Insert
    <2>1. last' \in 0 .. MaxRows /\ last + 1 \in Rows
      BY <1>1, Sizes DEF Insert, TypeInv, TypeOK, Rows
    <2> QED
      BY <1>1, <2>1 DEF Insert, TypeInv, TypeOK, Streaming
  <1>2. ASSUME NEW i \in open, Commit(i) PROVE TypeInv'
    BY <1>2 DEF Commit, TypeInv, TypeOK, Streaming
  <1>3. ASSUME NEW i \in open, RollBack(i) PROVE TypeInv'
    BY <1>3 DEF RollBack, TypeInv, TypeOK, Streaming
  <1>4. CASE PollRead
    <2>1. hub.cursor \in Nat /\ Batch(hub.cursor) \in SUBSET outbox /\ Streaming # {}
      BY <1>4, HubTypes, HubFields, FirstHasNoGap, Sizes DEF Batch, PollRead
    <2> QED
      BY <1>4, <2>1 DEF PollRead, TypeInv, TypeOK, Streaming
  <1>5. CASE PollPublish
    <2>1. fetched \in SUBSET Rows
      BY DEF TypeInv, TypeOK
    <2>2. hub' \in Hubs(Streaming) /\ Behind(hub')
      BY <1>5, <2>1, HubTypes, PublishTypes DEF PollPublish
    <2> QED
      BY <1>5, <2>2 DEF PollPublish, TypeInv, TypeOK, Streaming
  <1>6. ASSUME NEW c \in Clients, Recover(c) PROVE TypeInv'
    <2>1. Streaming' = Streaming
      BY <1>6 DEF Recover, TypeInv, TypeOK, Streaming
    <2>2. Max({at[c], Latest}) \in 0 .. MaxRows
      BY HubTypes, LatestAndOwn
    <2>3. /\ tab' \in [Clients -> {"away", "recovered", "streaming"}]
          /\ at' \in [Clients -> 0 .. MaxRows]
          /\ stale' \in [Clients -> SUBSET outbox]
      BY <1>6, <2>2 DEF Recover, TypeInv, TypeOK, Refetched
    <2> QED
      BY <1>6, <2>1, <2>3 DEF Recover, TypeInv, TypeOK, Streaming
  <1>7. ASSUME NEW c \in Clients, Take(c) PROVE TypeInv'
    <2>1. Streaming' = Streaming /\ c \in Streaming
      BY <1>7 DEF Take, Streaming
    <2>2. hub' \in Hubs(Streaming) /\ Behind(hub')
      BY <1>7, <2>1, HubTypes, TakenTypes DEF Take
    <2>3. Head(hub.queue[c]) \in Frames
      BY <1>7, <2>1, HubTypes, HubFields, HeadTailProperties DEF Take
    <2>4. Head(hub.queue[c]).cursor \in 0 .. MaxRows
      BY <2>3, FrameFields
    <2>5. at' \in [Clients -> 0 .. MaxRows] /\ stale' \in [Clients -> SUBSET outbox]
      BY <1>7, <2>4 DEF Take, TypeInv, TypeOK, Refetched
    <2> QED
      BY <1>7, <2>1, <2>2, <2>5 DEF Take, TypeInv, TypeOK, Streaming
  <1>8. ASSUME NEW c \in Clients, Leave(c) PROVE TypeInv'
    <2>1. listening' \in BOOLEAN /\ polling' \in BOOLEAN /\ fetched' \subseteq outbox
      BY <1>8 DEF Leave, TypeInv, TypeOK
    <2>2. tab' \in [Clients -> {"away", "recovered", "streaming"}]
      BY <1>8 DEF Leave, TypeInv, TypeOK
    <2> QED
      BY <1>8, <2>1, <2>2, LeaveTypes DEF Leave, TypeInv, TypeOK, Streaming
  <1>9. ASSUME NEW c \in Clients, NEW answered \in BOOLEAN, Open(c, FALSE, answered) PROVE TypeInv'
    <2>1. tab' \in [Clients -> {"away", "recovered", "streaming"}] /\ polling' \in BOOLEAN
      BY <1>9 DEF Open, TypeInv, TypeOK
    <2> QED
      BY <1>9, <2>1, OpenTypes DEF Open, TypeInv, TypeOK, Streaming
  <1>10. CASE UNCHANGED vars
    BY <1>10 DEF vars, TypeInv, TypeOK, Streaming
  <1> QED
    BY <1>1, <1>2, <1>3, <1>4, <1>5, <1>6, <1>7, <1>8, <1>9, <1>10
       DEF Next, Transactions, Poll, Tab

\* Every queue, history and cursor stays within its bounds, whatever connects,
\* leaves, overflows or is replayed.
THEOREM TypeCorrectness == Spec => []TypeOK
  <1>1. TypeInv => TypeOK
    BY DEF TypeInv
  <1> QED
    BY <1>1, TypeInit, TypeStep, PTL DEF Spec

-----------------------------------------------------------------------------
(* Delivery.                                                                 *)

\* What is settled stays settled below it.
LEMMA SettledBelow ==
  ASSUME TypeInv, NEW k \in Nat, Settled(k), NEW j \in Nat, j <= k
  PROVE  Settled(j)
  <1>1. last \in Nat /\ \A i \in open : i \in Nat
    BY Sizes DEF TypeInv, TypeOK, Rows
  <1> QED
    BY <1>1 DEF Settled

\* Nothing is below the cursor of a hub that was never set.
LEMMA ZeroSettled ==
  ASSUME TypeInv
  PROVE  Settled(0)
  BY Sizes DEF Settled, TypeInv, TypeOK, Rows

\* What a tab does not show is a committed row.
LEMMA StaleRows ==
  ASSUME TypeInv, NEW c \in Clients, NEW i \in stale[c]
  PROVE  i \in outbox /\ i \in Rows /\ i \in Nat
  <1>1. i \in outbox /\ outbox \subseteq Rows
    BY DEF TypeInv, TypeOK
  <1> QED
    BY <1>1, Sizes DEF Rows

\* A queue without its head tells of what the head did not.
LEMMA TailTells ==
  ASSUME NEW q \in Seq(Frames), q # << >>, NEW i \in Rows, Tells(q, i),
         Head(q).cursor < i \/ Head(q).domain # Domains[1]
  PROVE  Tells(Tail(q), i) /\ Head(q).cursor < i
  <1>1. PICK n \in 1 .. Len(q) :
          /\ q[n].domain = Domains[1]
          /\ i <= q[n].cursor
          /\ \A m \in 1 .. Len(q) : m < n => q[m].cursor < i
    BY DEF Tells
  <1>2. /\ Len(q) \in Nat /\ Head(q) = q[1]
        /\ Len(Tail(q)) = Len(q) - 1
        /\ \A m \in 1 .. Len(Tail(q)) : Tail(q)[m] = q[m + 1]
    BY HeadTailProperties, LenProperties
  <1>3. i \in Nat /\ q[n].cursor \in Nat
    BY ElementOfSeq, FrameFields, Sizes DEF Rows
  <1>4. n # 1
    BY <1>1, <1>2, <1>3
  <1>5. n - 1 \in 1 .. Len(Tail(q)) /\ (n - 1) + 1 = n /\ 1 \in 1 .. Len(q) /\ 1 < n
    BY <1>2, <1>4
  <1>6. \A m \in 1 .. Len(Tail(q)) : m < n - 1 => Tail(q)[m].cursor < i
    BY <1>1, <1>2, <1>5
  <1>7. Tail(q)[n - 1] = q[n]
    BY <1>2, <1>5
  <1> QED
    BY <1>1, <1>2, <1>5, <1>6, <1>7 DEF Tells

\* Transactions: what is committed is past every cursor, for ids are committed in
\* their order.
LEMMA DeliveryTransactions ==
  ASSUME ~ Interleaved, TypeInv, Delivery, Transactions
  PROVE  Delivery'
  <1> USE DEF tables, server, browsers
  <1>1. /\ last \in Nat /\ \A i \in open \cup outbox : i \in Nat
        /\ hub.cursor \in Nat /\ \A c \in Clients : at[c] \in Nat
    BY HubTypes, HubFields, Sizes DEF TypeInv, TypeOK, Rows
  <1>2. CASE Insert
    <2>1. Committed'
      BY <1>1, <1>2 DEF Insert, Delivery, Committed, Settled
    <2> QED
      BY <1>2, <2>1 DEF Insert, Delivery, Begun, Follow, Owed, Streaming, LeadingDomainMissesNothing
  <1>3. ASSUME NEW i \in open, Commit(i) PROVE Delivery'
    <2>1. \A j \in open : i <= j
      BY <1>3 DEF Commit
    <2>2. hub.cursor < i /\ \A c \in Clients : at[c] < i
      BY DEF Delivery, Committed, Settled
    <2>3. \A j \in outbox : j < i
      BY DEF Delivery, Committed, Settled
    <2>4. Committed'
      BY <1>1, <1>3, <2>1 DEF Commit, Delivery, Committed, Settled
    <2>5. Begun'
      BY <1>3 DEF Commit, Delivery, Begun
    <2>6. Follow(fetched, hub.cursor)'
      <3>1. \A j \in fetched : j \in outbox
        BY DEF TypeInv, TypeOK
      <3> QED
        BY <1>1, <1>3, <2>3, <3>1 DEF Commit, Delivery, Follow
    <2>7. Remembers(hub, outbox)'
      BY <1>1, <1>3, <2>2 DEF Commit, Delivery, Remembers
    <2>8. Owed'
      BY <1>1, <1>3, <2>2, Sizes DEF Commit, Delivery, Owed, Streaming
    <2>9. LeadingDomainMissesNothing'
      BY <1>1, <1>3, <2>2 DEF Commit, Delivery, LeadingDomainMissesNothing
    <2> QED
      BY <2>4, <2>5, <2>6, <2>7, <2>8, <2>9 DEF Delivery
  <1>4. ASSUME NEW i \in open, RollBack(i) PROVE Delivery'
    <2>1. Committed'
      BY <1>4 DEF RollBack, Delivery, Committed, Settled
    <2> QED
      BY <1>4, <2>1 DEF RollBack, Delivery, Begun, Follow, Owed, Streaming, LeadingDomainMissesNothing
  <1> QED
    BY <1>2, <1>3, <1>4 DEF Transactions

\* The poll: a batch has no gap, so whatever the hub passes it has queued.
LEMMA DeliveryPoll ==
  ASSUME TypeInv, Delivery, Poll
  PROVE  Delivery'
  <1> USE DEF tables, server, browsers
  <1>1. hub \in Hubs(Streaming) /\ Behind(hub) /\ outbox \subseteq Rows /\ hub.cursor \in Nat
    BY HubTypes, HubFields
  <1>2. CASE PollRead
    <2>1. Follow(fetched, hub.cursor)'
      <3>1. Follow(Batch(hub.cursor), hub.cursor)
        BY <1>1, FirstHasNoGap, Sizes DEF Batch
      <3> QED
        BY <1>2, <3>1 DEF PollRead, Follow
    <2> QED
      BY <1>2, <2>1 DEF PollRead, Delivery, Committed, Settled, Begun, Owed, Streaming,
                        LeadingDomainMissesNothing
  <1>3. CASE PollPublish
    <2> DEFINE p == Publish(hub, fetched)
    <2>1. fetched \in SUBSET outbox /\ \A c \in Clients : stale[c] \subseteq outbox
      BY DEF TypeInv, TypeOK
    <2>2. /\ p.cursor = hub.cursor \/ p.cursor \in fetched
          /\ Remembers(p, outbox)
          /\ \A c \in Streaming : \A j \in outbox :
               Leading(j) /\ (Tells(hub.queue[c], j) \/ (hub.cursor < j /\ j <= p.cursor)) =>
                 Tells(p.queue[c], j)
      BY <1>1, <2>1, PublishTells DEF Delivery
    <2>3. p.cursor \in Nat
      BY <1>1, <2>1, PublishTypes, HubFields
    <2> HIDE DEF p
    <2>4. hub' = p /\ fetched' = {} /\ UNCHANGED <<last, open, outbox, tab, at, stale>>
      BY <1>3 DEF PollPublish, p
    <2>5. Owed'
      <3> SUFFICES ASSUME NEW c \in Streaming, NEW i \in stale[c], Leading(i)
                   PROVE  i > p.cursor \/ Tells(p.queue[c], i)
        BY <2>4 DEF Owed, Streaming
      <3>1. c \in Clients /\ i \in outbox /\ i \in Nat
        BY StaleRows DEF Streaming
      <3>2. i > hub.cursor \/ Tells(hub.queue[c], i)
        BY DEF Delivery, Owed
      <3> QED
        BY <1>1, <2>2, <2>3, <3>1, <3>2
    <2>6. Committed'
      BY <2>1, <2>2, <2>4 DEF Delivery, Committed, Settled
    <2> QED
      BY <2>2, <2>4, <2>5, <2>6 DEF Delivery, Begun, Follow, LeadingDomainMissesNothing
  <1> QED
    BY <1>2, <1>3 DEF Poll

\* A recovery: its page is all there is, or everything is fetched.
LEMMA DeliveryRecover ==
  ASSUME TypeInv, Delivery, NEW c \in Clients, Recover(c)
  PROVE  Delivery'
  <1> USE DEF tables, server, browsers
  <1>1. /\ c \notin Streaming /\ Streaming' = Streaming
        /\ UNCHANGED <<last, open, outbox, hub, fetched>>
    BY DEF Recover, TypeInv, TypeOK, Streaming
  <1>2. /\ stale' = [stale EXCEPT ![c] = Refetched(c, RecoveryDomains(at[c]))]
        /\ at' = [at EXCEPT ![c] = Max({at[c], Latest})]
        /\ \A x \in Clients \ {c} : stale'[x] = stale[x] /\ at'[x] = at[x] /\ tab'[x] = tab[x]
        /\ at'[c] = Max({at[c], Latest})
    BY DEF Recover, TypeInv, TypeOK
  <1>3. stale'[c] = Refetched(c, RecoveryDomains(at[c]))
    BY <1>2 DEF TypeInv, TypeOK
  <1>4. ASSUME NEW i \in stale'[c], Leading(i) PROVE FALSE
    <2>1. i \in stale[c] /\ DomainOf[i] \notin RecoveryDomains(at[c])
      BY <1>3, <1>4 DEF Refetched
    <2>2. i \in outbox /\ i \in Rows /\ DomainOf[i] \in Range(Domains)
      BY <2>1, StaleRows, RowsAssumption
    <2>3. i > at[c]
      BY <1>4, <2>1 DEF Delivery, LeadingDomainMissesNothing
    <2>4. i \in Newer(at[c])
      BY <2>2, <2>3 DEF Newer
    <2> QED
      BY <2>1, <2>2, <2>4 DEF RecoveryDomains
  <1>5. /\ at[c] \in 0 .. MaxRows /\ at[c] \in Nat /\ outbox \subseteq Rows
        /\ Max({at[c], Latest}) \in {at[c], Latest} /\ Latest <= Max({at[c], Latest})
        /\ Max({at[c], Latest}) \in Nat
        /\ Latest \in Nat /\ Latest \in outbox \cup {0} /\ \A i \in outbox : i <= Latest
    BY HubTypes, LatestAndOwn, LatestIsLatest
  <1>6. Committed'
    <2>1. Settled(Latest) /\ Settled(at[c])
      BY <1>5, ZeroSettled DEF Delivery, Committed
    <2>2. Settled(at'[c])
      BY <1>2, <1>5, <2>1
    <2> QED
      BY <1>1, <1>2, <2>2 DEF Delivery, Committed, Settled
  <1>7. Begun'
    <2>1. PICK i \in outbox : TRUE
      BY DEF Delivery, Begun
    <2>2. i >= 1 /\ i \in Nat
      BY <1>5, Sizes DEF Rows
    <2>3. at'[c] > 0
      BY <1>2, <1>5, <2>2
    <2> QED
      BY <1>1, <1>2, <2>3 DEF Delivery, Begun
  <1>8. Owed'
    BY <1>1, <1>2 DEF Delivery, Owed, Streaming
  <1>9. LeadingDomainMissesNothing'
    BY <1>2, <1>4 DEF Delivery, LeadingDomainMissesNothing
  <1> QED
    BY <1>1, <1>6, <1>7, <1>8, <1>9 DEF Delivery, Follow

\* A frame taken: of the leading domain it pays what is owed up to it, of another it
\* is older than what is owed.
LEMMA DeliveryTake ==
  ASSUME TypeInv, Delivery, NEW c \in Clients, Take(c)
  PROVE  Delivery'
  <1> DEFINE q == hub.queue[c]
             f == Head(q)
  <1> USE DEF tables, server, browsers
  <1>1. c \in Streaming /\ q # << >> /\ UNCHANGED <<last, open, outbox, fetched, tab>>
    BY DEF Take, Streaming
  <1>2. hub \in Hubs(Streaming) /\ Behind(hub) /\ hub.cursor \in Nat /\ at[c] \in Nat
    BY HubTypes, HubFields
  <1>3. /\ q \in Seq(Frames) /\ f \in Frames /\ f.cursor \in Nat /\ f.cursor >= 1 /\ f.cursor <= hub.cursor
    <2>1. q \in Seq(Frames) /\ Len(q) \in Nat /\ UpTo(q, hub.cursor)
      BY <1>1, <1>2, HubFields DEF Behind
    <2>2. 1 \in 1 .. Len(q) /\ f = q[1] /\ f \in Frames
      BY <1>1, <2>1, HeadTailProperties
    <2> QED
      BY <2>1, <2>2, FrameFields DEF UpTo
  <1>4. /\ hub'.cursor = hub.cursor /\ hub'.floor = hub.floor /\ hub'.history = hub.history
        /\ hub'.queue[c] = Tail(q) /\ \A x \in Streaming \ {c} : hub'.queue[x] = hub.queue[x]
    BY <1>1, <1>2, TakenTypes DEF Take
  <1>5. IF f.cursor <= at[c] THEN at' = at /\ stale' = stale
        ELSE /\ at' = [at EXCEPT ![c] = f.cursor]
             /\ stale' = [stale EXCEPT ![c] = Refetched(c, {f.domain})]
    BY DEF Take
  <1> HIDE DEF q, f
  <1>6. /\ \A x \in Clients \ {c} : at'[x] = at[x] /\ stale'[x] = stale[x]
        /\ at'[c] = IF f.cursor <= at[c] THEN at[c] ELSE f.cursor
        /\ stale'[c] = IF f.cursor <= at[c] THEN stale[c] ELSE Refetched(c, {f.domain})
    BY <1>5 DEF TypeInv, TypeOK
  <1>7. ASSUME NEW i \in stale'[c], Leading(i)
        PROVE  /\ i > at'[c]
               /\ i > hub.cursor \/ Tells(Tail(q), i)
    <2>1. i \in stale[c]
      BY <1>6 DEF Refetched
    <2>2. i \in Rows /\ i \in Nat
      BY <2>1, StaleRows
    <2>3. i > at[c] /\ (i > hub.cursor \/ Tells(q, i))
      BY <1>1, <1>7, <2>1 DEF Delivery, LeadingDomainMissesNothing, Owed, q
    <2>4. CASE i > hub.cursor
      BY <1>2, <1>3, <1>6, <2>2, <2>3, <2>4
    <2>5. CASE Tells(q, i)
      <3>1. f.cursor < i \/ f.domain # Domains[1]
        <4>1. CASE f.cursor <= at[c]
          BY <1>2, <1>3, <2>2, <2>3, <4>1
        <4>2. CASE ~ f.cursor <= at[c]
          BY <1>6, <1>7, <4>2 DEF Refetched, Leading
        <4> QED
          BY <4>1, <4>2
      <3>2. Tells(Tail(q), i) /\ f.cursor < i
        BY <1>1, <1>3, <2>2, <2>5, <3>1, TailTells DEF f
      <3> QED
        BY <1>6, <2>3, <3>2
    <2> QED
      BY <2>3, <2>4, <2>5
  <1>8. Committed'
    <2>1. Settled(f.cursor) /\ Settled(at[c])
      BY <1>2, <1>3, SettledBelow DEF Delivery, Committed
    <2> QED
      BY <1>1, <1>4, <1>6, <2>1 DEF Delivery, Committed, Settled
  <1>9. Begun'
    BY <1>1, <1>3, <1>6 DEF Delivery, Begun
  <1>10. Owed'
    <2> SUFFICES ASSUME NEW x \in Streaming, NEW i \in stale'[x], Leading(i)
                 PROVE  i > hub.cursor \/ Tells(hub'.queue[x], i)
      BY <1>1, <1>4 DEF Owed, Streaming
    <2>1. CASE x = c
      BY <1>4, <1>7, <2>1
    <2>2. CASE x # c
      BY <1>4, <1>6, <2>2 DEF Delivery, Owed, Streaming
    <2> QED
      BY <2>1, <2>2
  <1>11. LeadingDomainMissesNothing'
    BY <1>6, <1>7 DEF Delivery, LeadingDomainMissesNothing
  <1>12. Remembers(hub, outbox)' /\ Follow(fetched, hub.cursor)'
    BY <1>1, <1>4 DEF Delivery, Remembers, Follow
  <1> QED
    BY <1>8, <1>9, <1>10, <1>11, <1>12 DEF Delivery

\* A tab that leaves: what was queued for it, the recovery will tell.
LEMMA DeliveryLeave ==
  ASSUME TypeInv, Delivery, NEW c \in Clients, Leave(c)
  PROVE  Delivery'
  <1> USE DEF tables, server, browsers
  <1>1. UNCHANGED <<last, open, outbox, at, stale>> /\ tab' = [tab EXCEPT ![c] = "away"]
    BY DEF Leave
  <1>2. Begun'
    BY <1>1 DEF Delivery, Begun, TypeInv, TypeOK
  <1>3. LeadingDomainMissesNothing'
    BY <1>1 DEF Delivery, LeadingDomainMissesNothing
  <1>4. CASE Streaming' = {}
    <2>1. fetched' = {} /\ hub' = NoHub
      <3>1. Subscribers = {c}
        BY <1>4, LeaveTypes, HubTypes
      <3> QED
        BY <3>1 DEF Leave
    <2>2. Committed'
      BY <1>1, <2>1, ZeroSettled DEF Delivery, Committed, Settled, NoHub
    <2>3. Remembers(hub, outbox)'
      <3>1. \A i \in outbox : i \in Nat /\ i >= 1
        BY HubTypes, Sizes DEF Rows
      <3> QED
        BY <1>1, <2>1, <3>1 DEF Remembers, NoHub
    <2> QED
      BY <1>2, <1>3, <1>4, <2>1, <2>2, <2>3 DEF Delivery, Follow, Owed
  <1>5. CASE Streaming' # {}
    <2>1. /\ Streaming' \in SUBSET Streaming /\ fetched' = fetched
          /\ hub' = [hub EXCEPT !.queue = Restrict(@, Streaming')]
      BY <1>5, LeaveTypes
    <2>2. /\ hub'.cursor = hub.cursor /\ hub'.floor = hub.floor /\ hub'.history = hub.history
          /\ \A x \in Streaming' : hub'.queue[x] = hub.queue[x]
      <3>1. PICK R \in SUBSET Streaming : R = Streaming'
        BY <2>1
      <3>2. hub \in Hubs(Streaming) /\ Behind(hub)
        BY HubTypes
      <3> DEFINE j == [hub EXCEPT !.queue = Restrict(@, R)]
      <3>3. /\ j \in Hubs(R)
            /\ j.cursor = hub.cursor /\ j.floor = hub.floor /\ j.history = hub.history
            /\ \A x \in R : j.queue[x] = hub.queue[x]
        BY ONLY <3>1, <3>2, RestrictedTypes
      <3>4. hub' = j
        BY <2>1, <3>1
      <3> QED
        BY ONLY <3>1, <3>3, <3>4
    <2>3. Committed'
      BY <1>1, <2>2 DEF Delivery, Committed, Settled
    <2>4. Remembers(hub, outbox)' /\ Follow(fetched, hub.cursor)'
      BY <1>1, <2>1, <2>2 DEF Delivery, Remembers, Follow
    <2>5. Owed'
      BY <1>1, <2>1, <2>2 DEF Delivery, Owed
    <2> QED
      BY <1>2, <1>3, <2>3, <2>4, <2>5 DEF Delivery
  <1> QED
    BY <1>4, <1>5

\* A stream opened: the replay or the first batch begins where the tab is, and a
\* history that does not reach back so far is replaced by a reset.
LEMMA DeliveryOpen ==
  ASSUME TypeInv, Delivery, NEW c \in Clients, NEW up, NEW answered, Open(c, up, answered)
  PROVE  Delivery'
  <1> USE DEF tables, server, browsers
  <1>1. /\ UNCHANGED <<last, open, outbox, fetched, at, stale>>
        /\ tab[c] = "recovered" /\ tab' = [tab EXCEPT ![c] = "streaming"]
    BY DEF Open
  <1>2. /\ Streaming' = Streaming \cup {c} /\ c \notin Streaming
        /\ hub \in Hubs(Streaming) /\ Behind(hub) /\ hub.cursor \in Nat /\ hub.floor \in Nat
        /\ Subscribers = Streaming /\ outbox \subseteq Rows
        /\ at[c] \in Nat /\ at[c] \in 0 .. MaxRows /\ at[c] > 0
    BY <1>1, OpenTypes, HubTypes, HubFields DEF Delivery, Begun, Streaming
  <1>3. Begun'
    BY <1>1, <1>2 DEF Delivery, Begun, TypeInv, TypeOK
  <1>4. LeadingDomainMissesNothing'
    BY <1>1 DEF Delivery, LeadingDomainMissesNothing
  <1>5. \A i \in stale[c] : Leading(i) => i \in outbox /\ i \in Rows /\ i \in Nat /\ i > at[c]
    BY StaleRows DEF Delivery, LeadingDomainMissesNothing
  <1>6. CASE Subscribers # {}
    <2>1. hub' = Joined(c, Replayed(at[c]))
      BY <1>6 DEF Open
    <2>2. /\ hub'.cursor = hub.cursor /\ hub'.floor = hub.floor /\ hub'.history = hub.history
          /\ hub'.queue[c] = Replayed(at[c]) /\ \A x \in Streaming : hub'.queue[x] = hub.queue[x]
      <3> DEFINE r == Replayed(at[c])
                 j == Joined(c, r)
      <3>1. hub \in Hubs(Streaming) /\ c \notin Streaming
        BY <1>2
      <3> HIDE DEF r
      <3>2. /\ j = [cursor |-> hub.cursor, floor |-> hub.floor, history |-> hub.history, queue |-> j.queue]
            /\ j.queue[c] = r /\ \A x \in Streaming : j.queue[x] = hub.queue[x]
        <4> DEFINE X == [x \in Streaming \cup {c} |-> IF x = c THEN r ELSE hub.queue[x]]
        <4>1. j = [cursor |-> hub.cursor, floor |-> hub.floor, history |-> hub.history, queue |-> X]
          BY <3>1, JoinedHub
        <4> HIDE DEF j
        <4> QED
          BY ONLY <3>1, <4>1
      <3> HIDE DEF j
      <3>3. hub' = j
        BY <2>1 DEF j, r
      <3>4. j.cursor = hub.cursor /\ j.floor = hub.floor /\ j.history = hub.history
        BY ONLY <3>2
      <3> QED
        BY <3>2, <3>3, <3>4 DEF r
    <2>3. ASSUME NEW i \in stale[c], Leading(i), i <= hub.cursor
          PROVE  Tells(Replayed(at[c]), i)
      <3>1. i \in outbox /\ i \in Rows /\ i \in Nat /\ at[c] < i /\ ~ at[c] >= hub.cursor /\ at[c] # 0
        BY <1>2, <1>5, <2>3
      <3>2. CASE at[c] < hub.floor
        <4>1. hub.cursor \in Rows
          BY <1>2, <3>1, HubFields, Sizes DEF Rows
        <4>2. Tells(Resets(hub.cursor), i)
          BY <2>3, <3>1, <4>1, ResetsTell
        <4> QED
          BY <3>1, <3>2, <4>2 DEF Replayed
      <3>3. CASE ~ at[c] < hub.floor
        <4>1. hub.floor <= at[c] /\ Remembers(hub, outbox)
          BY <1>2, <3>3 DEF Delivery
        <4>2. Tells(Replay(at[c]), i)
          BY <1>2, <2>3, <3>1, <4>1, ReplayTells
        <4> QED
          BY <3>1, <3>3, <4>2 DEF Replayed
      <3> QED
        BY <3>2, <3>3
    <2>4. Owed'
      <3> SUFFICES ASSUME NEW x \in Streaming \cup {c}, NEW i \in stale[x], Leading(i)
                   PROVE  i > hub.cursor \/ Tells(hub'.queue[x], i)
        BY <1>1, <1>2, <2>2 DEF Owed
      <3>1. CASE x = c
        BY <1>2, <1>5, <2>2, <2>3, <3>1
      <3>2. CASE x # c
        BY <2>2, <3>2 DEF Delivery, Owed
      <3> QED
        BY <3>1, <3>2
    <2>5. Committed'
      BY <1>1, <2>2 DEF Delivery, Committed, Settled
    <2>6. Remembers(hub, outbox)' /\ Follow(fetched, hub.cursor)'
      BY <1>1, <2>2 DEF Delivery, Remembers, Follow
    <2> QED
      BY <1>3, <1>4, <2>4, <2>5, <2>6 DEF Delivery
  <1>7. CASE Subscribers = {}
    <2> DEFINE a == Alone(c, at[c])
               p == Publish(a, Batch(at[c]))
    <2>1. hub' = IF answered THEN p ELSE a
      BY <1>2, <1>7 DEF Open, Alone
    <2>2. /\ a \in Hubs({c}) /\ Behind(a) /\ a.cursor = at[c] /\ Remembers(a, outbox)
      BY <1>2, AloneTypes
    <2>3. /\ Batch(at[c]) \in SUBSET outbox
          /\ Follow(Batch(at[c]), a.cursor)
      BY <1>2, <2>2, FirstHasNoGap, Sizes DEF Batch
    <2>4. /\ p.cursor = at[c] \/ p.cursor \in outbox
          /\ Remembers(p, outbox)
          /\ \A j \in outbox : Leading(j) /\ at[c] < j /\ j <= p.cursor => Tells(p.queue[c], j)
      BY <1>2, <2>2, <2>3, PublishTells
    <2>5. p \in Hubs({c}) /\ p.cursor \in Nat
      BY <1>2, <2>2, <2>3, PublishTypes, HubFields
    <2> HIDE DEF a, p
    <2>6. Streaming' = {c} /\ fetched' = {}
      BY <1>1, <1>2, <1>7 DEF TypeInv
    <2>7. /\ hub'.cursor = at[c] \/ hub'.cursor \in outbox
          /\ hub'.cursor \in Nat
          /\ Remembers(hub', outbox)
          /\ \A j \in outbox : Leading(j) /\ at[c] < j /\ j <= hub'.cursor => Tells(hub'.queue[c], j)
      <3>1. CASE hub' = p
        BY <2>4, <2>5, <3>1
      <3>2. CASE hub' = a
        <4>1. \A j \in outbox : ~ (at[c] < j /\ j <= at[c])
          BY <1>2, Sizes DEF Rows
        <4> QED
          BY <1>2, <2>2, <3>2, <4>1
      <3> QED
        BY <2>1, <3>1, <3>2
    <2>8. Owed'
      <3> SUFFICES ASSUME NEW i \in stale[c], Leading(i)
                   PROVE  i > hub'.cursor \/ Tells(hub'.queue[c], i)
        BY <1>1, <2>6 DEF Owed
      <3> QED
        BY <1>5, <2>7
    <2>9. Committed'
      BY <1>1, <2>7 DEF Delivery, Committed, Settled
    <2> QED
      BY <1>1, <1>3, <1>4, <2>6, <2>7, <2>8, <2>9 DEF Delivery, Follow
  <1> QED
    BY <1>6, <1>7

\* The initial state: no tab has a cursor, and the rows committed before are settled.
LEMMA DeliveryInit ==
  ASSUME Earlier > 0, Init
  PROVE  Delivery
  <1>1. Earlier \in Nat /\ Earlier \in 1 .. Earlier
    BY Sizes, RowsAssumption
  <1>2. Streaming = {} /\ hub = NoHub
    BY DEF Init, Streaming
  <1>3. Committed
    BY <1>1, <1>2 DEF Init, Committed, Settled, NoHub
  <1>4. Begun
    BY <1>1 DEF Init, Begun
  <1>5. Remembers(hub, outbox)
    BY <1>1, <1>2 DEF Init, NoHub, Remembers
  <1> QED
    BY <1>2, <1>3, <1>4, <1>5 DEF Init, Delivery, Follow, Owed, LeadingDomainMissesNothing

\* Every step keeps what the hub, the queues and the tabs owe each other.
LEMMA DeliveryStep ==
  ASSUME ~ Interleaved
  PROVE  TypeInv /\ Delivery /\ [Next]_vars => Delivery'
  <1>1. Delivery /\ UNCHANGED vars => Delivery'
    BY DEF vars, Delivery, Committed, Settled, Begun, Follow, Remembers, Owed, Streaming,
           LeadingDomainMissesNothing
  <1> QED
    BY <1>1, DeliveryTransactions, DeliveryPoll, DeliveryRecover, DeliveryTake, DeliveryLeave, DeliveryOpen
       DEF Next, Tab

\* Where transactions commit in the order of their ids and the outbox is not empty
\* when the first tab recovers, no tab's cursor ever passes a change of the leading
\* domain which the tab does not show: not by a replay, a reset, a batch that was
\* cut, a queue that overflowed, a recovery or a lost connection.
THEOREM NoLeadingChangeIsPassed ==
  ASSUME ~ Interleaved, Earlier > 0
  PROVE  Spec => []LeadingDomainMissesNothing
  <1>1. Init => TypeInv /\ Delivery
    BY TypeInit, DeliveryInit
  <1>2. TypeInv /\ Delivery /\ [Next]_vars => (TypeInv /\ Delivery)'
    BY TypeStep, DeliveryStep
  <1>3. Delivery => LeadingDomainMissesNothing
    BY DEF Delivery
  <1> QED
    BY <1>1, <1>2, <1>3, PTL DEF Spec

\* So where there is one domain nothing at all is passed.
THEOREM OneDomainMissesNothing ==
  ASSUME ~ Interleaved, Earlier > 0, Len(Domains) = 1
  PROVE  Spec => []NothingMissed
  <1>1. TypeOK /\ LeadingDomainMissesNothing => NothingMissed
    <2> SUFFICES ASSUME TypeOK, LeadingDomainMissesNothing, NEW c \in Clients, NEW i \in stale[c]
                 PROVE  i > at[c]
      BY DEF NothingMissed
    <2>1. i \in Rows
      BY DEF TypeOK
    <2>2. DomainOf[i] \in Range(Domains)
      BY <2>1, RowsAssumption
    <2>3. Leading(i)
      BY <2>2, Sizes DEF Leading
    <2> QED
      BY <2>3 DEF LeadingDomainMissesNothing
  <1> QED
    BY <1>1, TypeCorrectness, NoLeadingChangeIsPassed, PTL
=============================================================================
