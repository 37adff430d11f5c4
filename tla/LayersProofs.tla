---------------------------- MODULE LayersProofs ----------------------------
(***************************************************************************)
(* That a frame that composites a layer shows what building its content    *)
(* would, but for the two changes CompositedIsCurrent names, that scrolls  *)
(* alone are composited, and that input finds the content prepainted where *)
(* it shows, for any models, readers, offsets and extents, and any number  *)
(* of events between frames.                                               *)
(*                                                                         *)
(* What is composited was carried by the last frame, so all that spoiled   *)
(* the record since came by events the frame can still see: Noticed says,  *)
(* for each thing the pixels are made of, where its change is seen.        *)
(***************************************************************************)
EXTENDS Layers, TLAPS

Records == [at : OFFSETS, changed : SUBSET Shapes, unheard : SUBSET Entities,
            reads : SUBSET Entities]

\* The types that matter, and a record is kept only with the layer it is of.
Shape ==
  /\ reads \in READERS /\ offset \in OFFSETS
  /\ notifies \in Nat /\ events \in Nat
  /\ scrolls \in [notifies : Nat, nested : BOOLEAN, set : Nat]
  /\ input \in [stale : BOOLEAN, rebuild : BOOLEAN, carried : BOOLEAN]
  /\ child \in [retained : BOOLEAN, changed : SUBSET Entities]
  /\ shown \in [at : OFFSETS, offset : OFFSETS]
  /\ record # None => layered /\ record \in Records

\* The changes to what the child reads that the record's dependencies and the owner's do not
\* name, and that are not among the unheard.
ChildsOwn(r) == (r.changed \cap reads.child) \ (r.unheard \cup reads.owner \cup r.reads)

Noticed ==
  record # None /\ input.carried =>
    /\ ~child.retained /\ record.at = shown.at
    /\ notifies >= scrolls.notifies + scrolls.set
    /\ Owner \in record.changed \ record.unheard => notifies > scrolls.notifies + scrolls.set
    /\ Child \in record.changed \/ ChildsOwn(record) # {} => Child \in notified
    /\ record.changed \cap reads.owner \subseteq own
    /\ reads.content \subseteq record.reads
    /\ Nested \in record.changed => scrolls.nested

\* While there were only scrolls, the frame to come finds nothing else.
OnlyScrolled ==
  record # None /\ input.carried /\ pure /\ ~reads.offset =>
    /\ record.changed \cap ({Hover} \cup record.reads) = {}
    /\ ~scrolls.nested /\ own = {} /\ child.changed = {}
    /\ notified \subseteq {Owner} /\ notifies = scrolls.notifies + scrolls.set

\* A frame that has looked at the layer leaves nothing changed but what went unheard.
Settled(r) ==
  /\ r.changed \subseteq r.unheard
  /\ r.changed \cap ({Child, Nested, Hover} \cup reads.owner \cup r.reads) = {}

LayersInv == Shape /\ Noticed /\ MovedIsStale /\ OnlyScrolled

----------------------------------------------------------------------------
\* Facts about the constants and the geometry.

\* What reads what is sets of models, and no model is a view, a container or the hover.
LEMMA Readers ==
  ASSUME reads \in READERS
  PROVE  /\ reads.owner \subseteq MODELS /\ reads.child \subseteq MODELS
         /\ reads.content \subseteq MODELS /\ reads.offset \in BOOLEAN
         /\ MODELS \cap {Owner, Child, Nested, Hover, "offset"} = {}
BY Zenon, LayersAssumption

\* The larger and the smaller of two numbers.
LEMMA OfTwo ==
  ASSUME NEW x \in Int, NEW y \in Int
  PROVE  /\ Max({x, y}) = IF x >= y THEN x ELSE y
         /\ Min({x, y}) = IF x <= y THEN x ELSE y
<1>1. CASE x >= y
  BY <1>1 DEF Max, Min
<1>2. CASE x < y
  BY <1>2 DEF Max, Min
<1> QED
  BY <1>1, <1>2

\* What covers holds is painted: the viewport is within the region.
LEMMA Covered ==
  ASSUME NEW r, r.at \in OFFSETS, NEW at \in OFFSETS, covers(r, at)
  PROVE  /\ painted_region(r.at).low <= at
         /\ at + EXTENT <= painted_region(r.at).high
<1> DEFINE region == painted_region(r.at)
           margin == IF region.high - region.low > EXTENT THEN EXTENT \div 4 ELSE 0
<1>1. /\ EXTENT \in Nat /\ CONTENT \in Nat /\ at \in Nat /\ at + EXTENT <= CONTENT /\ r.at \in Nat
  <2>1. at \in 0..(CONTENT - EXTENT) /\ r.at \in 0..(CONTENT - EXTENT)
    BY Zenon, LayersAssumption
  <2>2. EXTENT \in Nat /\ CONTENT \in Nat
    BY Zenon, LayersAssumption
  <2> QED
    BY <2>1, <2>2
<1>2. /\ region.low = Max({r.at - 2 * EXTENT, 0})
      /\ region.high = Min({r.at + 3 * EXTENT, CONTENT})
  BY Zenon DEF painted_region
<1>3. region.low \in Int /\ region.high \in Int
  <2>1. r.at - 2 * EXTENT \in Int /\ r.at + 3 * EXTENT \in Int /\ 0 \in Int /\ CONTENT \in Int
    BY <1>1
  <2>2. Max({r.at - 2 * EXTENT, 0}) \in Int
    BY <2>1, OfTwo, Zenon
  <2>3. Min({r.at + 3 * EXTENT, CONTENT}) \in Int
    BY <2>1, OfTwo, Zenon
  <2> QED
    BY Zenon, <1>2, <2>2, <2>3
<1>4. EXTENT \div 4 \in Nat
  BY <1>1
<1>5. margin \in Nat
  BY Zenon, <1>4
<1>6. /\ Max({at - margin, 0}) >= region.low
      /\ Min({at + EXTENT + margin, CONTENT}) <= region.high
  BY Zenon DEF covers
<1> HIDE DEF region, margin
<1>7. at - margin \in Int /\ at + EXTENT + margin \in Int /\ 0 \in Int /\ CONTENT \in Int
  BY <1>1, <1>5
<1>8. /\ Max({at - margin, 0}) = IF at - margin >= 0 THEN at - margin ELSE 0
      /\ Min({at + EXTENT + margin, CONTENT})
           = IF at + EXTENT + margin <= CONTENT THEN at + EXTENT + margin ELSE CONTENT
  BY Zenon, <1>7, OfTwo
<1>9. region.low <= at
  BY <1>1, <1>3, <1>5, <1>6, <1>8
<1>10. at + EXTENT <= region.high
  BY <1>1, <1>3, <1>5, <1>6, <1>8
<1> QED
  BY Zenon, <1>9, <1>10 DEF region

\* What a frame that composites has found: nothing it can see spoiled the record.
LEMMA CompositeMeans ==
  ASSUME LayersInv, NEW standing, NEW rebuild \in BOOLEAN,
         input_decide(policy_decide(standing), rebuild) = "Composite"
  PROVE  /\ record # None /\ input.carried /\ layered
         /\ Settled(record) /\ ShownWasPainted
<1> USE DEF LayersInv
<1>1. input.carried /\ policy_decide(standing) = "Composite"
  BY Zenon DEF input_decide
<1>2. record # None /\ scroll_only(record) /\ covers(record, offset)
  BY Zenon, <1>1 DEF policy_decide
<1>3. layered /\ record.at \in OFFSETS /\ offset \in OFFSETS /\ record.changed \subseteq Shapes
  BY Zenon, <1>2 DEF Shape, Records
<1>4. Owner \notin record.changed \ record.unheard
  BY Zenon, <1>1, <1>2, <1>3 DEF Noticed, Shape, scroll_only, owner_scrolled_only, owner_notified_otherwise
<1>5. Child \notin record.changed /\ ChildsOwn(record) = {}
  BY Zenon, <1>1, <1>2 DEF Noticed, scroll_only, content_view_notified
<1>6. Nested \notin record.changed /\ Hover \notin record.changed
  BY Zenon, <1>1, <1>2 DEF Noticed, scroll_only
<1>7. record.changed \cap reads.owner = {}
  BY Zenon, <1>1, <1>2 DEF Noticed, scroll_only, owner_scrolled_only
<1>8. record.changed \cap record.reads = {} /\ reads.content \subseteq record.reads
  BY Zenon, <1>1, <1>2 DEF Noticed, scroll_only, changed
<1>9. ~reads.offset
  BY Zenon, <1>2 DEF scroll_only, owner_scrolled_only
<1>10. record.changed \cap reads.child \subseteq record.unheard
  BY Zenon, <1>5, <1>7, <1>8 DEF ChildsOwn
<1>11. record.changed \subseteq record.unheard
  BY Zenon, <1>3, <1>4, <1>5, <1>6, <1>7, <1>8, <1>9, <1>10 DEF Shapes
<1>12. Settled(record)
  BY Zenon, <1>5, <1>6, <1>7, <1>8, <1>11 DEF Settled
<1>13. ShownWasPainted
  BY Zenon, <1>2, <1>3, Covered DEF ShownWasPainted
<1> QED
  BY Zenon, <1>1, <1>2, <1>3, <1>12, <1>13

----------------------------------------------------------------------------
\* Events.  The entities `what` change and the owner is notified `n` times; of those
\* notifications `k` are put down to scrolls; the record is spoiled by `parts`.

\* What an event does to a record.
Marked(what, parts) ==
  /\ record # None /\ record' \in Records /\ record'.reads = record.reads /\ record'.at = record.at
  /\ record'.changed \subseteq record.changed \cup parts
  /\ record.unheard \cup Unnoted(record, what) \subseteq record'.unheard

EventOf(what, n, k, parts) ==
  /\ Event /\ Change(what, n)
  /\ offset' \in OFFSETS
  /\ scrolls' \in [notifies : Nat, nested : BOOLEAN, set : Nat]
  /\ scrolls'.notifies + scrolls'.set = scrolls.notifies + scrolls.set + k
  /\ scrolls.nested \/ Nested \in parts => scrolls'.nested
  /\ record' # None => Marked(what, parts)
  /\ parts \subseteq what \cup {Nested, Hover, "offset"}
  /\ UNCHANGED <<reads, layered, input, decision, shown>>

\* An event that puts no more down to scrolls than the owner was notified, and less if it
\* changed the owner and that is to be heard, keeps what the next frame relies on.
LEMMA EventStep ==
  ASSUME LayersInv, NEW what \in SUBSET Entities, NEW n \in Nat, NEW k \in Nat, NEW parts,
         EventOf(what, n, k, parts),
         layered => k <= n,
         layered /\ Owner \in what /\ k >= n => (record' # None => Owner \in record'.unheard)
  PROVE  Shape' /\ Noticed' /\ MovedIsStale'
<1> USE DEF LayersInv
<1>1. /\ reads \in READERS /\ notifies \in Nat /\ events \in Nat
      /\ scrolls \in [notifies : Nat, nested : BOOLEAN, set : Nat]
      /\ child \in [retained : BOOLEAN, changed : SUBSET Entities]
      /\ record # None => layered /\ record \in Records
  BY Zenon DEF Shape
<1>2. /\ notifies' = IF layered THEN notifies + n ELSE notifies
      /\ own' = own \cup (what \cap MODELS)
      /\ notified' = notified \cup Heard(what \cup IF n > 0 THEN {Owner} ELSE {})
  BY Zenon DEF EventOf, Change, note_notify
<1>3. events' = events + 1
  BY Zenon DEF EventOf, Event
<1>4. UNCHANGED <<reads, layered, input, decision, shown>> /\ Records' = Records
  BY Zenon DEF EventOf, Shapes, Records
<1>5. Shape'
  <2>1. notifies' \in Nat /\ events' \in Nat
    BY <1>1, <1>2, <1>3
  <2>2. offset' \in OFFSETS /\ scrolls' \in [notifies : Nat, nested : BOOLEAN, set : Nat]
        /\ (record' # None => record # None /\ record' \in Records)
    BY Zenon DEF EventOf, Marked
  <2>3. child' \in [retained : BOOLEAN, changed : SUBSET Entities]
    <3>1. what \cap ({Child} \cup reads.child) \subseteq Entities
      BY Zenon
    <3> QED
      BY Zenon, <1>1, <3>1 DEF EventOf, Change
  <2> QED
    BY Zenon, <1>1, <1>4, <2>1, <2>2, <2>3 DEF Shape
<1>6. MovedIsStale'
  BY Zenon, <1>4 DEF MovedIsStale
<1>7. ASSUME record' # None, input'.carried PROVE Noticed'
  <2>1. /\ record # None /\ input.carried /\ layered /\ Marked(what, parts)
        /\ parts \subseteq what \cup {Nested, Hover, "offset"}
    BY Zenon, <1>1, <1>4, <1>7 DEF EventOf, Marked
  <2>2. /\ ~child.retained /\ record.at = shown.at
        /\ notifies >= scrolls.notifies + scrolls.set
        /\ Owner \in record.changed \ record.unheard => notifies > scrolls.notifies + scrolls.set
        /\ Child \in record.changed \/ ChildsOwn(record) # {} => Child \in notified
        /\ record.changed \cap reads.owner \subseteq own
        /\ reads.content \subseteq record.reads
        /\ Nested \in record.changed => scrolls.nested
    BY Zenon, <2>1 DEF Noticed
  <2>3. /\ scrolls'.notifies + scrolls'.set = scrolls.notifies + scrolls.set + k
        /\ scrolls.notifies + scrolls.set \in Nat
        /\ scrolls.nested \/ Nested \in parts => scrolls'.nested
    BY <1>1 DEF EventOf
  <2>4. notifies' = notifies + n /\ k <= n
        /\ (Owner \in what /\ Owner \notin record'.unheard => ~(k >= n))
    BY Zenon, <1>2, <1>7, <2>1
  <2>5. notifies' >= scrolls'.notifies + scrolls'.set
    BY <1>1, <2>2, <2>3, <2>4
  <2>6. Owner \notin {Nested, Hover, "offset"} /\ Child \notin {Nested, Hover, "offset"}
    BY Zenon DEF Owner, Child, Nested, Hover
  <2>7. Owner \in record'.changed \ record'.unheard => notifies' > scrolls'.notifies + scrolls'.set
    <3>1. SUFFICES ASSUME Owner \in record'.changed \ record'.unheard
                   PROVE  notifies' > scrolls'.notifies + scrolls'.set
      BY Zenon
    <3>2. Owner \in record.changed \ record.unheard \/ Owner \in what
      BY Zenon, <2>1, <2>6, <3>1 DEF Marked
    <3>3. Owner \in what => ~(k >= n)
      BY Zenon, <2>4, <3>1
    <3> QED
      BY <1>1, <2>2, <2>3, <2>4, <3>2, <3>3
  <2>8. child' = [child EXCEPT !.changed = IF child.retained
                                             THEN @ \cup (what \cap ({Child} \cup reads.child)) ELSE @]
    BY Zenon DEF EventOf, Change
  <2>9. ~child'.retained
    BY Zenon, <1>1, <2>2, <2>8
  <2>10. Child \in record'.changed \/ ChildsOwn(record)' # {} => Child \in notified'
    <3>1. ASSUME Child \in parts PROVE Child \in notified'
      BY Zenon, <1>2, <2>1, <2>6, <3>1 DEF Heard
    <3>2. ASSUME NEW m \in ChildsOwn(record)', m \notin ChildsOwn(record) PROVE Child \in notified'
      <4>1. m \in record'.changed /\ m \in reads.child /\ m \notin record'.unheard
            /\ m \notin reads.owner /\ m \notin record.reads
        BY Zenon, <1>4, <2>1, <3>2 DEF ChildsOwn, Marked
      <4>2. m \notin record.changed /\ m \notin Unnoted(record, what)
        BY Zenon, <2>1, <3>2, <4>1 DEF ChildsOwn, Marked
      <4>3. m \in what
        BY Zenon, <1>1, <2>1, <4>1, <4>2, Readers DEF Marked
      <4>4. reads.observes
        BY Zenon, <2>2, <4>1, <4>2, <4>3 DEF Unnoted
      <4> QED
        BY Zenon, <1>2, <4>1, <4>3, <4>4 DEF Heard
    <3> QED
      BY Zenon, <1>2, <2>1, <2>2, <3>1, <3>2 DEF Marked
  <2>11. record'.changed \cap reads'.owner \subseteq own'
    BY Zenon, <1>1, <1>2, <1>4, <2>1, <2>2, Readers DEF Marked
  <2>12. Nested \in record'.changed => scrolls'.nested
    BY Zenon, <2>1, <2>2, <2>3 DEF Marked
  <2>13. record'.at = shown'.at /\ reads'.content \subseteq record'.reads
    BY Zenon, <1>4, <2>1, <2>2 DEF Marked
  <2> QED
    BY Zenon, <2>5, <2>7, <2>9, <2>10, <2>11, <2>12, <2>13 DEF Noticed
<1>8. Noticed'
  BY Zenon, <1>7 DEF Noticed
<1> QED
  BY Zenon, <1>5, <1>6, <1>8

\* Of the events only scrolls leave `pure`, and they add nothing to what the frame finds.
LEMMA PureStep ==
  ASSUME LayersInv, NEW what \in SUBSET Entities, NEW n \in Nat, NEW k \in Nat, NEW parts,
         EventOf(what, n, k, parts),
         pure' => /\ pure /\ what = {} /\ (layered => k = n) /\ scrolls'.nested = scrolls.nested
                  /\ parts \subseteq {"offset"}
  PROVE  OnlyScrolled'
<1> USE DEF LayersInv
<1> SUFFICES ASSUME record' # None, input'.carried, pure', ~reads'.offset
             PROVE  /\ record'.changed \cap ({Hover} \cup record'.reads) = {}
                    /\ ~scrolls'.nested /\ own' = {} /\ child'.changed = {}
                    /\ notified' \subseteq {Owner}
                    /\ notifies' = scrolls'.notifies + scrolls'.set
  BY Zenon DEF OnlyScrolled
<1>1. /\ UNCHANGED <<reads, layered, input>> /\ record # None /\ what = {} /\ pure
      /\ record'.changed \subseteq record.changed \cup parts /\ parts \subseteq {"offset"}
      /\ record'.changed \subseteq Shapes /\ record'.reads = record.reads
      /\ scrolls'.nested = scrolls.nested
  BY Zenon DEF EventOf, Marked, Records
<1>2. layered /\ k = n /\ reads \in READERS /\ notifies \in Nat
      /\ scrolls \in [notifies : Nat, nested : BOOLEAN, set : Nat]
  BY Zenon, <1>1 DEF Shape
<1>3. /\ record.changed \cap ({Hover} \cup record.reads) = {}
      /\ ~scrolls.nested /\ own = {} /\ child.changed = {}
      /\ notified \subseteq {Owner} /\ notifies = scrolls.notifies + scrolls.set
  BY Zenon, <1>1 DEF OnlyScrolled
<1>4. "offset" \notin Shapes
  BY Zenon, <1>1, <1>2, Readers DEF Shapes, Owner, Child, Nested, Hover
<1>5. record'.changed \cap ({Hover} \cup record'.reads) = {}
  BY Zenon, <1>1, <1>3, <1>4
<1>6. own' = {} /\ notifies' = notifies + n
  BY Zenon, <1>1, <1>2, <1>3 DEF EventOf, Change, note_notify
<1>7. child'.changed = {}
  <2>1. child' = [child EXCEPT !.changed =
                   IF child.retained THEN @ \cup (what \cap ({Child} \cup reads.child)) ELSE @]
    BY Zenon DEF EventOf, Change
  <2>2. child \in [retained : BOOLEAN, changed : SUBSET Entities]
    BY Zenon DEF Shape
  <2> QED
    BY Zenon, <1>1, <1>3, <2>1, <2>2
<1>8. notified' \subseteq {Owner}
  <2>1. {Owner} \cap reads.child = {} /\ Child # Owner
    BY Zenon, <1>2, Readers DEF Owner, Child
  <2>2. notified' = notified \cup Heard(what \cup IF n > 0 THEN {Owner} ELSE {})
    BY Zenon DEF EventOf, Change
  <2> QED
    BY Zenon, <1>1, <1>3, <2>1, <2>2 DEF Heard
<1>9. notifies' = scrolls'.notifies + scrolls'.set
  BY Zenon, <1>2, <1>3, <1>6 DEF EventOf
<1> QED
  BY Zenon, <1>1, <1>3, <1>5, <1>6, <1>7, <1>8, <1>9

\* Spoil adds to a record what spoiled it, and what of that goes unheard.
LEMMA Spoiled ==
  ASSUME Shape, NEW what \in SUBSET Entities, NEW parts, NEW combined \in SUBSET Entities,
         record' = Spoil(record, parts, combined), record' # None,
         what \cap MODELS = parts \cap MODELS
  PROVE  Marked(what, parts) /\ combined \subseteq record'.unheard
<1>1. /\ record # None /\ record \in Records
      /\ record' = [record EXCEPT !.changed = @ \cup (parts \cap Shapes),
                                  !.unheard = @ \cup Unnoted(record, parts) \cup combined]
  BY Zenon DEF Shape, Spoil
<1>2. Unnoted(record, parts) = Unnoted(record, what) /\ Unnoted(record, parts) \subseteq Entities
  BY Zenon, Readers DEF Unnoted, Shape, Entities
<1> QED
  BY Zenon, <1>1, <1>2 DEF Records, Marked

\* Each event keeps the invariant.
LEMMA EventKeeps ==
  ASSUME LayersInv, event
  PROVE  LayersInv'
<1>0. Shape /\ scrolls \in [notifies : Nat, nested : BOOLEAN, set : Nat] /\ offset \in OFFSETS
  BY Zenon DEF LayersInv, Shape
<1>1. ASSUME NEW e \in Entities, update(e) PROVE LayersInv'
  <2> DEFINE n == IF e = Owner THEN 1 ELSE 0
  <2>1. Event /\ Change({e}, n) /\ record' = Spoil(record, {e}, {}) /\ ~pure'
        /\ UNCHANGED <<reads, offset, layered, scrolls, input, decision, shown>>
    BY Zenon, <1>1 DEF update
  <2>2. {e} \in SUBSET Entities /\ n \in Nat /\ 0 \in Nat /\ 0 <= n /\ (Owner \in {e} => ~(0 >= n))
        /\ e # Nested
    BY LayersAssumption DEF Entities, Owner, Child, Nested
  <2> HIDE DEF n
  <2>3. EventOf({e}, n, 0, {e})
    <3>1. scrolls'.notifies + scrolls'.set = scrolls.notifies + scrolls.set + 0
      BY <1>0, <2>1
    <3>2. scrolls.nested \/ Nested \in {e} => scrolls'.nested
      BY Zenon, <2>1, <2>2
    <3>3. record' # None => Marked({e}, {e})
      <4>1. {} \in SUBSET Entities /\ {e} \cap MODELS = {e} \cap MODELS
        BY Zenon
      <4> QED
        BY Zenon, <1>0, <2>1, <2>2, <4>1, Spoiled
    <3> QED
      BY Zenon, <1>0, <2>1, <3>1, <3>2, <3>3 DEF EventOf
  <2>4. Shape' /\ Noticed' /\ MovedIsStale'
    BY Zenon, <2>2, <2>3, EventStep
  <2>5. OnlyScrolled'
    BY Zenon, <2>1 DEF OnlyScrolled
  <2> QED
    BY Zenon, <2>4, <2>5 DEF LayersInv
<1>2. ASSUME NEW to \in OFFSETS, NEW nested \in BOOLEAN, NEW extra \in 0..1,
             NEW what \in {{}} \cup {{e} : e \in Entities}, wheel(to, nested, extra, what)
      PROVE  LayersInv'
  <2> DEFINE moved == (IF to # offset THEN 1 ELSE 0) + IF nested THEN 1 ELSE 0
             sent == moved + extra + IF Owner \in what THEN 1 ELSE 0
             k == IF layered /\ what = {} THEN sent ELSE moved
             parts == what \cup (IF nested THEN {Nested} ELSE {})
                           \cup IF to # offset THEN {"offset"} ELSE {}
  <2>1. /\ Event /\ Change(what, sent) /\ record' = Spoil(record, parts, {})
        /\ pure' = (pure /\ what = {} /\ ~nested)
        /\ scrolls' = [scrolls EXCEPT !.nested = @ \/ nested, !.notifies = @ + k]
        /\ offset' = to /\ UNCHANGED <<reads, layered, input, decision, shown>>
    BY Zenon, <1>2 DEF wheel
  <2>2. moved \in Nat
    OBVIOUS
  <2>3. sent \in Nat /\ moved <= sent /\ (Owner \in what => moved < sent)
    <3> HIDE DEF moved
    <3> QED
      BY <2>2
  <2>4. k \in Nat /\ (layered => k <= sent) /\ (layered /\ Owner \in what => ~(k >= sent))
        /\ (layered /\ what = {} => k = sent)
    <3> HIDE DEF moved, sent
    <3> QED
      BY <2>2, <2>3
  <2>5. what \in SUBSET Entities /\ (Nested \in parts => nested)
        /\ parts \subseteq what \cup {Nested, Hover, "offset"}
        /\ (what = {} /\ ~nested => parts \subseteq {"offset"})
        /\ what \cap MODELS = parts \cap MODELS
    BY LayersAssumption DEF Entities, Owner, Child, Nested
  <2> HIDE DEF moved, sent, k, parts
  <2>6. /\ scrolls' \in [notifies : Nat, nested : BOOLEAN, set : Nat]
        /\ scrolls'.notifies = scrolls.notifies + k /\ scrolls'.set = scrolls.set
        /\ scrolls'.nested = (scrolls.nested \/ nested)
    <3> DEFINE either == scrolls.nested \/ nested
    <3>1. either \in BOOLEAN /\ scrolls.notifies + k \in Nat
      BY <1>0, <2>4
    <3>2. scrolls' = [scrolls EXCEPT !.nested = either, !.notifies = scrolls.notifies + k]
      BY Zenon, <1>0, <2>1
    <3> HIDE DEF either
    <3>3. /\ scrolls' \in [notifies : Nat, nested : BOOLEAN, set : Nat]
          /\ scrolls'.notifies = scrolls.notifies + k /\ scrolls'.set = scrolls.set
          /\ scrolls'.nested = either
      BY Zenon, <1>0, <3>1, <3>2
    <3> QED
      BY Zenon, <3>3 DEF either
  <2>7. EventOf(what, sent, k, parts)
    <3>1. scrolls'.notifies + scrolls'.set = scrolls.notifies + scrolls.set + k
      BY <1>0, <2>4, <2>6
    <3>2. scrolls.nested \/ Nested \in parts => scrolls'.nested
      BY Zenon, <2>5, <2>6
    <3>3. record' # None => Marked(what, parts)
      <4>1. {} \in SUBSET Entities
        BY Zenon
      <4> QED
        BY Zenon, <1>0, <2>1, <2>5, <4>1, Spoiled
    <3> QED
      BY Zenon, <1>0, <2>1, <2>5, <2>6, <3>1, <3>2, <3>3 DEF EventOf
  <2>8. Shape' /\ Noticed' /\ MovedIsStale'
    BY Zenon, <2>3, <2>4, <2>5, <2>7, EventStep
  <2>9. pure' => /\ pure /\ what = {} /\ (layered => k = sent) /\ scrolls'.nested = scrolls.nested
                 /\ parts \subseteq {"offset"}
    BY Zenon, <1>0, <2>1, <2>4, <2>5, <2>6
  <2>10. OnlyScrolled'
    BY Zenon, <2>3, <2>4, <2>5, <2>7, <2>9, PureStep
  <2> QED
    BY Zenon, <2>8, <2>10 DEF LayersInv
<1>3. ASSUME NEW to \in OFFSETS, NEW what \in {{}, {Owner}}, set_offset(to, what) PROVE LayersInv'
  <2>1. /\ Event /\ Change(what, 1) /\ record' = Spoil(record, what \cup {"offset"}, what)
        /\ pure' = (pure /\ what = {}) /\ scrolls' = [scrolls EXCEPT !.set = @ + 1]
        /\ offset' = to /\ UNCHANGED <<reads, layered, input, decision, shown>>
    BY Zenon, <1>3 DEF set_offset
  <2>2. /\ what \in SUBSET Entities /\ 1 \in Nat /\ 1 <= 1
        /\ Nested \notin what \cup {"offset"}
        /\ what \cap MODELS = (what \cup {"offset"}) \cap MODELS
    BY LayersAssumption DEF Entities, Owner, Nested
  <2>3. /\ scrolls' \in [notifies : Nat, nested : BOOLEAN, set : Nat]
        /\ scrolls'.notifies + scrolls'.set = scrolls.notifies + scrolls.set + 1
        /\ scrolls'.nested = scrolls.nested
    BY <1>0, <2>1
  <2>4. record' # None => Marked(what, what \cup {"offset"}) /\ what \subseteq record'.unheard
    BY Zenon, <1>0, <2>1, <2>2, Spoiled
  <2>5. EventOf(what, 1, 1, what \cup {"offset"})
    BY Zenon, <1>0, <2>1, <2>2, <2>3, <2>4 DEF EventOf
  <2>6. Shape' /\ Noticed' /\ MovedIsStale'
    BY Zenon, <2>2, <2>4, <2>5, EventStep
  <2>7. OnlyScrolled'
    <3>1. pure' => /\ pure /\ what = {} /\ 1 = 1 /\ scrolls'.nested = scrolls.nested
                   /\ what \cup {"offset"} \subseteq {"offset"}
      BY Zenon, <2>1, <2>3
    <3> QED
      BY Zenon, <2>2, <2>5, <3>1, PureStep
  <2> QED
    BY Zenon, <2>6, <2>7 DEF LayersInv
<1>4. ASSUME NEW to \in OFFSETS, scroll_to_item(to) PROVE LayersInv'
  <2>1. /\ Event /\ Change({}, 1) /\ record' = Spoil(record, {"offset"}, {}) /\ ~pure'
        /\ offset' = to /\ UNCHANGED <<reads, layered, scrolls, input, decision, shown>>
    BY Zenon, <1>4 DEF scroll_to_item
  <2>2. /\ {} \in SUBSET Entities /\ 1 \in Nat /\ 0 \in Nat /\ 0 <= 1 /\ Owner \notin {}
        /\ Nested \notin {"offset"} /\ {} \cap MODELS = {"offset"} \cap MODELS
    BY LayersAssumption DEF Nested
  <2>3. EventOf({}, 1, 0, {"offset"})
    <3>1. record' # None => Marked({}, {"offset"})
      BY Zenon, <1>0, <2>1, <2>2, Spoiled
    <3>2. scrolls'.notifies + scrolls'.set = scrolls.notifies + scrolls.set + 0
      BY <1>0, <2>1
    <3> QED
      BY Zenon, <1>0, <2>1, <2>2, <3>1, <3>2 DEF EventOf
  <2>4. Shape' /\ Noticed' /\ MovedIsStale'
    BY Zenon, <2>2, <2>3, EventStep
  <2>5. OnlyScrolled'
    BY Zenon, <2>1 DEF OnlyScrolled
  <2> QED
    BY Zenon, <2>4, <2>5 DEF LayersInv
<1>5. ASSUME mouse_move PROVE LayersInv'
  <2>1. /\ Event /\ Change({}, 1) /\ ~pure'
        /\ UNCHANGED <<reads, offset, layered, scrolls, input, decision, shown>>
    BY Zenon, <1>5 DEF mouse_move
  <2>2. /\ {} \in SUBSET Entities /\ 1 \in Nat /\ 0 \in Nat /\ 0 <= 1 /\ Owner \notin {}
        /\ Nested \notin {Hover}
    BY DEF Nested, Hover
  <2>3. ASSUME record' # None PROVE Marked({}, {Hover})
    <3>1. /\ record # None /\ record \in Records
          /\ record' = [record EXCEPT !.changed = SymDiff(@, {Hover})]
      BY Zenon, <1>0, <1>5, <2>3 DEF mouse_move, Shape
    <3>2. Hover \in Shapes
      BY Zenon DEF Shapes
    <3>3. Unnoted(record, {}) = {}
      BY Zenon DEF Unnoted
    <3> QED
      BY Zenon, <3>1, <3>2, <3>3 DEF SymDiff, Records, Marked
  <2>4. EventOf({}, 1, 0, {Hover})
    <3>1. scrolls'.notifies + scrolls'.set = scrolls.notifies + scrolls.set + 0
      BY <1>0, <2>1
    <3> QED
      BY Zenon, <1>0, <2>1, <2>2, <2>3, <3>1 DEF EventOf
  <2>5. Shape' /\ Noticed' /\ MovedIsStale'
    BY Zenon, <2>2, <2>4, EventStep
  <2>6. OnlyScrolled'
    BY Zenon, <2>1 DEF OnlyScrolled
  <2> QED
    BY Zenon, <2>5, <2>6 DEF LayersInv
<1> QED
  BY Zenon, <1>1, <1>2, <1>3, <1>4, <1>5 DEF event

----------------------------------------------------------------------------
\* Frames.

\* A frame that looks at the layer leaves it unspoiled but for what goes unheard, or leaves it.
LEMMA ActiveKeeps ==
  ASSUME LayersInv, NEW standing, NEW how, NEW baked \in BOOLEAN, NEW rebuild \in BOOLEAN,
         NEW forget \in BOOLEAN, draw_active(standing, how, baked, rebuild, forget)
  PROVE  LayersInv'
<1> DEFINE d == input_decide(policy_decide(standing), rebuild)
<1>1. d \in {"Bypass", "Composite", "Repaint"} /\ (d # "Bypass" => layered)
  BY Zenon DEF input_decide, policy_decide
<1>2. d = "Composite" => /\ record # None /\ input.carried /\ layered
                         /\ Settled(record)
  BY Zenon, CompositeMeans
<1>3. /\ forget => d \notin {"Composite", "Repaint"}
      /\ record' = IF forget THEN None
                   ELSE IF d = "Bypass" \/ ~baked THEN None
                   ELSE IF d = "Repaint" THEN NewRecord(how) ELSE record
      /\ layered' = ((layered \/ standing # "off") /\ ~forget)
      /\ notifies' = 0 /\ decision' = d /\ notified' = {} /\ events' = 0
      /\ scrolls' = [notifies |-> 0, nested |-> FALSE, set |-> 0]
      /\ own' = {} /\ child' = [retained |-> d = "Bypass", changed |-> {}]
      /\ shown' = [at |-> IF d = "Composite" THEN shown.at ELSE offset, offset |-> offset]
      /\ UNCHANGED <<reads, offset>>
  BY Zenon DEF draw_active, FinishFrame
<1>4. /\ input' = IF forget THEN NewInput
                  ELSE [stale |-> d = "Composite" /\ offset # record.at, rebuild |-> FALSE,
                        carried |-> d = "Composite" \/ (d = "Repaint" /\ baked)]
  BY Zenon DEF draw_active, FinishFrame
<1> HIDE DEF d
<1>5. /\ Shape /\ Noticed /\ reads \in READERS /\ offset \in OFFSETS /\ Shapes' = Shapes
      /\ Records' = Records /\ OnlyScrolled
  BY Zenon, <1>3 DEF LayersInv, Shape, Shapes, Records
<1>6. input' \in [stale : BOOLEAN, rebuild : BOOLEAN, carried : BOOLEAN]
  BY Zenon, <1>4 DEF NewInput
<1>7. record' # None => /\ ~forget /\ d \in {"Repaint", "Composite"}
                        /\ record' = IF d = "Repaint" THEN NewRecord(how) ELSE record
  BY Zenon, <1>1, <1>3
<1>8. record' # None => /\ layered' /\ record' \in Records
                        /\ Settled(record')
                        /\ record'.at = shown'.at /\ reads.content \subseteq record'.reads
  <2>1. CASE d = "Repaint"
    <3>1. NewRecord(how) \in Records /\ Settled(NewRecord(how)) /\ NewRecord(how).at = offset
          /\ reads.content \subseteq NewRecord(how).reads
      BY Zenon, <1>5, Readers DEF NewRecord, Records, Entities, Settled
    <3>2. shown'.at = offset
      BY Zenon, <1>3, <2>1
    <3> QED
      BY Zenon, <1>1, <1>3, <1>7, <2>1, <3>1, <3>2
  <2>2. CASE d = "Composite"
    <3>1. record \in Records /\ reads.content \subseteq record.reads /\ record.at = shown.at
      BY Zenon, <1>2, <1>5, <2>2 DEF Shape, Noticed
    <3>2. shown'.at = shown.at
      BY Zenon, <1>3, <2>2
    <3> QED
      BY Zenon, <1>1, <1>2, <1>3, <1>7, <2>2, <3>1, <3>2
  <2> QED
    BY Zenon, <1>7, <2>1, <2>2
<1>9. shown' \in [at : OFFSETS, offset : OFFSETS]
  BY Zenon, <1>3, <1>5 DEF Shape
<1>10. Shape'
  <2>1. child' \in [retained : BOOLEAN, changed : SUBSET Entities]
    BY Zenon, <1>3
  <2>2. notifies' \in Nat /\ events' \in Nat
        /\ scrolls' \in [notifies : Nat, nested : BOOLEAN, set : Nat]
    BY <1>3
  <2> QED
    BY Zenon, <1>3, <1>5, <1>6, <1>8, <1>9, <2>1, <2>2 DEF Shape
<1>11. Noticed'
  <2> SUFFICES ASSUME record' # None PROVE Noticed'
    BY Zenon DEF Noticed
  <2>1. ~child'.retained /\ notifies' >= scrolls'.notifies + scrolls'.set
    BY <1>3, <1>7
  <2>2. /\ Owner \notin record'.changed \ record'.unheard
        /\ Child \notin record'.changed /\ ChildsOwn(record)' = {}
        /\ Nested \notin record'.changed /\ record'.changed \cap reads'.owner \subseteq own'
    BY Zenon, <1>3, <1>8 DEF Settled, ChildsOwn
  <2> QED
    BY Zenon, <1>3, <1>8, <2>1, <2>2 DEF Noticed
<1>12. MovedIsStale'
  <2>1. CASE d = "Composite"
    <3>1. record # None /\ input.carried /\ ~forget
      BY Zenon, <1>2, <1>3, <2>1
    <3>2. record.at = shown.at
      BY Zenon, <1>5, <3>1 DEF Noticed
    <3>3. shown'.at = shown.at /\ shown'.offset = offset /\ input'.stale = (offset # record.at)
      BY Zenon, <1>3, <1>4, <2>1, <3>1
    <3> QED
      BY Zenon, <3>2, <3>3 DEF MovedIsStale
  <2>2. CASE d # "Composite"
    BY Zenon, <1>3, <2>2 DEF MovedIsStale
  <2> QED
    BY Zenon, <2>1, <2>2
<1>13. OnlyScrolled'
  <2> SUFFICES ASSUME record' # None PROVE OnlyScrolled'
    BY Zenon DEF OnlyScrolled
  <2>1. record'.changed \cap ({Hover} \cup record'.reads) = {}
    BY Zenon, <1>8 DEF Settled
  <2>2. ~scrolls'.nested /\ child'.changed = {} /\ notifies' = scrolls'.notifies + scrolls'.set
    BY <1>3
  <2> QED
    BY Zenon, <1>3, <2>1, <2>2 DEF OnlyScrolled
<1> QED
  BY Zenon, <1>10, <1>11, <1>12, <1>13 DEF LayersInv

\* A frame that does not look at the layer no longer carries what it holds.
LEMMA PassedBy ==
  ASSUME LayersInv, NEW d \in {"Bypass", "Reuse"}, NEW rebuild \in BOOLEAN, NEW forget \in BOOLEAN,
         FinishFrame(d, forget, record, layered, notifies,
                     [input EXCEPT !.rebuild = rebuild, !.carried = FALSE]),
         scrolls' = [scrolls EXCEPT !.notifies = 0, !.nested = FALSE],
         child' \in [retained : BOOLEAN, changed : SUBSET Entities],
         shown' = shown \/ shown' = [at |-> offset, offset |-> offset]
  PROVE  LayersInv'
<1>1. /\ record' = IF forget THEN None ELSE record
      /\ layered' = (layered /\ ~forget) /\ notifies' = (IF forget THEN 0 ELSE notifies)
      /\ input' = (IF forget THEN NewInput
                   ELSE [input EXCEPT !.rebuild = rebuild, !.carried = FALSE])
      /\ decision' = d /\ events' = 0 /\ UNCHANGED <<reads, offset>>
  BY Zenon DEF FinishFrame
<1>2. Shape /\ Records' = Records /\ MovedIsStale
  BY Zenon, <1>1 DEF LayersInv, Shapes, Records
<1>3. /\ input' \in [stale : BOOLEAN, rebuild : BOOLEAN, carried : BOOLEAN] /\ ~input'.carried
      /\ forget \/ input'.stale = input.stale
  BY Zenon, <1>1, <1>2 DEF NewInput, Shape
<1>4. /\ scrolls' \in [notifies : Nat, nested : BOOLEAN, set : Nat]
      /\ shown' \in [at : OFFSETS, offset : OFFSETS] /\ notifies' \in Nat /\ events' \in Nat
  <2>1. scrolls' \in [notifies : Nat, nested : BOOLEAN, set : Nat]
    BY <1>2 DEF Shape
  <2>2. shown' \in [at : OFFSETS, offset : OFFSETS]
    <3>1. offset \in OFFSETS /\ shown \in [at : OFFSETS, offset : OFFSETS]
      BY Zenon, <1>2 DEF Shape
    <3>2. [at |-> offset, offset |-> offset] \in [at : OFFSETS, offset : OFFSETS]
      BY Zenon, <3>1
    <3> QED
      BY Zenon, <3>1, <3>2
  <2>3. notifies' \in Nat /\ events' \in Nat
    BY <1>1, <1>2 DEF Shape
  <2> QED
    BY Zenon, <2>1, <2>2, <2>3
<1>5. Shape'
  BY Zenon, <1>1, <1>2, <1>3, <1>4 DEF Shape
<1>6. Noticed' /\ OnlyScrolled'
  BY Zenon, <1>3 DEF Noticed, OnlyScrolled
<1>7. MovedIsStale'
  <2>1. CASE shown' = shown
    BY Zenon, <1>1, <1>2, <1>3, <2>1 DEF MovedIsStale
  <2>2. CASE shown' = [at |-> offset, offset |-> offset]
    <3>1. shown'.at = shown'.offset
      BY Zenon, <2>2
    <3> QED
      BY Zenon, <3>1 DEF MovedIsStale
  <2> QED
    BY Zenon, <2>1, <2>2
<1> QED
  BY Zenon, <1>5, <1>6, <1>7 DEF LayersInv

\* Each frame keeps the invariant.
LEMMA FrameKeeps ==
  ASSUME LayersInv, draw \/ before_dispatch
  PROVE  LayersInv'
<1>1. ASSUME NEW rebuild \in BOOLEAN, NEW forget \in BOOLEAN, draw_inactive(rebuild, forget)
      PROVE  LayersInv'
  <2>1. child' \in [retained : BOOLEAN, changed : SUBSET Entities]
    BY Zenon, <1>1 DEF draw_inactive
  <2> QED
    BY Zenon, <1>1, <2>1, PassedBy DEF draw_inactive
<1>2. ASSUME NEW rebuild \in BOOLEAN, NEW forget \in BOOLEAN, reuse_owner(rebuild, forget)
      PROVE  LayersInv'
  <2>1. child' \in [retained : BOOLEAN, changed : SUBSET Entities]
    BY Zenon, <1>2 DEF reuse_owner, LayersInv, Shape
  <2> QED
    BY Zenon, <1>2, <2>1, PassedBy DEF reuse_owner
<1>3. ASSUME NEW dirty, NEW rebuild \in BOOLEAN, Frame(dirty, rebuild) PROVE LayersInv'
  <2>1. ASSUME NEW standing, NEW how, NEW baked \in BOOLEAN, NEW forget \in BOOLEAN,
               draw_active(standing, how, baked, rebuild, forget)
        PROVE  LayersInv'
    BY Zenon, <2>1, ActiveKeeps
  <2> QED
    BY Zenon, <1>1, <1>2, <1>3, <2>1 DEF Frame
<1>4. input.rebuild \in BOOLEAN
  BY Zenon DEF LayersInv, Shape
<1> QED
  BY Zenon, <1>3, <1>4 DEF draw, before_dispatch

----------------------------------------------------------------------------
\* A carried record holds every change to what its pixels are made of where the next frame looks
\* for it, but for the two kinds of change CompositedIsCurrent excepts, and content that moved
\* since it was prepainted has its entry say so, in every behaviour of a scroll layer
\* (invalidate::scroll_only, LayerInput::stale).
THEOREM LayersInvariant == Spec => []LayersInv
<1>1. Init => LayersInv
  <2> SUFFICES ASSUME Init PROVE LayersInv
    BY Zenon
  <2>1. Shape
    BY Zenon, LayersAssumption DEF Init, Shape, NewInput
  <2>2. MovedIsStale
    BY Zenon DEF Init, MovedIsStale
  <2> QED
    BY Zenon, <2>1, <2>2 DEF Init, LayersInv, Noticed, OnlyScrolled
<1>2. LayersInv /\ [Next]_vars => LayersInv'
  <2> SUFFICES ASSUME LayersInv, [Next]_vars PROVE LayersInv'
    BY Zenon
  <2>1. CASE event
    BY Zenon, <2>1, EventKeeps
  <2>2. CASE draw \/ before_dispatch
    BY Zenon, <2>2, FrameKeeps
  <2>3. CASE UNCHANGED vars
    <3>1. Shape'
      BY Zenon, <2>3 DEF vars, LayersInv, Shape, Records, Shapes
    <3>2. Noticed'
      BY Zenon, <2>3 DEF vars, LayersInv, Noticed, ChildsOwn
    <3>3. MovedIsStale'
      BY Zenon, <2>3 DEF vars, LayersInv, MovedIsStale
    <3>4. OnlyScrolled'
      BY Zenon, <2>3 DEF vars, LayersInv, OnlyScrolled
    <3> QED
      BY Zenon, <3>1, <3>2, <3>3, <3>4 DEF LayersInv
  <2> QED
    BY Zenon, <2>1, <2>2, <2>3 DEF Next
<1> QED
  BY <1>1, <1>2, PTL DEF Spec

\* A frame that composites a layer shows what building its content would, but for a model that
\* only views in the content read, unobserved, and an owner changed under the notification of
\* an offset set, whatever events and frames came before it (invalidate::scroll_only,
\* policy::covers, input::decide).
THEOREM CompositesShowTheCurrent == Spec => CompositedIsCurrent
<1>1. ASSUME LayersInv, NEW dirty, NEW rebuild \in BOOLEAN, Frame(dirty, rebuild),
             decision' = "Composite"
      PROVE  record.changed \subseteq record.unheard /\ ShownWasPainted
  <2>1. PICK standing \in {"off", "elsewhere", "in place"}, how \in {"built", "kept"},
             baked \in BOOLEAN, forget \in BOOLEAN :
               draw_active(standing, how, baked, rebuild, forget)
    BY Zenon, <1>1 DEF Frame, draw_inactive, reuse_owner, FinishFrame
  <2>2. input_decide(policy_decide(standing), rebuild) = "Composite"
    BY Zenon, <1>1, <2>1 DEF draw_active, FinishFrame
  <2> QED
    BY Zenon, <1>1, <2>2, CompositeMeans DEF Settled
<1>2. ASSUME LayersInv, event PROVE events' # 0
  <2>1. events \in Nat
    BY Zenon, <1>2 DEF LayersInv, Shape
  <2>2. events' = events + 1
    BY Zenon, <1>2 DEF event, update, wheel, set_offset, scroll_to_item, mouse_move, Event
  <2> QED
    BY <2>1, <2>2
<1>3. LayersInv => input.rebuild \in BOOLEAN
  BY Zenon DEF LayersInv, Shape
<1>4. LayersInv /\ [Next]_vars =>
        [decision' = "Composite" /\ events' = 0 =>
           record.changed \subseteq record.unheard /\ ShownWasPainted]_vars
  BY Zenon, <1>1, <1>2, <1>3 DEF Next, draw, before_dispatch
<1> QED
  BY <1>4, LayersInvariant, PTL DEF Spec, CompositedIsCurrent

\* After nothing but scrolls the next frame finds nothing but scrolls, however many there were
\* and whatever notifications came with them (wheel::end_dispatch, take_offsets_set).
THEOREM ScrollsCompose == Spec => []ScrollsAreComposited
<1>1. LayersInv => ScrollsAreComposited
  <2> SUFFICES ASSUME LayersInv, record # None, input.carried, pure, ~reads.offset
               PROVE  scroll_only(record)
    BY Zenon DEF ScrollsAreComposited
  <2>1. /\ record.changed \cap ({Hover} \cup record.reads) = {}
        /\ ~scrolls.nested /\ own = {} /\ child.changed = {}
        /\ notified \subseteq {Owner} /\ notifies = scrolls.notifies + scrolls.set /\ layered
        /\ notifies \in Nat
    BY Zenon DEF LayersInv, OnlyScrolled, Shape
  <2>2. Child \notin notified
    BY Zenon, <2>1 DEF Owner, Child
  <2>3. ~ChildDirty /\ ~content_view_notified
    BY Zenon, <2>1, <2>2 DEF ChildDirty, content_view_notified
  <2>4. ~owner_notified_otherwise
    BY <2>1 DEF owner_notified_otherwise
  <2> QED
    BY Zenon, <2>1, <2>3, <2>4 DEF scroll_only, changed, owner_scrolled_only
<1> QED
  BY <1>1, LayersInvariant, PTL

\* Input that reaches content shown elsewhere than it was prepainted is preceded by a frame that
\* prepaints it where it shows, whatever the policy, the record and the layers being active or
\* not, and content whose entry does not ask for that is where it was prepainted
\* (input::before_dispatch, input::decide, LayerInput::stale).
THEOREM InputIsDispatchedOnPainted == Spec => InputSeesShown
<1>1. before_dispatch => shown'.at = shown'.offset
  <2> SUFFICES ASSUME before_dispatch PROVE shown'.at = shown'.offset
    BY Zenon
  <2>1. PICK forget \in BOOLEAN :
          \/ \E standing \in {"off", "elsewhere", "in place"}, how \in {"built", "kept"},
                baked \in BOOLEAN : draw_active(standing, how, baked, TRUE, forget)
          \/ draw_inactive(TRUE, forget)
    BY Zenon DEF before_dispatch, Frame
  <2>2. ASSUME NEW standing, NEW how, NEW baked, draw_active(standing, how, baked, TRUE, forget)
        PROVE  shown'.at = shown'.offset
    <3>1. input_decide(policy_decide(standing), TRUE) # "Composite"
      BY Zenon DEF input_decide
    <3> QED
      BY Zenon, <2>2, <3>1 DEF draw_active
  <2>3. CASE draw_inactive(TRUE, forget)
    BY Zenon, <2>3 DEF draw_inactive
  <2> QED
    BY Zenon, <2>1, <2>2, <2>3
<1>2. LayersInv => MovedIsStale
  BY Zenon DEF LayersInv
<1>3. LayersInv' /\ [Next]_vars =>
        [/\ MovedIsStale'
         /\ (events' = 0 /\ shown'.at # shown'.offset => ~before_dispatch)]_vars
  BY Zenon, <1>1 DEF LayersInv
<1> QED
  BY <1>3, LayersInvariant, PTL DEF Spec, InputSeesShown
=============================================================================
