------------------------- MODULE CompressCallProofs -------------------------
(***************************************************************************)
(* Proofs about CompressCall, for any requests, texts, threads and faults: *)
(* whatever the passes of concurrent compress() calls replace, persist and *)
(* lose in between, a returned message can be read back, a pointer leads   *)
(* to a message that holds the original, and the shared breaker opens only *)
(* on failures that no clean run separates.                                *)
(***************************************************************************)
EXTENDS ClientCalls, FiniteSets, FiniteSetTheorems, WellFoundedInduction, TLAPS

Outs == UNION {[DOMAIN r.messages -> Compress!Unit] : r \in Requests}

\* A call in progress and what one returned.
Calls == [request : Requests, phase : {"dedup", "lifecycle", "route", "count"}, pos : Nat,
          out : Outs, seen : SUBSET Nat, warned : SUBSET Nat]

Results == [request : Requests, out : Outs, warned : SUBSET Nat]

\* Each message is in a form its own text has.
Formed(r, out) ==
    /\ out \in [DOMAIN r.messages -> Compress!Unit]
    /\ \A i \in DOMAIN r.messages :
        /\ out[i].text = r.messages[i].text
        /\ out[i].base = "near" => out[i].form = "lifecycle"
        /\ out[i].form # "whole" => i > Compress!Frozen(r) /\ i \in Compress!WithText(r)

\* A pointer leads back to a message that is none, with the text or enough of its rows.
Pointing(out) ==
    \A i \in DOMAIN out : out[i].at > 0 =>
        /\ out[i].at < i /\ out[out[i].at].at = 0
        /\ \/ out[out[i].at].text = out[i].text
           \/ Compress!Cardinality(Compress!Shared(out[i].text, out[out[i].at].text)) >= MinShared

\* A duplicate and the message it points at are tool outputs with the same text, and no
\* pointer leads from an error or to one.
Copying(r, out) ==
    /\ \A i \in DOMAIN r.messages : out[i].form = "duplicate" =>
        /\ out[i].at > 0
        /\ Compress!IsTool(r.messages[i]) /\ r.messages[i].text \in Bulky
        /\ Compress!IsTool(r.messages[out[i].at]) /\ r.messages[out[i].at].text = r.messages[i].text
    /\ \A i \in DOMAIN r.messages : out[i].at > 0 => ~r.messages[i].failed /\ ~r.messages[out[i].at].failed

Grounded(r, out) == Formed(r, out) /\ Pointing(out) /\ Copying(r, out)

\* The originals of what t's call replaced are durable, or lost since the call began.
Backed(t, out) ==
    \A i \in DOMAIN out : \A k \in Compress!Needs(out[i]) : tier[k] = "durable" \/ k \in gone[t]

\* The call in progress: the deduplication has only gone as far as its position, and what
\* it has kept whole points nowhere.
Fits(c) ==
    /\ c.pos \in Compress!WithText(c.request)
    /\ Grounded(c.request, c.out)
    /\ \A i \in c.seen : /\ i \in DOMAIN c.request.messages
                         /\ Compress!Deduplicable(c.request.messages[i]) /\ c.out[i].at = 0
    /\ c.phase = "dedup" =>
        /\ \A i \in c.seen : i < c.pos
        /\ \A i \in DOMAIN c.request.messages :
               i >= c.pos => c.out[i] = Compress!Whole(c.request.messages[i].text)

CallInv ==
    /\ tier \in [Compress!Keys -> Compress!Tiers]
    /\ gone \in [Threads -> SUBSET Compress!Keys]
    /\ call \in [Threads -> Calls \cup {None}]
    /\ result \in [Threads -> Results \cup {None}]
    /\ \A t \in Threads : call[t] # None => Fits(call[t]) /\ Backed(t, call[t].out)
    /\ \A t \in Threads : result[t] # None =>
           Grounded(result[t].request, result[t].out) /\ Backed(t, result[t].out)

-----------------------------------------------------------------------------
(* The least and the greatest of a set of numbers *)

LEMMA MinOfNats ==
    ASSUME NEW S \in SUBSET Nat, S # {}
    PROVE  Compress!Min(S) \in S /\ \A y \in S : Compress!Min(S) <= y
<1>1. PICK x \in S : \A y \in S : ~(<<y, x>> \in OpToRel(<, Nat))
  BY WFMin, NatLessThanWellFounded
<1>2. ASSUME NEW y \in S
      PROVE  x <= y
  <2>1. y \in Nat /\ x \in Nat
    OBVIOUS
  <2>2. y < x => <<y, x>> \in OpToRel(<, Nat)
    BY <2>1 DEF OpToRel
  <2>3. ~(y < x)
    BY <1>1, <2>2
  <2>. QED
    BY <2>1, <2>3
<1>. QED
  BY <1>2 DEF Compress!Min

LEMMA MaxOfNats ==
    ASSUME NEW n \in Nat, NEW S \in SUBSET (0..n), S # {}
    PROVE  Compress!Max(S) \in S /\ \A y \in S : y <= Compress!Max(S)
<1>. DEFINE T == {n - x : x \in S}
<1>1. T \in SUBSET Nat /\ T # {}
  <2>1. \A x \in S : n - x \in Nat
    OBVIOUS
  <2>. QED
    BY <2>1
<1>2. PICK m \in T : \A y \in T : m <= y
  BY <1>1, MinOfNats
<1>3. PICK x \in S : m = n - x
  BY <1>2
<1>4. \A y \in S : x >= y
  <2>. SUFFICES ASSUME NEW y \in S
       PROVE  x >= y
    OBVIOUS
  <2>1. n - x <= n - y
    BY <1>2, <1>3
  <2>2. x \in Int /\ y \in Int
    OBVIOUS
  <2>. QED
    BY <2>1, <2>2
<1>5. Compress!Max(S) \in S /\ \A y \in S : Compress!Max(S) >= y
  BY <1>4 DEF Compress!Max
<1>. QED
  BY <1>5
-----------------------------------------------------------------------------
(* Requests and what they become *)

LEMMA RequestFacts ==
    ASSUME Compress!CallAssumption, NEW r \in Requests
    PROVE  /\ Len(r.messages) \in Nat /\ DOMAIN r.messages = 1..Len(r.messages)
           /\ \A i \in DOMAIN r.messages : /\ r.messages[i].text \in CallTexts \cup {None}
                                           /\ r.messages[i].call \in 0..(i - 1)
           /\ Compress!WithText(r) \in SUBSET Nat /\ Compress!WithText(r) # {} /\ Compress!WithText(r) \subseteq DOMAIN r.messages
BY DEF Compress!CallAssumption, Compress!WithText

\* The frozen prefix reaches the last marked message.
LEMMA FrozenMarked ==
    ASSUME Compress!CallAssumption, NEW r \in Requests
    PROVE  /\ Compress!Frozen(r) \in 0..Len(r.messages)
           /\ \A i \in DOMAIN r.messages : r.messages[i].marked => i <= Compress!Frozen(r)
<1>. DEFINE S == {0} \cup {i \in DOMAIN r.messages : r.messages[i].marked}
<1>1. Len(r.messages) \in Nat /\ DOMAIN r.messages = 1..Len(r.messages)
  BY RequestFacts
<1>2. S \in SUBSET (0..Len(r.messages)) /\ S # {}
  BY <1>1
<1>3. Compress!Max(S) \in S /\ \A y \in S : y <= Compress!Max(S)
  <2>. HIDE DEF S
  <2>. QED
    BY <1>1, <1>2, MaxOfNats
<1>4. Compress!Frozen(r) = Compress!Max(S)
  BY DEF Compress!Frozen
<1>. QED
  BY <1>2, <1>3, <1>4

LEMMA FirstWithText ==
    ASSUME Compress!CallAssumption, NEW r \in Requests
    PROVE  Compress!Min(Compress!WithText(r)) \in Compress!WithText(r)
BY RequestFacts, MinOfNats

LEMMA WholeTyped ==
    ASSUME NEW text \in CallTexts \cup {None}
    PROVE  /\ Compress!Whole(text) \in Compress!Unit /\ Compress!Whole(text).text = text /\ Compress!Whole(text).form = "whole"
           /\ Compress!Whole(text).base = "whole" /\ Compress!Whole(text).at = 0
           /\ Compress!Needs(Compress!Whole(text)) = {}
BY DEF Compress!Whole, Compress!Unit, Compress!Forms, Compress!Needs

\* The request itself needs nothing to be read back.
LEMMA UntransformedGrounded ==
    ASSUME Compress!CallAssumption, NEW r \in Requests
    PROVE  /\ Compress!Untransformed(r) \in Outs
           /\ Grounded(r, Compress!Untransformed(r))
           /\ \A t : Backed(t, Compress!Untransformed(r))
           /\ \A i \in DOMAIN r.messages : Compress!Untransformed(r)[i] = Compress!Whole(r.messages[i].text)
<1>1. DOMAIN Compress!Untransformed(r) = DOMAIN r.messages
      /\ \A i \in DOMAIN r.messages : Compress!Untransformed(r)[i] = Compress!Whole(r.messages[i].text)
  BY DEF Compress!Untransformed
<1>2. \A i \in DOMAIN r.messages :
         /\ Compress!Untransformed(r)[i] \in Compress!Unit /\ Compress!Untransformed(r)[i].text = r.messages[i].text
         /\ Compress!Untransformed(r)[i].form = "whole" /\ Compress!Untransformed(r)[i].base = "whole"
         /\ Compress!Untransformed(r)[i].at = 0 /\ Compress!Needs(Compress!Untransformed(r)[i]) = {}
  BY <1>1, RequestFacts, WholeTyped
<1>3. Compress!Untransformed(r) \in [DOMAIN r.messages -> Compress!Unit]
  BY <1>1, <1>2 DEF Compress!Untransformed
<1>4. Grounded(r, Compress!Untransformed(r))
  BY <1>1, <1>2, <1>3 DEF Grounded, Formed, Pointing, Copying
<1>. QED
  BY <1>1, <1>2, <1>3, <1>4 DEF Outs, Backed

\* A message in a new form that points where it pointed.
LEMMA ReformedGrounded ==
    ASSUME Compress!CallAssumption, NEW r \in Requests, NEW out, Grounded(r, out), NEW i \in DOMAIN r.messages,
           NEW unit \in Compress!Unit, unit.text = out[i].text, unit.at = out[i].at,
           unit.base = "near" => unit.form = "lifecycle",
           unit.form # "whole" => i > Compress!Frozen(r) /\ i \in Compress!WithText(r),
           unit.form = "duplicate" => out[i].form = "duplicate"
    PROVE  Grounded(r, [out EXCEPT ![i] = unit])
<1>. DEFINE new == [out EXCEPT ![i] = unit]
<1>1. out \in [DOMAIN r.messages -> Compress!Unit]
  BY DEF Grounded, Formed
<1>2. /\ new \in [DOMAIN r.messages -> Compress!Unit] /\ new[i] = unit
      /\ \A j \in DOMAIN r.messages : j # i => new[j] = out[j]
  BY <1>1
<1>3. \A j \in DOMAIN r.messages : new[j].text = out[j].text /\ new[j].at = out[j].at
  BY <1>2
<1>. HIDE DEF new
<1>4. Formed(r, new)
  BY <1>2, <1>3 DEF Grounded, Formed
<1>5. Pointing(new)
  <2>. SUFFICES ASSUME NEW j \in DOMAIN r.messages, new[j].at > 0
       PROVE  /\ new[j].at < j /\ new[new[j].at].at = 0
              /\ \/ new[new[j].at].text = new[j].text
                 \/ Compress!Cardinality(Compress!Shared(new[j].text, new[new[j].at].text)) >= MinShared
    BY <1>2 DEF Pointing
  <2>1. out[j].at > 0 /\ out[j].at < j /\ out[out[j].at].at = 0
        /\ \/ out[out[j].at].text = out[j].text
           \/ Compress!Cardinality(Compress!Shared(out[j].text, out[out[j].at].text)) >= MinShared
    BY <1>1, <1>3 DEF Grounded, Pointing
  <2>2. out[j].at \in DOMAIN r.messages
    BY <1>1, <2>1, RequestFacts DEF Compress!Unit
  <2>. QED
    BY <1>3, <2>1, <2>2
<1>6. Copying(r, new)
  BY <1>2, <1>3 DEF Grounded, Copying
<1>. QED
  BY <1>4, <1>5, <1>6 DEF Grounded, new

\* A message that comes to point back at one that is no pointer, while no later message is.
LEMMA PointedGrounded ==
    ASSUME Compress!CallAssumption, NEW r \in Requests, NEW out, Grounded(r, out), NEW i \in DOMAIN r.messages,
           NEW unit \in Compress!Unit, unit.text = out[i].text, unit.base = "whole", i > Compress!Frozen(r), i \in Compress!WithText(r),
           \A j \in DOMAIN r.messages : j >= i => out[j].at = 0,
           unit.at \in DOMAIN r.messages, unit.at < i, out[unit.at].at = 0,
           ~r.messages[i].failed, ~r.messages[unit.at].failed,
           \/ out[unit.at].text = unit.text
           \/ Compress!Cardinality(Compress!Shared(unit.text, out[unit.at].text)) >= MinShared,
           unit.form = "duplicate" =>
               /\ Compress!IsTool(r.messages[i]) /\ r.messages[i].text \in Bulky
               /\ Compress!IsTool(r.messages[unit.at]) /\ r.messages[unit.at].text = r.messages[i].text
    PROVE  Grounded(r, [out EXCEPT ![i] = unit])
<1>. DEFINE new == [out EXCEPT ![i] = unit]
<1>1. out \in [DOMAIN r.messages -> Compress!Unit]
  BY DEF Grounded, Formed
<1>2. /\ new \in [DOMAIN r.messages -> Compress!Unit] /\ new[i] = unit
      /\ \A j \in DOMAIN r.messages : j # i => new[j] = out[j]
  BY <1>1
<1>3. \A j \in DOMAIN r.messages : new[j].text = out[j].text
  BY <1>2
<1>. HIDE DEF new
<1>4. Formed(r, new)
  BY <1>2, <1>3 DEF Grounded, Formed
<1>5. unit.at # i /\ new[unit.at] = out[unit.at] /\ unit.at > 0
  <2>1. unit.at \in Nat /\ i \in Nat /\ unit.at # 0
    BY RequestFacts DEF Compress!Unit
  <2>. QED
    BY <1>2, <2>1
<1>6. Pointing(new)
  <2>. SUFFICES ASSUME NEW j \in DOMAIN r.messages, new[j].at > 0
       PROVE  /\ new[j].at < j /\ new[new[j].at].at = 0
              /\ \/ new[new[j].at].text = new[j].text
                 \/ Compress!Cardinality(Compress!Shared(new[j].text, new[new[j].at].text)) >= MinShared
    BY <1>2 DEF Pointing
  <2>1. CASE j = i
    BY <1>2, <1>5, <2>1
  <2>2. CASE j # i
    <3>1. new[j] = out[j] /\ out[j].at > 0
      BY <1>2, <2>2
    <3>2. /\ out[j].at < j /\ out[out[j].at].at = 0
          /\ \/ out[out[j].at].text = out[j].text
             \/ Compress!Cardinality(Compress!Shared(out[j].text, out[out[j].at].text)) >= MinShared
      BY <1>1, <3>1 DEF Grounded, Pointing
    <3>3. out[j].at \in Nat /\ j \in Nat /\ i \in Nat
      <4>1. out[j].at \in Nat
        BY <1>1 DEF Compress!Unit
      <4>2. j \in Nat /\ i \in Nat
        BY RequestFacts
      <4>. QED
        BY <4>1, <4>2
    <3>4. ~(j >= i)
      BY <3>1, <3>3
    <3>5. out[j].at # i /\ out[j].at \in DOMAIN r.messages
      <4>1. out[j].at # i /\ out[j].at \in 1..j
        BY <3>1, <3>2, <3>3, <3>4
      <4>2. 1..j \subseteq DOMAIN r.messages
        BY RequestFacts
      <4>. QED
        BY <4>1, <4>2
    <3>. QED
      BY <1>2, <3>1, <3>2, <3>5
  <2>. QED
    BY <2>1, <2>2
<1>7. Copying(r, new)
  BY <1>2, <1>3, <1>5 DEF Grounded, Copying
<1>. QED
  BY <1>4, <1>6, <1>7 DEF Grounded, new
-----------------------------------------------------------------------------
(* How a pass moves on *)

LEMMA CallFacts ==
    ASSUME Compress!CallAssumption, CallInv, NEW t \in Threads, call[t] # None
    PROVE  /\ call[t] \in Calls /\ Fits(call[t]) /\ Backed(t, call[t].out)
           /\ call[t].request \in Requests
           /\ call[t].pos \in DOMAIN call[t].request.messages
           /\ Compress!Current(t) \in Compress!Unit /\ Compress!Current(t).text = Compress!Msg(t).text
           /\ Compress!Msg(t).text \in CallTexts
<1>1. call[t] \in Calls /\ Fits(call[t]) /\ Backed(t, call[t].out)
  BY DEF CallInv
<1>2. call[t].request \in Requests /\ call[t].pos \in Compress!WithText(call[t].request)
  BY <1>1 DEF Calls, Fits
<1>3. call[t].pos \in DOMAIN call[t].request.messages
  BY <1>2 DEF Compress!WithText
<1>4. Compress!Current(t) \in Compress!Unit /\ Compress!Current(t).text = Compress!Msg(t).text
  BY <1>1, <1>3 DEF Compress!Current, Compress!Msg, Fits, Grounded, Formed
<1>5. Compress!Msg(t).text \in CallTexts
  BY <1>2, <1>3, RequestFacts DEF Compress!Msg, Compress!WithText
<1>. QED
  BY <1>1, <1>2, <1>3, <1>4, <1>5

\* Advance() replaces the current message and goes on to a later one or to the next pass.
LEMMA AdvanceMoves ==
    ASSUME Compress!CallAssumption, CallInv, NEW t \in Threads, call[t] # None, call[t].phase # "count",
           NEW unit \in Compress!Unit
    PROVE  /\ Compress!Advance(t, unit) \in Calls
           /\ Compress!Advance(t, unit).request = call[t].request
           /\ Compress!Advance(t, unit).out = [call[t].out EXCEPT ![call[t].pos] = unit]
           /\ Compress!Advance(t, unit).seen = call[t].seen
           /\ Compress!Advance(t, unit).pos \in Compress!WithText(call[t].request)
           /\ Compress!Advance(t, unit).phase = "dedup" =>
                  call[t].phase = "dedup" /\ Compress!Advance(t, unit).pos > call[t].pos
<1>. DEFINE c == call[t]
            all == Compress!WithText(c.request)
            later == {i \in all : i > c.pos}
            out == [c.out EXCEPT ![c.pos] = unit]
            pos == Compress!Min(IF later = {} THEN all ELSE later)
            stage == IF later = {} THEN Compress!NextPhase[c.phase] ELSE c.phase
<1>1. c \in Calls /\ c.request \in Requests /\ Formed(c.request, c.out)
  BY CallFacts DEF Fits, Grounded
<1>2. all \in SUBSET Nat /\ all # {}
  BY <1>1, RequestFacts
<1>3. pos \in all /\ pos \in Nat /\ (later # {} => pos > c.pos)
  <2>1. later \in SUBSET Nat
    BY <1>2
  <2>2. later # {} => Compress!Min(later) \in later
    BY <2>1, MinOfNats
  <2>3. Compress!Min(all) \in all
    BY <1>2, MinOfNats
  <2>. QED
    BY <1>2, <2>2, <2>3
<1>4. stage \in {"dedup", "lifecycle", "route", "count"} /\ (stage = "dedup" => later # {} /\ c.phase = "dedup")
  <2>1. c.phase \in {"dedup", "lifecycle", "route"}
    BY <1>1 DEF Calls
  <2>2. Compress!NextPhase[c.phase] \in {"lifecycle", "route", "count"}
    BY <2>1 DEF Compress!NextPhase
  <2>. QED
    BY <2>1, <2>2
<1>5. out \in Outs
  <2>1. c.out \in [DOMAIN c.request.messages -> Compress!Unit]
    BY <1>1 DEF Formed
  <2>2. out \in [DOMAIN c.request.messages -> Compress!Unit]
    BY <2>1
  <2>. QED
    BY <1>1, <2>2 DEF Outs
<1>6. Compress!Advance(t, unit) = [c EXCEPT !.out = out, !.pos = pos, !.phase = stage]
  BY DEF Compress!Advance
<1>. HIDE DEF out, pos, stage
<1>7. Compress!Advance(t, unit) = [request |-> c.request, phase |-> stage, pos |-> pos, out |-> out,
                          seen |-> c.seen, warned |-> c.warned]
  BY <1>1, <1>6 DEF Calls
<1>8. c.seen \in SUBSET Nat /\ c.warned \in SUBSET Nat
  BY <1>1 DEF Calls
<1>9. Compress!Advance(t, unit) \in Calls
  BY <1>1, <1>3, <1>4, <1>5, <1>7, <1>8 DEF Calls
<1>. QED
  BY <1>3, <1>4, <1>7, <1>9 DEF out

\* A pass that moves on keeps what a call is, when the replaced message is grounded.
LEMMA AdvanceFits ==
    ASSUME Compress!CallAssumption, CallInv, NEW t \in Threads, call[t] # None, call[t].phase # "count",
           NEW unit \in Compress!Unit,
           Grounded(call[t].request, [call[t].out EXCEPT ![call[t].pos] = unit]),
           call[t].pos \in call[t].seen => unit.at = 0
    PROVE  Fits(Compress!Advance(t, unit))
<1>. DEFINE c == call[t]
            d == Compress!Advance(t, unit)
<1>1. /\ c \in Calls /\ Fits(c) /\ c.request \in Requests /\ c.pos \in DOMAIN c.request.messages
      /\ c.out \in [DOMAIN c.request.messages -> Compress!Unit]
  BY CallFacts DEF Fits, Grounded, Formed
<1>2. /\ d.request = c.request /\ d.out = [c.out EXCEPT ![c.pos] = unit] /\ d.seen = c.seen
      /\ d.pos \in Compress!WithText(c.request)
      /\ d.phase = "dedup" => c.phase = "dedup" /\ d.pos > c.pos
  BY AdvanceMoves
<1>. HIDE DEF d
<1>3. \A j \in DOMAIN c.request.messages : d.out[j] = IF j = c.pos THEN unit ELSE c.out[j]
  BY <1>1, <1>2
<1>4. ASSUME NEW i \in d.seen
      PROVE  i \in DOMAIN d.request.messages /\ Compress!Deduplicable(d.request.messages[i]) /\ d.out[i].at = 0
  BY <1>1, <1>2, <1>3 DEF Fits
<1>5. ASSUME d.phase = "dedup"
      PROVE  /\ \A i \in d.seen : i < d.pos
             /\ \A i \in DOMAIN d.request.messages :
                    i >= d.pos => d.out[i] = Compress!Whole(d.request.messages[i].text)
  <2>1. c.pos \in Nat /\ d.pos \in Nat /\ d.pos > c.pos /\ \A i \in DOMAIN c.request.messages : i \in Nat
    BY <1>1, <1>2, <1>5, RequestFacts DEF Calls
  <2>2. ASSUME NEW i \in d.seen
        PROVE  i < d.pos
    <3>1. i < c.pos /\ i \in Nat
      BY <1>1, <1>2, <1>5, <2>1 DEF Fits
    <3>. QED
      BY <2>1, <3>1
  <2>3. ASSUME NEW i \in DOMAIN c.request.messages, i >= d.pos
        PROVE  d.out[i] = Compress!Whole(c.request.messages[i].text)
    <3>1. i # c.pos /\ i >= c.pos
      BY <2>1, <2>3
    <3>. QED
      BY <1>1, <1>2, <1>3, <1>5, <3>1 DEF Fits
  <2>. QED
    BY <1>2, <2>2, <2>3
<1>6. Grounded(d.request, d.out) /\ d.pos \in Compress!WithText(d.request)
  BY <1>2
<1>7. Fits(d)
  BY <1>4, <1>5, <1>6 DEF Fits
<1>. QED
  BY <1>7 DEF d

\* A message the deduplication keeps whole becomes a source, or one is there.
LEMMA KeptMoves ==
    ASSUME Compress!CallAssumption, CallInv, NEW t \in Threads, call[t] # None, call[t].phase = "dedup"
    PROVE  /\ Compress!Kept(t) \in Calls /\ Fits(Compress!Kept(t))
           /\ Compress!Kept(t).request = call[t].request /\ Compress!Kept(t).out = call[t].out
<1>. DEFINE c == call[t]
            d == Compress!Advance(t, Compress!Current(t))
            seen == IF Compress!Deduplicable(Compress!Msg(t)) /\ Compress!Sources(t) = {} THEN d.seen \cup {c.pos} ELSE d.seen
<1>1. /\ c \in Calls /\ Fits(c) /\ c.request \in Requests /\ c.pos \in DOMAIN c.request.messages
      /\ c.out \in [DOMAIN c.request.messages -> Compress!Unit] /\ Compress!Current(t) \in Compress!Unit
  BY CallFacts DEF Fits, Grounded, Formed
<1>2. [c.out EXCEPT ![c.pos] = Compress!Current(t)] = c.out
  BY <1>1 DEF Compress!Current
<1>3. c.pos >= c.pos /\ c.pos \in Nat
  BY <1>1 DEF Calls
<1>4. Compress!Current(t).at = 0
  BY <1>1, <1>3, RequestFacts, WholeTyped DEF Fits, Compress!Current
<1>5. d \in Calls /\ Fits(d)
  BY <1>1, <1>2, <1>4, AdvanceMoves, AdvanceFits DEF Fits
<1>6. /\ d.request = c.request /\ d.out = c.out /\ d.pos \in Compress!WithText(c.request)
      /\ d.phase = "dedup" => d.pos > c.pos
  BY <1>1, <1>2, AdvanceMoves
<1>7. Compress!Kept(t) = [d EXCEPT !.seen = seen]
  BY DEF Compress!Kept
<1>. HIDE DEF d
<1>8. seen \in SUBSET Nat
  BY <1>3, <1>5 DEF Calls
<1>. HIDE DEF seen
<1>9. \A i \in seen : /\ i \in DOMAIN c.request.messages
                      /\ Compress!Deduplicable(c.request.messages[i]) /\ c.out[i].at = 0
                      /\ d.phase = "dedup" => i < d.pos
  <2>. SUFFICES ASSUME NEW i \in seen
       PROVE  /\ i \in DOMAIN c.request.messages
              /\ Compress!Deduplicable(c.request.messages[i]) /\ c.out[i].at = 0
              /\ d.phase = "dedup" => i < d.pos
    OBVIOUS
  <2>0. i \in d.seen \/ (i = c.pos /\ Compress!Deduplicable(Compress!Msg(t)))
    BY DEF seen
  <2>1. CASE i \in d.seen
    BY <1>5, <1>6, <2>1 DEF Fits
  <2>2. CASE i = c.pos /\ Compress!Deduplicable(Compress!Msg(t))
    <3>1. Compress!Deduplicable(c.request.messages[i]) /\ c.out[i].at = 0
      BY <1>4, <2>2 DEF Compress!Msg, Compress!Current
    <3>2. d.phase = "dedup" => i < d.pos
      BY <1>3, <1>5, <1>6, <2>2 DEF Calls
    <3>. QED
      BY <1>1, <2>2, <3>1, <3>2
  <2>. QED
    BY <2>0, <2>1, <2>2
<1>10. /\ Compress!Kept(t) \in Calls /\ Compress!Kept(t).seen = seen /\ Compress!Kept(t).request = d.request /\ Compress!Kept(t).out = d.out
       /\ Compress!Kept(t).pos = d.pos /\ Compress!Kept(t).phase = d.phase
  BY <1>5, <1>7, <1>8 DEF Calls
<1>11. Fits(Compress!Kept(t))
  <2>1. /\ Grounded(Compress!Kept(t).request, Compress!Kept(t).out) /\ Compress!Kept(t).pos \in Compress!WithText(Compress!Kept(t).request)
        /\ Compress!Kept(t).phase = "dedup" =>
              \A i \in DOMAIN Compress!Kept(t).request.messages :
                  i >= Compress!Kept(t).pos => Compress!Kept(t).out[i] = Compress!Whole(Compress!Kept(t).request.messages[i].text)
    BY <1>5, <1>10 DEF Fits
  <2>2. /\ \A i \in Compress!Kept(t).seen : /\ i \in DOMAIN Compress!Kept(t).request.messages
                                   /\ Compress!Deduplicable(Compress!Kept(t).request.messages[i]) /\ Compress!Kept(t).out[i].at = 0
        /\ Compress!Kept(t).phase = "dedup" => \A i \in Compress!Kept(t).seen : i < Compress!Kept(t).pos
    BY <1>6, <1>9, <1>10
  <2>. QED
    BY <2>1, <2>2 DEF Fits
<1>. QED
  BY <1>6, <1>10, <1>11
-----------------------------------------------------------------------------
(* What stays retrievable *)

Holds(u, k) == tier[k] = "durable" \/ k \in gone[u]

\* A key that u's call can count on, it can still count on.
StoreKept(u) == \A k \in Compress!Keys : Holds(u, k) => Holds(u, k)'

LEMMA NeedsKeys ==
    ASSUME Compress!CallAssumption, NEW r \in Requests, NEW out, Formed(r, out), NEW i \in DOMAIN r.messages
    PROVE  Compress!Needs(out[i]) \subseteq Compress!Keys
<1>1. out[i].form # "whole" => out[i].text \in CallTexts
  BY RequestFacts DEF Formed, Compress!WithText
<1>. QED
  BY <1>1 DEF Compress!Needs, Compress!Keys

\* Backed() in the next state.
BackedNext(u, out) ==
    \A i \in DOMAIN out : \A k \in Compress!Needs(out[i]) : tier'[k] = "durable" \/ k \in gone'[u]

LEMMA BackedKept ==
    ASSUME Compress!CallAssumption, NEW u \in Threads, StoreKept(u), NEW r \in Requests, NEW out, Formed(r, out),
           Backed(u, out)
    PROVE  BackedNext(u, out)
<1>. SUFFICES ASSUME NEW i \in DOMAIN out, NEW k \in Compress!Needs(out[i])
     PROVE  tier'[k] = "durable" \/ k \in gone'[u]
  BY DEF BackedNext
<1>1. i \in DOMAIN r.messages
  BY DEF Formed
<1>2. k \in Compress!Keys
  BY <1>1, NeedsKeys
<1>3. tier[k] = "durable" \/ k \in gone[u]
  BY DEF Backed
<1>. QED
  BY <1>2, <1>3 DEF StoreKept, Holds

\* An original that persists is there for every call, and no outcome takes one away.
LEMMA PersistKeeps ==
    ASSUME CallInv, NEW key \in Compress!Keys, NEW form, NEW how \in {"durable", "volatile", "raises"},
           Compress!Persist(key, form, how)
    PROVE  /\ tier' \in [Compress!Keys -> Compress!Tiers] /\ gone' \in [Threads -> SUBSET Compress!Keys]
           /\ \A u \in Threads : StoreKept(u)
           /\ how = "durable" => tier'[key] = "durable"
<1>1. tier \in [Compress!Keys -> Compress!Tiers] /\ gone \in [Threads -> SUBSET Compress!Keys]
  BY DEF CallInv
<1>2. /\ tier' \in [Compress!Keys -> Compress!Tiers]
      /\ \A k \in Compress!Keys : k # key => tier'[k] = tier[k]
      /\ tier[key] = "durable" => tier'[key] = "durable"
      /\ how = "durable" => tier'[key] = "durable"
  BY <1>1 DEF Compress!Persist, Compress!Tiers
<1>3. gone' \in [Threads -> SUBSET Compress!Keys]
  BY <1>1 DEF Compress!Persist
<1>4. \A u \in Threads : gone'[u] = IF how = "durable" THEN gone[u] \ {key} ELSE gone[u]
  BY DEF Compress!Persist
<1>. QED
  BY <1>2, <1>3, <1>4 DEF StoreKept, Holds

LEMMA FormedFacts ==
    ASSUME CallInv
    PROVE  /\ \A t \in Threads : call[t] # None =>
                  call[t].request \in Requests /\ Formed(call[t].request, call[t].out)
           /\ \A t \in Threads : result[t] # None =>
                  result[t].request \in Requests /\ Formed(result[t].request, result[t].out)
BY DEF CallInv, Calls, Results, Fits, Grounded

\* What the invariant says of the next state.
LEMMA NextParts ==
    ASSUME tier' \in [Compress!Keys -> Compress!Tiers], gone' \in [Threads -> SUBSET Compress!Keys],
           call' \in [Threads -> Calls \cup {None}], result' \in [Threads -> Results \cup {None}],
           \A u \in Threads : call'[u] # None => Fits(call'[u]) /\ BackedNext(u, call'[u].out),
           \A u \in Threads : result'[u] # None =>
               Grounded(result'[u].request, result'[u].out) /\ BackedNext(u, result'[u].out)
    PROVE  CallInv'
<1>1. ASSUME NEW u \in Threads, call'[u] # None
      PROVE  Fits(call[u])' /\ Backed(u, call[u].out)'
  <2>1. Fits(call'[u]) /\ BackedNext(u, call'[u].out)
    BY <1>1
  <2>2. Fits(call[u])'
    BY <2>1 DEF Fits, Grounded, Formed, Pointing, Copying, Compress!Frozen, Compress!WithText,
       Compress!Deduplicable, Compress!IsTool, Compress!Whole,
                Compress!Shared
  <2>3. Backed(u, call[u].out)'
    BY <2>1 DEF Backed, BackedNext, Compress!Needs
  <2>. QED
    BY <2>2, <2>3
<1>2. ASSUME NEW u \in Threads, result'[u] # None
      PROVE  Grounded(result[u].request, result[u].out)' /\ Backed(u, result[u].out)'
  <2>1. Grounded(result'[u].request, result'[u].out) /\ BackedNext(u, result'[u].out)
    BY <1>2
  <2>2. Grounded(result[u].request, result[u].out)'
    BY <2>1 DEF Grounded, Formed, Pointing, Copying, Compress!Frozen, Compress!WithText,
       Compress!IsTool, Compress!Shared
  <2>3. Backed(u, result[u].out)'
    BY <2>1 DEF Backed, BackedNext, Compress!Needs
  <2>. QED
    BY <2>2, <2>3
<1>. QED
  BY <1>1, <1>2 DEF CallInv, Compress!Keys, Compress!Tiers, Calls, Results, Outs, Compress!Unit,
     Compress!Forms
\* A step of t: the calls and results of the others stand.
LEMMA StepKeeps ==
    ASSUME Compress!CallAssumption, CallInv, NEW t \in Threads, NEW x \in Calls \cup {None}, NEW y \in Results \cup {None},
           call' = [call EXCEPT ![t] = x], result' = [result EXCEPT ![t] = y],
           tier' \in [Compress!Keys -> Compress!Tiers], gone' \in [Threads -> SUBSET Compress!Keys],
           \A u \in Threads : u # t => StoreKept(u),
           x # None => Fits(x) /\ BackedNext(t, x.out),
           y # None => Grounded(y.request, y.out) /\ BackedNext(t, y.out)
    PROVE  CallInv'
<1>1. /\ call \in [Threads -> Calls \cup {None}] /\ result \in [Threads -> Results \cup {None}]
      /\ \A u \in Threads : call[u] # None => Fits(call[u]) /\ Backed(u, call[u].out)
      /\ \A u \in Threads : result[u] # None =>
             Grounded(result[u].request, result[u].out) /\ Backed(u, result[u].out)
  BY DEF CallInv
<1>2. /\ call' \in [Threads -> Calls \cup {None}] /\ call'[t] = x
      /\ result' \in [Threads -> Results \cup {None}] /\ result'[t] = y
      /\ \A u \in Threads : u # t => call'[u] = call[u] /\ result'[u] = result[u]
  BY <1>1
<1>3. ASSUME NEW u \in Threads, call'[u] # None
      PROVE  Fits(call'[u]) /\ BackedNext(u, call'[u].out)
  <2>1. CASE u = t
    BY <1>2, <1>3, <2>1
  <2>2. CASE u # t
    <3>1. call'[u] = call[u] /\ Fits(call[u]) /\ Backed(u, call[u].out) /\ StoreKept(u)
          /\ call[u].request \in Requests /\ Formed(call[u].request, call[u].out)
      BY <1>1, <1>2, <1>3, <2>2, FormedFacts
    <3>. QED
      BY <3>1, BackedKept
  <2>. QED
    BY <2>1, <2>2
<1>4. ASSUME NEW u \in Threads, result'[u] # None
      PROVE  Grounded(result'[u].request, result'[u].out) /\ BackedNext(u, result'[u].out)
  <2>1. CASE u = t
    BY <1>2, <1>4, <2>1
  <2>2. CASE u # t
    <3>1. result'[u] = result[u] /\ Grounded(result[u].request, result[u].out)
          /\ Backed(u, result[u].out) /\ StoreKept(u)
          /\ result[u].request \in Requests /\ Formed(result[u].request, result[u].out)
      BY <1>1, <1>2, <1>4, <2>2, FormedFacts
    <3>. QED
      BY <3>1, BackedKept
  <2>. QED
    BY <2>1, <2>2
<1>. QED
  BY <1>2, <1>3, <1>4, NextParts

\* A pass of t over one message.
LEMMA PassKeeps ==
    ASSUME Compress!CallAssumption, CallInv, NEW t \in Threads, NEW x \in Calls,
           call' = [call EXCEPT ![t] = x], result' = result,
           tier' \in [Compress!Keys -> Compress!Tiers], gone' \in [Threads -> SUBSET Compress!Keys],
           \A u \in Threads : StoreKept(u),
           Fits(x), BackedNext(t, x.out)
    PROVE  CallInv'
<1>1. result \in [Threads -> Results \cup {None}]
  BY DEF CallInv
<1>2. result' = [result EXCEPT ![t] = result[t]] /\ result[t] \in Results \cup {None}
  BY <1>1
<1>3. result[t] # None => Grounded(result[t].request, result[t].out) /\ BackedNext(t, result[t].out)
  <2>1. result[t] # None => /\ Grounded(result[t].request, result[t].out) /\ Backed(t, result[t].out)
                            /\ result[t].request \in Requests /\ Formed(result[t].request, result[t].out)
    BY FormedFacts DEF CallInv
  <2>. QED
    BY <2>1, BackedKept
<1>. QED
  BY <1>2, <1>3, StepKeeps

\* The tiers and the losses as they are.
LEMMA StoreUnchanged ==
    ASSUME CallInv, tier' = tier, gone' = gone
    PROVE  /\ tier' \in [Compress!Keys -> Compress!Tiers] /\ gone' \in [Threads -> SUBSET Compress!Keys]
           /\ \A u \in Threads : StoreKept(u)
           /\ \A u, out : Backed(u, out) => BackedNext(u, out)
BY DEF CallInv, StoreKept, Holds, Backed, BackedNext

\* A pass that leaves the message as it is.
LEMMA KeepKeeps ==
    ASSUME Compress!CallAssumption, CallInv, NEW t \in Threads, call[t] # None, call[t].phase # "count",
           call' = [call EXCEPT ![t] = Compress!Advance(t, Compress!Current(t))], UNCHANGED <<tier, gone, result>>,
           call[t].phase # "dedup"
    PROVE  CallInv'
<1>. DEFINE c == call[t]
            x == Compress!Advance(t, Compress!Current(t))
<1>1. /\ c \in Calls /\ Fits(c) /\ Backed(t, c.out) /\ c.pos \in DOMAIN c.request.messages
      /\ Compress!Current(t) \in Compress!Unit /\ Grounded(c.request, c.out)
      /\ c.out \in [DOMAIN c.request.messages -> Compress!Unit]
  BY CallFacts DEF Fits, Grounded, Formed
<1>2. [c.out EXCEPT ![c.pos] = Compress!Current(t)] = c.out
  BY <1>1 DEF Compress!Current
<1>3. c.pos \in c.seen => Compress!Current(t).at = 0
  BY <1>1 DEF Fits, Compress!Current
<1>4. x \in Calls /\ x.out = c.out
  BY <1>1, <1>2, AdvanceMoves
<1>5. Fits(x)
  BY <1>1, <1>2, <1>3, AdvanceFits
<1>6. BackedNext(t, x.out)
  BY <1>1, <1>4, StoreUnchanged
<1>. HIDE DEF x
<1>. QED
  BY <1>4, <1>5, <1>6, StoreUnchanged, PassKeeps DEF x

LEMMA DedupKeepKeeps ==
    ASSUME Compress!CallAssumption, CallInv, NEW t \in Threads, Compress!DedupKeep(t)
    PROVE  CallInv'
<1>1. /\ call[t] # None /\ call[t].phase = "dedup" /\ call' = [call EXCEPT ![t] = Compress!Kept(t)]
      /\ UNCHANGED <<tier, gone, result>>
  BY DEF Compress!DedupKeep, Compress!In, Compress!store
<1>2. Compress!Kept(t) \in Calls /\ Fits(Compress!Kept(t)) /\ Compress!Kept(t).out = call[t].out
  BY <1>1, KeptMoves
<1>3. BackedNext(t, Compress!Kept(t).out)
  BY <1>1, <1>2, CallFacts, StoreUnchanged
<1>. QED
  BY <1>1, <1>2, <1>3, StoreUnchanged, PassKeeps
-----------------------------------------------------------------------------
(* The deduplication *)

\* The instance counts as this module does.
LEMMA CompressFinite == \A S : Compress!IsFiniteSet(S) <=> IsFiniteSet(S)
BY DEF IsFiniteSet, Compress!IsFiniteSet

LEMMA CompressCardinality == \A S : Compress!Cardinality(S) = Cardinality(S)
BY DEF Cardinality, Compress!Cardinality

LEMMA SharedRows ==
    ASSUME Compress!CallAssumption, NEW text \in CallTexts, NEW source
    PROVE  Compress!Cardinality(Compress!Shared(text, source)) \in Nat
<1>1. IsFiniteSet(RowsOf[text]) /\ Compress!Shared(text, source) \subseteq RowsOf[text]
  BY CompressFinite DEF Compress!CallAssumption, Compress!Shared
<1>. QED
  BY <1>1, CompressCardinality, FS_Subset, FS_CardinalityType

\* What is near enough to be a source was kept whole.
LEMMA NearSourceFacts ==
    ASSUME Compress!CallAssumption, CallInv, NEW t \in Threads, call[t] # None, Compress!NearSource(t) # None
    PROVE  /\ Compress!NearSource(t) \in call[t].seen
           /\ Compress!Cardinality(Compress!Shared(Compress!Msg(t).text, call[t].request.messages[Compress!NearSource(t)].text)) >= MinShared
<1>. DEFINE text == Compress!Msg(t).text
            kept(i) == call[t].request.messages[i].text
            shared(i) == Compress!Cardinality(Compress!Shared(text, kept(i)))
            arrays == {i \in call[t].seen : RowsOf[kept(i)] # {}}
            recent == {i \in arrays : Compress!Cardinality({j \in arrays : j > i}) < MaxSources}
            best == {i \in recent : \A j \in recent : shared(j) <= shared(i)}
<1>1. best # {} /\ ~(shared(Compress!Min(best)) < MinShared) /\ Compress!NearSource(t) = Compress!Min(best)
  BY DEF Compress!NearSource
<1>2. best \in SUBSET Nat /\ best \subseteq call[t].seen
  BY CallFacts DEF Calls
<1>3. Compress!Min(best) \in best
  <2>. HIDE DEF best
  <2>. QED
    BY <1>1, <1>2, MinOfNats
<1>4. shared(Compress!Min(best)) \in Nat /\ MinShared \in Nat
  BY CallFacts, SharedRows DEF Compress!CallAssumption
<1>5. shared(Compress!Min(best)) >= MinShared
  <2>. HIDE DEF shared, best
  <2>. QED
    BY <1>1, <1>4
<1>. QED
  BY <1>1, <1>2, <1>3, <1>5

LEMMA SourcesFacts ==
    ASSUME Compress!CallAssumption, CallInv, NEW t \in Threads, call[t] # None, Compress!Sources(t) # {}
    PROVE  /\ Compress!Max(Compress!Sources(t)) \in call[t].seen
           /\ call[t].request.messages[Compress!Max(Compress!Sources(t))].text = Compress!Msg(t).text
<1>1. call[t].request \in Requests /\ Fits(call[t])
  BY CallFacts
<1>2. Len(call[t].request.messages) \in Nat
      /\ Compress!Sources(t) \in SUBSET (0..Len(call[t].request.messages))
  BY <1>1, RequestFacts DEF Fits, Compress!Sources
<1>3. Compress!Max(Compress!Sources(t)) \in Compress!Sources(t)
  BY <1>2, MaxOfNats
<1>. QED
  BY <1>3 DEF Compress!Sources

\* What the deduplication would replace a message by points at a source.
LEMMA PlanFacts ==
    ASSUME Compress!CallAssumption, CallInv, NEW t \in Threads, call[t] # None, Compress!Plan(t) # None
    PROVE  /\ Compress!Plan(t) \in Compress!Unit /\ Compress!Plan(t).text = Compress!Msg(t).text /\ Compress!Plan(t).base = "whole"
           /\ Compress!Plan(t).form \in {"duplicate", "near"} /\ Compress!Plan(t).at \in call[t].seen
           /\ call[t].pos > Compress!Frozen(call[t].request) /\ Compress!Deduplicable(Compress!Msg(t))
           /\ LET source == call[t].request.messages[Compress!Plan(t).at] IN
              IF Compress!Plan(t).form = "duplicate" THEN source.text = Compress!Msg(t).text
              ELSE Compress!Cardinality(Compress!Shared(Compress!Msg(t).text, source.text)) >= MinShared
<1>1. Compress!Deduplicable(Compress!Msg(t)) /\ Compress!Replaceable(t)
  BY DEF Compress!Plan
<1>2. call[t].pos > Compress!Frozen(call[t].request)
  BY <1>1 DEF Compress!Replaceable
<1>3. Compress!Msg(t).text \in CallTexts /\ call[t].seen \subseteq Nat
  BY CallFacts DEF Calls
<1>4. CASE Compress!Sources(t) # {}
  <2>. DEFINE at == Compress!Max(Compress!Sources(t))
  <2>1. Compress!Plan(t) = [Compress!Whole(Compress!Msg(t).text) EXCEPT !.form = "duplicate", !.at = at]
    BY <1>1, <1>4 DEF Compress!Plan
  <2>2. at \in call[t].seen /\ call[t].request.messages[at].text = Compress!Msg(t).text
    BY <1>4, SourcesFacts
  <2>. HIDE DEF at
  <2>3. /\ Compress!Plan(t) \in Compress!Unit /\ Compress!Plan(t).text = Compress!Msg(t).text /\ Compress!Plan(t).base = "whole"
        /\ Compress!Plan(t).form = "duplicate" /\ Compress!Plan(t).at = at
    BY <1>3, <2>1, <2>2 DEF Compress!Whole, Compress!Unit, Compress!Forms
  <2>. QED
    BY <1>1, <1>2, <2>2, <2>3
<1>5. CASE Compress!Sources(t) = {}
  <2>. DEFINE at == Compress!NearSource(t)
  <2>1. Compress!Plan(t) = [Compress!Whole(Compress!Msg(t).text) EXCEPT !.form = "near", !.at = at] /\ Compress!NearSource(t) # None
    BY <1>1, <1>5 DEF Compress!Plan
  <2>2. /\ at \in call[t].seen
        /\ Compress!Cardinality(Compress!Shared(Compress!Msg(t).text, call[t].request.messages[at].text)) >= MinShared
    BY <2>1, NearSourceFacts
  <2>. HIDE DEF at
  <2>3. /\ Compress!Plan(t) \in Compress!Unit /\ Compress!Plan(t).text = Compress!Msg(t).text /\ Compress!Plan(t).base = "whole"
        /\ Compress!Plan(t).form = "near" /\ Compress!Plan(t).at = at
    BY <1>3, <2>1, <2>2 DEF Compress!Whole, Compress!Unit, Compress!Forms
  <2>. QED
    BY <1>1, <1>2, <2>2, <2>3
<1>. QED
  BY <1>4, <1>5

\* A replaced message needs the original that has just become durable.
LEMMA ReplacedBacked ==
    ASSUME NEW t, NEW r, NEW out \in [DOMAIN r.messages -> Compress!Unit], NEW i \in DOMAIN r.messages, NEW unit,
           BackedNext(t, out), \A k \in Compress!Needs(unit) : tier'[k] = "durable" \/ k \in gone'[t]
    PROVE  BackedNext(t, [out EXCEPT ![i] = unit])
BY DEF BackedNext

LEMMA DedupReplaceKeeps ==
    ASSUME Compress!CallAssumption, CallInv, NEW t \in Threads, NEW how \in {"durable", "volatile", "raises"},
           Compress!DedupReplace(t, how)
    PROVE  CallInv'
<1>. DEFINE c == call[t]
            r == c.request
            i == c.pos
            key == <<Compress!Msg(t).text, "whole">>
            unit == Compress!Plan(t)
            x == IF Compress!Vetoed(how) THEN Compress!Kept(t) ELSE Compress!Advance(t, unit)
<1>1. /\ c # None /\ c.phase = "dedup" /\ unit # None
      /\ Compress!Persist(key, unit.form, how) /\ call' = [call EXCEPT ![t] = x] /\ result' = result
  BY DEF Compress!DedupReplace, Compress!In
<1>2. /\ c \in Calls /\ Fits(c) /\ Backed(t, c.out) /\ r \in Requests /\ i \in DOMAIN r.messages
      /\ c.out \in [DOMAIN r.messages -> Compress!Unit] /\ Compress!Msg(t).text \in CallTexts /\ Formed(r, c.out)
      /\ Grounded(r, c.out) /\ i \in Compress!WithText(r)
  BY <1>1, CallFacts DEF Fits, Grounded, Formed
<1>3. key \in Compress!Keys
  BY <1>2 DEF Compress!Keys
<1>4. /\ tier' \in [Compress!Keys -> Compress!Tiers] /\ gone' \in [Threads -> SUBSET Compress!Keys]
      /\ \A u \in Threads : StoreKept(u)
      /\ how = "durable" => tier'[key] = "durable"
  <2>. HIDE DEF key
  <2>. QED
    BY <1>1, <1>3, PersistKeeps
<1>5. BackedNext(t, c.out)
  BY <1>2, <1>4, BackedKept
<1>6. CASE Compress!Vetoed(how)
  <2>1. x = Compress!Kept(t) /\ Compress!Kept(t) \in Calls /\ Fits(Compress!Kept(t)) /\ Compress!Kept(t).out = c.out
    BY <1>1, <1>6, KeptMoves
  <2>. HIDE DEF x
  <2>. QED
    BY <1>1, <1>4, <1>5, <2>1, PassKeeps
<1>7. CASE ~Compress!Vetoed(how)
  <2>. DEFINE new == [c.out EXCEPT ![i] = unit]
  <2>1. /\ unit \in Compress!Unit /\ unit.text = Compress!Msg(t).text /\ unit.base = "whole"
        /\ unit.form \in {"duplicate", "near"} /\ unit.at \in c.seen
        /\ i > Compress!Frozen(r) /\ Compress!Deduplicable(Compress!Msg(t))
        /\ IF unit.form = "duplicate" THEN r.messages[unit.at].text = Compress!Msg(t).text
           ELSE Compress!Cardinality(Compress!Shared(Compress!Msg(t).text, r.messages[unit.at].text)) >= MinShared
    BY <1>1, PlanFacts
  <2>2. /\ unit.at \in DOMAIN r.messages /\ unit.at < i /\ c.out[unit.at].at = 0
        /\ Compress!Deduplicable(r.messages[unit.at])
    BY <1>1, <1>2, <2>1 DEF Fits
  <2>3. \A j \in DOMAIN r.messages : j >= i => c.out[j].at = 0
    <3>1. \A j \in DOMAIN r.messages : j >= i => c.out[j] = Compress!Whole(r.messages[j].text)
      BY <1>1, <1>2 DEF Fits
    <3>2. \A text : Compress!Whole(text).at = 0
      BY DEF Compress!Whole
    <3>. QED
      BY <3>1, <3>2
  <2>4. Compress!Msg(t) = r.messages[i] /\ c.out[i].text = r.messages[i].text
        /\ c.out[unit.at].text = r.messages[unit.at].text
    BY <1>2, <2>2 DEF Compress!Msg, Formed
  <2>5. Grounded(r, new)
    <3>. HIDE DEF unit
    <3>1. unit.form = "duplicate" =>
               /\ Compress!IsTool(r.messages[i]) /\ r.messages[i].text \in Bulky
               /\ Compress!IsTool(r.messages[unit.at]) /\ r.messages[unit.at].text = r.messages[i].text
      BY <2>1, <2>2, <2>4 DEF Compress!Deduplicable
    <3>2. \/ c.out[unit.at].text = unit.text
          \/ Compress!Cardinality(Compress!Shared(unit.text, c.out[unit.at].text)) >= MinShared
      BY <2>1, <2>4
    <3>3. ~r.messages[i].failed /\ ~r.messages[unit.at].failed
      BY <2>1, <2>2, <2>4 DEF Compress!Deduplicable
    <3>. HIDE DEF c, i, r
    <3>. QED
      BY <1>2, <2>1, <2>2, <2>3, <2>4, <3>1, <3>2, <3>3, PointedGrounded
  <2>6. i \notin c.seen
    <3>1. \A j \in c.seen : j < i
      BY <1>1, <1>2 DEF Fits
    <3>2. i \in Nat
      BY <1>2 DEF Calls
    <3>. QED
      BY <3>1, <3>2
  <2>7. x \in Calls /\ x.out = new /\ Fits(x)
    BY <1>1, <1>7, <2>1, <2>5, <2>6, AdvanceMoves, AdvanceFits
  <2>8. BackedNext(t, new)
    <3>1. Compress!Needs(unit) = {key}
      BY <2>1 DEF Compress!Needs
    <3>2. how = "durable"
      BY <1>7 DEF Compress!Vetoed
    <3>. HIDE DEF unit, key, c
    <3>. QED
      BY <1>2, <1>4, <1>5, <3>1, <3>2, ReplacedBacked
  <2>. HIDE DEF x, new
  <2>. QED
    BY <1>1, <1>4, <2>7, <2>8, PassKeeps
<1>. QED
  BY <1>6, <1>7
-----------------------------------------------------------------------------
(* The lifecycle and the router *)

\* A message past the deduplication in a form that points where it pointed, whose originals
\* are there.
LEMMA ReformKeeps ==
    ASSUME Compress!CallAssumption, CallInv, NEW t \in Threads, call[t] # None, call[t].phase \in {"lifecycle", "route"},
           NEW unit \in Compress!Unit, unit.text = Compress!Msg(t).text, unit.at = Compress!Current(t).at,
           unit.base = "near" => unit.form = "lifecycle", unit.form # "duplicate",
           call[t].pos > Compress!Frozen(call[t].request),
           call' = [call EXCEPT ![t] = Compress!Advance(t, unit)], result' = result,
           tier' \in [Compress!Keys -> Compress!Tiers], gone' \in [Threads -> SUBSET Compress!Keys],
           \A u \in Threads : StoreKept(u),
           \A k \in Compress!Needs(unit) : tier'[k] = "durable" \/ k \in gone'[t]
    PROVE  CallInv'
<1>. DEFINE c == call[t]
            r == c.request
            i == c.pos
            new == [c.out EXCEPT ![i] = unit]
            x == Compress!Advance(t, unit)
<1>1. /\ c \in Calls /\ Fits(c) /\ Backed(t, c.out) /\ r \in Requests /\ i \in DOMAIN r.messages
      /\ c.out \in [DOMAIN r.messages -> Compress!Unit] /\ Formed(r, c.out) /\ Grounded(r, c.out)
      /\ i \in Compress!WithText(r) /\ c.out[i].text = Compress!Msg(t).text
  BY CallFacts DEF Fits, Grounded, Formed, Compress!Current
<1>2. BackedNext(t, c.out)
  BY <1>1, BackedKept
<1>3. Grounded(r, new)
  <2>1. unit.text = c.out[i].text /\ unit.at = c.out[i].at
    BY <1>1 DEF Compress!Current
  <2>. HIDE DEF c, r, i
  <2>. QED
    BY <1>1, <2>1, ReformedGrounded DEF c, r, i
<1>4. i \in c.seen => unit.at = 0
  BY <1>1 DEF Fits, Compress!Current
<1>5. x \in Calls /\ x.out = new /\ Fits(x)
  BY <1>1, <1>3, <1>4, AdvanceMoves, AdvanceFits
<1>6. BackedNext(t, new)
  BY <1>1, <1>2, ReplacedBacked
<1>. HIDE DEF x, new
<1>. QED
  BY <1>5, <1>6, PassKeeps DEF x

LEMMA ReadReplaceKeeps ==
    ASSUME Compress!CallAssumption, CallInv, NEW t \in Threads, NEW how \in {"durable", "volatile"},
           Compress!ReadReplace(t, how)
    PROVE  CallInv'
<1>. DEFINE base == IF Compress!Current(t).form = "near" THEN "near" ELSE "whole"
            key == <<Compress!Msg(t).text, base>>
            unit == [Compress!Current(t) EXCEPT !.form = "lifecycle", !.base = base]
<1>1. /\ call[t] # None /\ call[t].phase = "lifecycle" /\ Compress!Outdated(t)
      /\ Compress!Persist(key, "lifecycle", how) /\ result' = result
      /\ call' = [call EXCEPT ![t] = Compress!Advance(t, IF Compress!Vetoed(how) THEN Compress!Current(t) ELSE unit)]
  BY DEF Compress!ReadReplace, Compress!In
<1>2. /\ call[t] \in Calls /\ Fits(call[t]) /\ Backed(t, call[t].out) /\ call[t].request \in Requests
      /\ call[t].pos \in DOMAIN call[t].request.messages
      /\ Compress!Current(t) \in Compress!Unit /\ Compress!Current(t).text = Compress!Msg(t).text /\ Compress!Msg(t).text \in CallTexts
      /\ Formed(call[t].request, call[t].out)
      /\ Compress!Current(t) = call[t].out[call[t].pos] /\ DOMAIN call[t].out = DOMAIN call[t].request.messages
  BY <1>1, CallFacts DEF Fits, Grounded, Formed, Compress!Current
<1>3. key \in Compress!Keys
  BY <1>2 DEF Compress!Keys
<1>4. /\ tier' \in [Compress!Keys -> Compress!Tiers] /\ gone' \in [Threads -> SUBSET Compress!Keys]
      /\ \A u \in Threads : StoreKept(u)
      /\ how = "durable" => tier'[key] = "durable"
  <2>. HIDE DEF key
  <2>. QED
    BY <1>1, <1>3, PersistKeeps
<1>5. BackedNext(t, call[t].out)
  BY <1>2, <1>4, BackedKept
<1>6. call[t].pos > Compress!Frozen(call[t].request)
  <2>1. Compress!Msg(t).call > Compress!Frozen(call[t].request)
    BY <1>1 DEF Compress!Outdated
  <2>2. /\ Compress!Msg(t).call \in 0..(call[t].pos - 1) /\ call[t].pos \in Nat
        /\ Compress!Frozen(call[t].request) \in Nat
    <3>1. Compress!Msg(t).call \in 0..(call[t].pos - 1)
      BY <1>2, RequestFacts DEF Compress!Msg
    <3>2. Compress!Frozen(call[t].request) \in 0..Len(call[t].request.messages)
      BY <1>2, FrozenMarked
    <3>3. call[t].pos \in Nat
      BY <1>2 DEF Calls
    <3>. QED
      BY <1>2, <3>1, <3>2, <3>3, RequestFacts
  <2>. QED
    BY <2>1, <2>2
<1>7. CASE Compress!Vetoed(how)
  <2>1. call' = [call EXCEPT ![t] = Compress!Advance(t, Compress!Current(t))]
    BY <1>1, <1>7
  <2>2. [call[t].out EXCEPT ![call[t].pos] = Compress!Current(t)] = call[t].out
    BY <1>2 DEF Formed
  <2>3. /\ Compress!Advance(t, Compress!Current(t)) \in Calls /\ Compress!Advance(t, Compress!Current(t)).out = call[t].out
    BY <1>1, <1>2, <2>2, AdvanceMoves
  <2>4. Fits(Compress!Advance(t, Compress!Current(t)))
    <3>1. call[t].pos \in call[t].seen => Compress!Current(t).at = 0
      BY <1>2 DEF Fits
    <3>2. Grounded(call[t].request, call[t].out)
      BY <1>2 DEF Fits
    <3>. QED
      BY <1>1, <1>2, <2>2, <3>1, <3>2, AdvanceFits
  <2>. QED
    BY <1>1, <1>4, <1>5, <2>1, <2>3, <2>4, PassKeeps
<1>8. CASE ~Compress!Vetoed(how)
  <2>1. how = "durable" /\ call' = [call EXCEPT ![t] = Compress!Advance(t, unit)]
    BY <1>1, <1>8 DEF Compress!Vetoed
  <2>2. /\ unit \in Compress!Unit /\ unit.text = Compress!Msg(t).text /\ unit.at = Compress!Current(t).at
        /\ unit.form = "lifecycle" /\ unit.base = base
    BY <1>2 DEF Compress!Unit, Compress!Forms
  <2>3. \A k \in Compress!Needs(unit) : tier'[k] = "durable" \/ k \in gone'[t]
    <3>1. CASE Compress!Current(t).form = "near"
      <4>1. <<Compress!Msg(t).text, "whole">> \in Compress!Needs(Compress!Current(t))
        BY <1>2, <3>1 DEF Compress!Needs
      <4>2. tier'[<<Compress!Msg(t).text, "whole">>] = "durable" \/ <<Compress!Msg(t).text, "whole">> \in gone'[t]
        BY <1>2, <1>5, <4>1 DEF BackedNext
      <4>3. tier'[<<Compress!Msg(t).text, "near">>] = "durable"
        BY <1>4, <2>1, <3>1
      <4>4. Compress!Needs(unit) \subseteq {<<Compress!Msg(t).text, "whole">>, <<Compress!Msg(t).text, "near">>}
        BY <2>2 DEF Compress!Needs
      <4>. QED
        BY <4>2, <4>3, <4>4
    <3>2. CASE Compress!Current(t).form # "near"
      <4>1. Compress!Needs(unit) = {<<Compress!Msg(t).text, "whole">>}
        BY <2>2, <3>2 DEF Compress!Needs
      <4>2. tier'[<<Compress!Msg(t).text, "whole">>] = "durable"
        BY <1>4, <2>1, <3>2
      <4>. QED
        BY <4>1, <4>2
    <3>. QED
      BY <3>1, <3>2
  <2>. HIDE DEF unit
  <2>. QED
    BY <1>1, <1>4, <1>6, <2>1, <2>2, <2>3, ReformKeeps
<1>. QED
  BY <1>7, <1>8

LEMMA RouteReplaceKeeps ==
    ASSUME Compress!CallAssumption, CallInv, NEW t \in Threads, Compress!RouteReplace(t)
    PROVE  CallInv'
<1>. DEFINE key == <<Compress!Msg(t).text, "whole">>
            unit == [Compress!Current(t) EXCEPT !.form = "routed"]
<1>1. /\ call[t] # None /\ call[t].phase = "route" /\ Compress!Disposition(t) = "compressible"
      /\ Compress!Persist(key, "routed", "durable") /\ result' = result
      /\ call' = [call EXCEPT ![t] = Compress!Advance(t, unit)]
  BY DEF Compress!RouteReplace, Compress!In
<1>2. /\ call[t].request \in Requests /\ call[t].pos \in DOMAIN call[t].request.messages
      /\ Compress!Current(t) \in Compress!Unit /\ Compress!Current(t).text = Compress!Msg(t).text /\ Compress!Msg(t).text \in CallTexts
      /\ Compress!Current(t).base = "near" => Compress!Current(t).form = "lifecycle"
  BY <1>1, CallFacts DEF Fits, Grounded, Formed, Compress!Current
<1>3. Compress!Current(t).form = "whole" /\ ~(call[t].pos <= Compress!Frozen(call[t].request))
  BY <1>1 DEF Compress!Disposition
<1>4. call[t].pos > Compress!Frozen(call[t].request)
  BY <1>2, <1>3, RequestFacts, FrozenMarked
<1>5. key \in Compress!Keys
  BY <1>2 DEF Compress!Keys
<1>6. /\ tier' \in [Compress!Keys -> Compress!Tiers] /\ gone' \in [Threads -> SUBSET Compress!Keys]
      /\ \A u \in Threads : StoreKept(u)
      /\ tier'[key] = "durable"
  <2>. HIDE DEF key
  <2>. QED
    BY <1>1, <1>5, PersistKeeps
<1>7. /\ unit \in Compress!Unit /\ unit.text = Compress!Msg(t).text /\ unit.at = Compress!Current(t).at
      /\ unit.form = "routed" /\ unit.base = "whole"
  BY <1>2, <1>3 DEF Compress!Unit, Compress!Forms
<1>8. Compress!Needs(unit) = {key}
  BY <1>7 DEF Compress!Needs
<1>. HIDE DEF unit, key
<1>. QED
  BY <1>1, <1>4, <1>6, <1>7, <1>8, ReformKeeps

-----------------------------------------------------------------------------
(* Beginning and ending a call *)

LEMMA SuspectsNat ==
    ASSUME Compress!CallAssumption, NEW r \in Requests
    PROVE  Compress!Suspects(r) \in SUBSET Nat /\ Compress!Unstable(r) \in SUBSET Nat
<1>1. Compress!Frozen(r) \in Nat /\ DOMAIN r.messages \subseteq Nat
  BY FrozenMarked, RequestFacts
<1>. QED
  BY <1>1 DEF Compress!Suspects, Compress!Unstable

LEMMA UntransformedBacked ==
    ASSUME Compress!CallAssumption, NEW r \in Requests
    PROVE  \A t : BackedNext(t, Compress!Untransformed(r))
<1>1. \A i \in DOMAIN r.messages : Compress!Untransformed(r)[i] = Compress!Whole(r.messages[i].text)
  BY UntransformedGrounded
<1>2. DOMAIN Compress!Untransformed(r) = DOMAIN r.messages
  BY DEF Compress!Untransformed
<1>3. \A i \in DOMAIN Compress!Untransformed(r) : Compress!Needs(Compress!Untransformed(r)[i]) = {}
  <2>1. \A text : Compress!Needs(Compress!Whole(text)) = {}
    BY DEF Compress!Needs, Compress!Whole
  <2>. QED
    BY <1>1, <1>2, <2>1
<1>. QED
  BY <1>3 DEF BackedNext

LEMMA StartKeeps ==
    ASSUME Compress!CallAssumption, CallInv, NEW t \in Threads, NEW r \in Requests, Compress!Start(t, r)
    PROVE  CallInv'
<1>. DEFINE out == Compress!Untransformed(r)
            warned == Compress!Suspects(r) \cup Compress!Unstable(r)
            stage == IF Len(r.messages) > 1 THEN "dedup" ELSE "lifecycle"
            pos == Compress!Min(Compress!WithText(r))
            x == [request |-> r, phase |-> stage, pos |-> pos, out |-> out, seen |-> {}, warned |-> warned]
            y == [request |-> r, out |-> out, warned |-> Compress!Suspects(r)]
<1>1. /\ call[t] = None /\ gone' = [gone EXCEPT ![t] = {}] /\ UNCHANGED tier
      /\ IF time < openUntil
         THEN result' = [result EXCEPT ![t] = y] /\ UNCHANGED call
         ELSE call' = [call EXCEPT ![t] = x] /\ result' = [result EXCEPT ![t] = None]
  BY DEF Compress!Start
<1>2. /\ out \in Outs /\ Grounded(r, out) /\ BackedNext(t, out)
      /\ \A i \in DOMAIN r.messages : out[i] = Compress!Whole(r.messages[i].text)
      /\ warned \in SUBSET Nat /\ Compress!Suspects(r) \in SUBSET Nat /\ pos \in Compress!WithText(r) /\ pos \in Nat
  BY UntransformedGrounded, UntransformedBacked, SuspectsNat, FirstWithText, RequestFacts
<1>3. /\ tier' \in [Compress!Keys -> Compress!Tiers] /\ gone' \in [Threads -> SUBSET Compress!Keys]
      /\ \A u \in Threads : u # t => StoreKept(u)
  BY <1>1 DEF CallInv, StoreKept, Holds
<1>4. call \in [Threads -> Calls \cup {None}]
  BY DEF CallInv
<1>. HIDE DEF out, warned, pos
<1>5. CASE time < openUntil
  <2>1. y \in Results /\ y.request = r /\ y.out = out
    BY <1>2 DEF Results
  <2>2. call' = [call EXCEPT ![t] = None] /\ result' = [result EXCEPT ![t] = y]
    BY <1>1, <1>4, <1>5
  <2>. HIDE DEF y
  <2>. QED
    BY <1>2, <1>3, <2>1, <2>2, StepKeeps
<1>6. CASE ~(time < openUntil)
  <2>1. x \in Calls /\ x.out = out
    BY <1>2 DEF Calls
  <2>2. Fits(x)
    BY <1>2 DEF Fits
  <2>3. call' = [call EXCEPT ![t] = x] /\ result' = [result EXCEPT ![t] = None]
    BY <1>1, <1>6
  <2>. HIDE DEF x
  <2>. QED
    BY <1>2, <1>3, <2>1, <2>2, <2>3, StepKeeps
<1>. QED
  BY <1>5, <1>6

\* A call ends with what its passes made of the request, or with the request itself.
LEMMA DeliverKeeps ==
    ASSUME Compress!CallAssumption, CallInv, NEW t \in Threads, call[t] # None,
           NEW out \in {call[t].out, Compress!Untransformed(call[t].request)}, Compress!Deliver(t, out)
    PROVE  CallInv'
<1>. DEFINE c == call[t]
            y == [request |-> c.request, out |-> out, warned |-> c.warned]
<1>1. call' = [call EXCEPT ![t] = None] /\ result' = [result EXCEPT ![t] = y] /\ UNCHANGED <<tier, gone>>
  BY DEF Compress!Deliver, Compress!store
<1>2. c \in Calls /\ Fits(c) /\ Backed(t, c.out) /\ c.request \in Requests
  BY CallFacts
<1>3. out \in Outs /\ Grounded(c.request, out) /\ BackedNext(t, out)
  BY <1>1, <1>2, UntransformedGrounded, UntransformedBacked, StoreUnchanged DEF Calls, Fits
<1>4. y \in Results /\ y.request = c.request /\ y.out = out
  BY <1>2, <1>3 DEF Results, Calls
<1>. HIDE DEF y
<1>. QED
  BY <1>1, <1>3, <1>4, StoreUnchanged, StepKeeps
\* A key that is lost is one that nobody counts on any longer.
LEMMA LoseKeeps ==
    ASSUME Compress!CallAssumption, CallInv, NEW key \in Compress!Keys, Compress!Lose(key)
    PROVE  CallInv'
<1>1. /\ tier' = [tier EXCEPT ![key] = "absent"]
      /\ gone' = [u \in Threads |-> gone[u] \cup {key}]
      /\ UNCHANGED <<call, result>>
  BY DEF Compress!Lose
<1>2. /\ tier \in [Compress!Keys -> Compress!Tiers] /\ gone \in [Threads -> SUBSET Compress!Keys]
      /\ call \in [Threads -> Calls \cup {None}] /\ result \in [Threads -> Results \cup {None}]
  BY DEF CallInv
<1>3. tier' \in [Compress!Keys -> Compress!Tiers] /\ gone' \in [Threads -> SUBSET Compress!Keys]
  BY <1>1, <1>2 DEF Compress!Tiers
<1>4. \A u \in Threads : StoreKept(u)
  BY <1>1, <1>2 DEF StoreKept, Holds
<1>5. ASSUME NEW u \in Threads, call[u] # None
      PROVE  Fits(call[u]) /\ BackedNext(u, call[u].out)
  <2>1. /\ Fits(call[u]) /\ Backed(u, call[u].out)
        /\ call[u].request \in Requests /\ Formed(call[u].request, call[u].out)
    BY <1>5, FormedFacts DEF CallInv
  <2>. QED
    BY <1>4, <2>1, BackedKept
<1>6. ASSUME NEW u \in Threads, result[u] # None
      PROVE  Grounded(result[u].request, result[u].out) /\ BackedNext(u, result[u].out)
  <2>1. /\ Grounded(result[u].request, result[u].out) /\ Backed(u, result[u].out)
        /\ result[u].request \in Requests /\ Formed(result[u].request, result[u].out)
    BY <1>6, FormedFacts DEF CallInv
  <2>. QED
    BY <1>4, <2>1, BackedKept
<1>. QED
  BY <1>1, <1>2, <1>3, <1>5, <1>6, NextParts

\* Steps of the clock and of the breaker.
LEMMA IdleKeeps ==
    ASSUME Compress!CallAssumption, CallInv, UNCHANGED <<tier, gone, call, result>>
    PROVE  CallInv'
<1>1. call \in [Threads -> Calls \cup {None}] /\ result \in [Threads -> Results \cup {None}]
  BY DEF CallInv
<1>2. \A u \in Threads : call[u] # None => Fits(call[u]) /\ BackedNext(u, call[u].out)
  BY StoreUnchanged DEF CallInv
<1>3. \A u \in Threads : result[u] # None =>
          Grounded(result[u].request, result[u].out) /\ BackedNext(u, result[u].out)
  BY StoreUnchanged DEF CallInv
<1>. QED
  BY <1>1, <1>2, <1>3, StoreUnchanged, NextParts

-----------------------------------------------------------------------------

LEMMA CallInvInit ==
    ASSUME Compress!CallAssumption, Compress!Init
    PROVE  CallInv
BY DEF Compress!Init, CallInv, Compress!Tiers

LEMMA CallInvNext ==
    ASSUME Compress!CallAssumption, CallInv, [Compress!Next]_(Compress!vars)
    PROVE  CallInv'
<1>1. CASE UNCHANGED <<tier, gone, call, result>>
  BY <1>1, IdleKeeps
<1>2. ASSUME NEW t \in Threads, NEW r \in Requests, Compress!Start(t, r)
      PROVE  CallInv'
  BY <1>2, StartKeeps
<1>3. ASSUME NEW t \in Threads, Compress!DedupKeep(t) \/ Compress!RouteReplace(t)
      PROVE  CallInv'
  BY <1>3, DedupKeepKeeps, RouteReplaceKeeps
<1>4. ASSUME NEW t \in Threads, Compress!ReadKeep(t) \/ Compress!RouteKeep(t)
      PROVE  CallInv'
  BY <1>4, KeepKeeps DEF Compress!ReadKeep, Compress!RouteKeep, Compress!In, Compress!store
<1>5. ASSUME NEW t \in Threads, NEW how \in {"durable", "volatile", "raises"},
             Compress!DedupReplace(t, how) \/ Compress!ReadReplace(t, how)
      PROVE  CallInv'
  <2>1. Compress!ReadReplace(t, how) => how \in {"durable", "volatile"}
    BY DEF Compress!ReadReplace
  <2>. QED
    BY <1>5, <2>1, DedupReplaceKeeps, ReadReplaceKeeps
<1>6. ASSUME NEW t \in Threads, NEW inflated \in BOOLEAN, Compress!Return(t, inflated)
      PROVE  CallInv'
  <2>. DEFINE out == IF inflated THEN Compress!Untransformed(call[t].request) ELSE call[t].out
  <2>1. call[t] # None /\ Compress!Deliver(t, out)
    BY <1>6 DEF Compress!Return
  <2>2. out \in {call[t].out, Compress!Untransformed(call[t].request)}
    OBVIOUS
  <2>. HIDE DEF out
  <2>. QED
    BY <2>1, <2>2, DeliverKeeps
<1>7. ASSUME NEW t \in Threads, Compress!Raise(t) \/ Compress!Panic(t)
      PROVE  CallInv'
  <2>1. call[t] # None /\ Compress!Deliver(t, Compress!Untransformed(call[t].request))
    BY <1>7 DEF Compress!Raise, Compress!Panic
  <2>. QED
    BY <2>1, DeliverKeeps
<1>8. ASSUME NEW key \in Compress!Keys, Compress!Lose(key)
      PROVE  CallInv'
  BY <1>8, LoseKeeps
<1>9. CASE Compress!Tick
  BY <1>1, <1>9 DEF Compress!Tick, Compress!store
<1>10. CASE UNCHANGED Compress!vars
  BY <1>1, <1>10 DEF Compress!vars, Compress!store
<1>. QED
  BY <1>2, <1>3, <1>4, <1>5, <1>6, <1>7, <1>8, <1>9, <1>10 DEF Compress!Next

CallsPart == part = "compress" => CallInv

\* A step is one of the calls while they run, or changes nothing of theirs.
LEMMA CallsOnly ==
    ASSUME [Next]_vars
    PROVE  /\ part' = part
           /\ part = "compress" => [Compress!Next]_(Compress!vars)
<1>1. CASE Next
  <2>1. part' = part
    BY <1>1 DEF Next
  <2>2. part = "compress" => Compress!Next
    BY <1>1 DEF Next
  <2>. QED
    BY <2>1, <2>2
<1>2. CASE UNCHANGED vars
  <2>1. part' = part /\ UNCHANGED callVars
    BY <1>2 DEF vars
  <2>. QED
    BY <2>1 DEF callVars, Compress!vars, Compress!breaker, Compress!store
<1>. QED
  BY <1>1, <1>2

\* Calls in progress and returned ones are grounded in their requests and backed by the
\* store, whatever the threads and the store do.
THEOREM CallsSound ==
    Spec => []CallsPart
<1>1. Init => CallsPart
  BY CallInvInit, CallsAssumption DEF Init, CallsPart
<1>2. CallsPart /\ [Next]_vars => CallsPart'
  <2>. SUFFICES ASSUME CallsPart, [Next]_vars, part' = "compress" PROVE CallInv'
    BY DEF CallsPart
  <2>1. CallInv /\ [Compress!Next]_(Compress!vars)
    BY CallsOnly DEF CallsPart
  <2>. QED
    BY <2>1, CallInvNext, CallsAssumption
<1>. QED
  BY <1>1, <1>2, PTL DEF Spec

\* What compress() replaced, once, twice or by a pointer, can be read back: its originals
\* are durable, or were lost after the call began (cross_message_dedup.py:618).
THEOREM ReplacedRecoverable ==
    Spec => []Recoverable
<1>1. CallsPart => Recoverable
  BY DEF CallsPart, CallInv, Recoverable, Compress!Recoverable, Backed
<1>. QED
  BY <1>1, CallsSound, PTL

\* A pointer leads from an output that is no error to an earlier one that is none either, no
\* pointer itself and with the text or enough of its rows; and no pass touches what the
\* cache breakpoint freezes (cross_message_dedup.py:329, :273).
THEOREM PointersAlwaysGrounded ==
    Spec => []PointersGrounded
<1>. Compress!CallAssumption
  BY CallsAssumption
<1>1. CallInv => Compress!PointersGrounded
  <2>. SUFFICES ASSUME CallInv, NEW t \in Threads, result[t] # None, NEW i \in DOMAIN result[t].out
       PROVE  LET unit == result[t].out[i]
                  source == result[t].out[unit.at]
                  messages == result[t].request.messages IN
              /\ unit.at > 0 =>
                  /\ unit.at < i /\ source.at = 0
                  /\ ~messages[i].failed /\ ~messages[unit.at].failed
                  /\ \/ source.text = unit.text
                     \/ Compress!Cardinality(Compress!Shared(unit.text, source.text)) >= MinShared
              /\ unit.form # "whole" => i > Compress!Frozen(result[t].request)
    BY DEF Compress!PointersGrounded
  <2>1. result[t].request \in Requests /\ Grounded(result[t].request, result[t].out)
    BY FormedFacts DEF CallInv
  <2>2. i \in DOMAIN result[t].request.messages
    BY <2>1 DEF Grounded, Formed
  <2>3. /\ result[t].out[i].form # "whole" => i > Compress!Frozen(result[t].request)
        /\ result[t].out[i].at > 0 =>
               /\ ~result[t].request.messages[i].failed
               /\ ~result[t].request.messages[result[t].out[i].at].failed
    BY <2>1, <2>2 DEF Grounded, Formed, Copying
  <2>4. Pointing(result[t].out)
    BY <2>1 DEF Grounded
  <2>. QED
    BY <2>3, <2>4 DEF Pointing
<1>2. CallsPart => PointersGrounded
  BY <1>1 DEF CallsPart, PointersGrounded
<1>. QED
  BY <1>2, CallsSound, PTL
-----------------------------------------------------------------------------
(* The breaker *)

\* The failures that count toward the threshold have no clean run between them.
BreakerInv == failures \in Nat /\ streak \in Nat /\ failures <= streak

LEMMA BreakerInvNext ==
    ASSUME Compress!CallAssumption, BreakerInv, [Compress!Next]_(Compress!vars)
    PROVE  BreakerInv'
<1>1. CASE UNCHANGED Compress!breaker
  BY <1>1 DEF BreakerInv, Compress!breaker
<1>2. ASSUME NEW t \in Threads, NEW inflated \in BOOLEAN, Compress!Return(t, inflated)
      PROVE  BreakerInv'
  BY <1>2 DEF Compress!Return, Compress!Success, BreakerInv
<1>3. ASSUME NEW t \in Threads, Compress!Raise(t)
      PROVE  BreakerInv'
  <2>1. \/ failures' = 0 /\ streak' = 0
        \/ failures' = failures + 1 /\ streak' = streak + 1
    BY <1>3 DEF Compress!Raise
  <2>. QED
    BY <2>1 DEF BreakerInv
<1>4. CASE Compress!Tick
  BY <1>1, <1>4 DEF Compress!Tick
<1>5. CASE UNCHANGED Compress!vars
  BY <1>1, <1>5 DEF Compress!vars
<1>6. ASSUME NEW t \in Threads,
             \/ \E r \in Requests : Compress!Start(t, r)
             \/ Compress!DedupKeep(t) \/ Compress!ReadKeep(t) \/ Compress!RouteKeep(t) \/ Compress!RouteReplace(t) \/ Compress!Panic(t)
             \/ \E how \in {"durable", "volatile", "raises"} : Compress!DedupReplace(t, how) \/ Compress!ReadReplace(t, how)
      PROVE  BreakerInv'
  BY <1>1, <1>6 DEF Compress!Start, Compress!DedupKeep, Compress!ReadKeep, Compress!RouteKeep,
     Compress!RouteReplace, Compress!Panic, Compress!DedupReplace, Compress!ReadReplace
<1>7. ASSUME NEW key \in Compress!Keys, Compress!Lose(key)
      PROVE  BreakerInv'
  BY <1>1, <1>7 DEF Compress!Lose
<1>. QED
  BY <1>2, <1>3, <1>4, <1>5, <1>6, <1>7 DEF Compress!Next

\* The breaker opens only on as many failed runs as the threshold asks for with no clean one
\* in between, whichever threads they ran on (pipeline.py:149).
THEOREM BreakerOpensOnStreak ==
    Spec => OpensOnStreak
<1>. Compress!CallAssumption
  BY CallsAssumption
<1>. DEFINE Inv == part = "compress" => BreakerInv
<1>1. Init => Inv
  BY DEF Init, Compress!Init, BreakerInv
<1>2. Inv /\ [Next]_vars => Inv'
  BY CallsOnly, BreakerInvNext
<1>3. Inv /\ [Next]_vars => [part = "compress" => Compress!OpensOnStreak]_vars
  <2>. SUFFICES ASSUME BreakerInv, Next, part = "compress", openUntil' # openUntil
       PROVE  streak + 1 >= Threshold
    BY DEF Compress!OpensOnStreak
  <2>0. Compress!Next
    BY DEF Next
  <2>1. PICK t \in Threads : Compress!Raise(t)
    BY <2>0 DEF Compress!Next, Compress!Start, Compress!DedupKeep, Compress!ReadKeep,
       Compress!RouteKeep, Compress!RouteReplace, Compress!Panic, Compress!DedupReplace,
       Compress!ReadReplace,
           Compress!Return, Compress!Lose, Compress!Tick, Compress!breaker
  <2>2. failures + 1 >= Threshold
    BY <2>1 DEF Compress!Raise
  <2>3. failures \in Nat /\ streak \in Nat /\ failures <= streak /\ Threshold \in Nat
    BY DEF BreakerInv, Compress!CallAssumption
  <2>. QED
    BY <2>2, <2>3
<1>. QED
  BY <1>1, <1>2, <1>3, PTL DEF Spec, OpensOnStreak

-----------------------------------------------------------------------------
(* The moved breakpoint *)

\* A call begins with the warnings of its request.
LEMMA Begins ==
    ASSUME CallInv, [Compress!Next]_(Compress!vars), NEW t \in Threads, call[t] = None, call'[t] # None
    PROVE  \E r \in Requests : call'[t].request = r /\ Compress!Suspects(r) \subseteq call'[t].warned
<1>. call \in [Threads -> Calls \cup {None}]
  BY DEF CallInv
<1>1. ASSUME NEW u \in Threads,
             \/ Compress!DedupKeep(u) \/ Compress!ReadKeep(u) \/ Compress!RouteKeep(u) \/ Compress!RouteReplace(u) \/ Compress!Panic(u) \/ Compress!Raise(u)
             \/ \E how \in {"durable", "volatile", "raises"} : Compress!DedupReplace(u, how) \/ Compress!ReadReplace(u, how)
             \/ \E inflated \in BOOLEAN : Compress!Return(u, inflated)
      PROVE  FALSE
  <2>1. call[u] # None /\ \E x : call' = [call EXCEPT ![u] = x]
    BY <1>1 DEF Compress!DedupKeep, Compress!ReadKeep, Compress!RouteKeep, Compress!RouteReplace,
       Compress!Panic, Compress!Raise, Compress!DedupReplace, Compress!ReadReplace, Compress!Return,
                Compress!Deliver, Compress!In
  <2>. QED
    BY <2>1
<1>2. ASSUME UNCHANGED call
      PROVE  FALSE
  BY <1>2
<1>3. PICK u \in Threads, r \in Requests : Compress!Start(u, r)
  BY <1>1, <1>2 DEF Compress!Next, Compress!vars, Compress!Lose, Compress!Tick
<1>4. u = t /\ ~(time < openUntil)
  BY <1>3 DEF Compress!Start
<1>5. call'[t] = [request |-> r, phase |-> IF Len(r.messages) > 1 THEN "dedup" ELSE "lifecycle",
                  pos |-> Compress!Min(Compress!WithText(r)), out |-> Compress!Untransformed(r), seen |-> {},
                  warned |-> Compress!Suspects(r) \cup Compress!Unstable(r)]
  BY <1>3, <1>4 DEF Compress!Start
<1>. QED
  BY <1>5

\* A caller that sends the originals again with the breakpoint moved past a duplicate that
\* its last call replaced is warned while the store has the entry (compress.py:454).
THEOREM MovedBreakpointAlwaysWarned ==
    Spec => MovedBreakpointWarned
<1>. Compress!CallAssumption
  BY CallsAssumption
<1>1. CallInv /\ [Compress!Next]_(Compress!vars) => Compress!MovedBreakpointWarned
  <2>. SUFFICES ASSUME CallInv, [Compress!Next]_(Compress!vars), NEW t \in Threads, call[t] = None, call'[t] # None, result[t] # None,
                       NEW i \in 1..Compress!Frozen(call'[t].request), i \in DOMAIN result[t].out,
                       result[t].out[i].form = "duplicate",
                       \A j \in 1..i : /\ result[t].request.messages[j].text = call'[t].request.messages[j].text
                                       /\ result[t].request.messages[j].role = call'[t].request.messages[j].role,
                       tier[<<result[t].out[i].text, "whole">>] # "absent"
       PROVE  i \in call'[t].warned
    BY DEF Compress!MovedBreakpointWarned
  <2>1. PICK r \in Requests : call'[t].request = r /\ Compress!Suspects(r) \subseteq call'[t].warned
    BY Begins
  <2>. DEFINE given == result[t].request.messages
              out == result[t].out
              at == out[i].at
  <2>2. result[t].request \in Requests /\ Formed(result[t].request, out)
        /\ Pointing(out) /\ Copying(result[t].request, out)
    BY FormedFacts DEF CallInv, Grounded
  <2>3. /\ i \in DOMAIN given /\ out[i].text = given[i].text /\ at > 0 /\ at < i /\ at \in Nat
        /\ Compress!IsTool(given[i]) /\ given[i].text \in Bulky /\ Compress!IsTool(given[at]) /\ given[at].text = given[i].text
    <3>1. i \in DOMAIN given /\ out[i] \in Compress!Unit
      BY <2>2 DEF Formed
    <3>. QED
      BY <2>2, <3>1 DEF Formed, Pointing, Copying, Compress!Unit
  <2>4. Compress!Frozen(r) \in Nat
    BY RequestFacts, FrozenMarked
  <2>5. i \in 1..Compress!Frozen(r) /\ at \in 1..Compress!Frozen(r) /\ at \in 1..i /\ i \in 1..i
    <3>1. i \in 1..Compress!Frozen(r)
      BY <2>1
    <3>. HIDE DEF at
    <3>2. i \in Nat /\ i <= Compress!Frozen(r) /\ 1 <= i
      BY <2>4, <3>1
    <3>3. 1 <= at /\ at <= i /\ at <= Compress!Frozen(r)
      BY <2>3, <2>4, <3>2
    <3>. QED
      BY <2>3, <2>4, <3>1, <3>2, <3>3
  <2>6. /\ given[i].text = r.messages[i].text /\ given[i].role = r.messages[i].role
        /\ given[at].text = r.messages[at].text /\ given[at].role = r.messages[at].role
    BY <2>1, <2>5
  <2>7. i \in Compress!Suspects(r)
    <3>1. /\ Compress!IsTool(r.messages[i]) /\ r.messages[i].text \in Bulky
          /\ Compress!IsTool(r.messages[at]) /\ r.messages[at].text = r.messages[i].text
      BY <2>3, <2>6 DEF Compress!IsTool
    <3>2. tier[<<r.messages[i].text, "whole">>] # "absent"
      BY <2>3, <2>6
    <3>. HIDE DEF at
    <3>. QED
      BY <2>3, <2>5, <3>1, <3>2 DEF Compress!Suspects
  <2>. QED
    BY <2>1, <2>7
<1>2. CallsPart /\ [Next]_vars => [part = "compress" => Compress!MovedBreakpointWarned]_vars
  BY <1>1, CallsOnly DEF CallsPart
<1>. QED
  BY <1>2, CallsSound, PTL DEF Spec, MovedBreakpointWarned

=============================================================================
