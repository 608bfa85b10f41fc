--------------------------- MODULE MetricsProofs ---------------------------
(***************************************************************************)
(* What the metrics client guarantees for any goroutines, calls and labels *)
(* although nothing guards its maps: no sample is lost to a vector that    *)
(* Prometheus does not show, and a call panics only over its labels or     *)
(* where two goroutines have been at a map at once.                        *)
(***************************************************************************)
EXTENDS Metrics, TLAPS

USE MetricsAssumption

LEMMA NewIsAVector ==
    ASSUME TypeOK, NEW g \in Goroutines, call[g] \in Sites
    PROVE  /\ New(g) \in Vectors /\ New(g) # Nil
           /\ New(g).labels = call[g].labels /\ Name(g) \in Names
<1>1. call[g].labels \in Nat
  <2>1. call[g] \in AllSites
      OBVIOUS
  <2> QED
      BY <2>1 DEF AllSites, RequestSites, UpgradeSites, CheckSites, RoundSites,
                  Site
<1> QED
    BY <1>1 DEF New, Vectors, Name, Names, Goroutines

LEMMA TypeInit == Init => TypeOK
BY DEF Init, TypeOK

\* A goroutine that is not idle makes one of the calls.
LEMMA CrowdedStep ==
    ASSUME TypeOK, NEW g \in Goroutines, Step(g)
    PROVE  Crowded' \subseteq {s.map : s \in Sites}
<1>1. ASSUME NEW h \in Goroutines, pc'[h] # "idle"
      PROVE  call'[h] \in Sites
  <2>1. ASSUME NEW s \in Sites, Call(g, s) PROVE call'[h] \in Sites
      BY <1>1, <2>1 DEF Call, Goto, TypeOK
  <2>2. CASE ~\E s \in Sites : Call(g, s)
    <3>1. pc[h] # "idle" /\ call' = call
        BY <1>1, <2>2 DEF Step, Call, Lookup, Fatal, local, Register, Duplicate,
                          Panic, Store, Stored, Observe, Mismatch, Goto, TypeOK
    <3> QED
        BY <3>1 DEF TypeOK
  <2> QED
      BY <2>1, <2>2
<1>2. ASSUME NEW h \in Goroutines, Inside(h)' PROVE call'[h] \in Sites
    BY <1>1, <1>2 DEF Inside
<1> QED
    BY <1>2 DEF Crowded

LEMMA TypeStep == TypeOK /\ [Next]_vars => TypeOK'
<1> SUFFICES ASSUME TypeOK, [Next]_vars PROVE TypeOK'
    OBVIOUS
<1>1. CASE UNCHANGED vars
    BY <1>1 DEF vars, local, TypeOK
<1>2. ASSUME NEW g \in Goroutines, Step(g), met' = met \cup Crowded'
      PROVE  TypeOK'
  <2> DEFINE Goal == met' \subseteq {s.map : s \in Sites} => TypeOK'
  <2>1. ASSUME NEW s \in Sites, Call(g, s) PROVE Goal
      BY <2>1 DEF Call, Goto, TypeOK
  <2>2. ASSUME Lookup(g) PROVE Goal
      BY <2>2, NewIsAVector DEF Lookup, Goto, TypeOK
  <2>3. ASSUME Fatal(g) PROVE Goal
      BY <2>3 DEF Fatal, local, TypeOK
  <2>4. ASSUME Register(g) PROVE Goal
      BY <2>4, NewIsAVector DEF Register, Goto, TypeOK
  <2>5. ASSUME Duplicate(g) PROVE Goal
      BY <2>5 DEF Duplicate, Panic, Goto, TypeOK
  <2>6. ASSUME Store(g) PROVE Goal
      BY <2>6 DEF Store, Goto, TypeOK
  <2>7. ASSUME Stored(g) PROVE Goal
      BY <2>7, NewIsAVector DEF Stored, Goto, TypeOK
  <2>8. ASSUME Observe(g) PROVE Goal
      BY <2>8, NewIsAVector DEF Observe, Goto, TypeOK
  <2>9. ASSUME Mismatch(g) PROVE Goal
      BY <2>9 DEF Mismatch, Panic, Goto, TypeOK
  <2>10. Goal
      BY <1>2, <2>1, <2>2, <2>3, <2>4, <2>5, <2>6, <2>7, <2>8, <2>9 DEF Step
  <2>11. met' \subseteq {s.map : s \in Sites}
      BY <1>2, CrowdedStep DEF TypeOK
  <2> QED
      BY <2>10, <2>11
<1> QED
    BY <1>1, <1>2 DEF Next, Stopped

LEMMA CountInit == Init => CountInv
BY TypeInit DEF Init, CountInv, OneVector, Labelled, NothingUncounted

\* A name is registered once, so whatever was looked up or created stays
\* the one that Prometheus has.
LEMMA OneVectorStep == CountInv /\ [Next]_vars => OneVector'
<1> SUFFICES ASSUME CountInv, [Next]_vars PROVE OneVector'
    OBVIOUS
<1> USE DEF CountInv
<1>1. CASE UNCHANGED vars
    BY <1>1 DEF vars, local, OneVector, Name
<1>2. ASSUME NEW g \in Goroutines, Step(g) PROVE OneVector'
  <2> USE DEF OneVector, Name, Goto
  <2>1. ASSUME NEW s \in Sites, Call(g, s) PROVE OneVector'
      BY <2>1 DEF Call, TypeOK
  <2>2. CASE Lookup(g)
      BY <2>2, NewIsAVector DEF Lookup, TypeOK
  <2>3. CASE Fatal(g)
      BY <2>3 DEF Fatal, local, TypeOK
  <2>4. CASE Register(g)
    <3>1. /\ call' = call /\ vecs' = vecs
          /\ pc' = [pc EXCEPT ![g] = "store"]
          /\ vec' = [vec EXCEPT ![g] = New(g)]
          /\ registry[call[g].name] = Nil
          /\ registry' = [registry EXCEPT ![call[g].name] = New(g)]
        BY <2>4 DEF Register
    <3>2. /\ call[g] \in Sites /\ call[g].name \in Names
          /\ New(g) \in Vectors /\ New(g) # Nil
        BY <2>4, NewIsAVector DEF Register, TypeOK
    <3>3. ASSUME NEW n \in Names, vecs'[n] # Nil
          PROVE  vecs'[n] = registry'[n]
        BY <3>1, <3>2, <3>3 DEF TypeOK
    <3>4. ASSUME NEW o \in Goroutines, pc'[o] \in {"store", "storing", "observe"}
          PROVE  vec'[o] = registry'[call'[o].name]
      <4>1. CASE o = g
          BY <4>1, <3>1, <3>2 DEF TypeOK
      <4>2. CASE o # g
        <5>1. vec[o] = registry[call[o].name] /\ vec[o] \in Vectors
            BY <4>2, <3>1, <3>4 DEF TypeOK
        <5>2. vec[o] # Nil
            BY <5>1 DEF Vectors, Goroutines
        <5>3. call[o].name # call[g].name
            BY <5>1, <5>2, <3>1
        <5>4. call[o].name \in Names
            BY <3>4, <3>1, <4>2 DEF TypeOK, Names
        <5> QED
            BY <5>1, <5>3, <5>4, <4>2, <3>1 DEF TypeOK
      <4> QED
          BY <4>1, <4>2
    <3> QED
        BY <3>3, <3>4
  <2>5. CASE Duplicate(g)
      BY <2>5 DEF Duplicate, Panic, TypeOK
  <2>6. CASE Store(g)
      BY <2>6 DEF Store, TypeOK
  <2>7. CASE Stored(g)
      BY <2>7, NewIsAVector DEF Stored, TypeOK
  <2>8. CASE Observe(g)
      BY <2>8 DEF Observe, TypeOK
  <2>9. CASE Mismatch(g)
      BY <2>9 DEF Mismatch, Panic, TypeOK
  <2> QED
      BY <1>2, <2>1, <2>2, <2>3, <2>4, <2>5, <2>6, <2>7, <2>8, <2>9 DEF Step
<1> QED
    BY <1>1, <1>2 DEF Next, Stopped

LEMMA LabelledStep == CountInv /\ [Next]_vars => Labelled'
<1> SUFFICES ASSUME CountInv, [Next]_vars PROVE Labelled'
    OBVIOUS
<1>1. CASE UNCHANGED vars
    BY <1>1 DEF vars, CountInv, Labelled
<1>2. ASSUME NEW g \in Goroutines, Step(g) PROVE Labelled'
  <2>1. CASE Register(g)
    <3>1. call[g] \in Sites /\ New(g).labels = call[g].labels
        BY <2>1, NewIsAVector DEF Register, CountInv, TypeOK
    <3>2. registry' = [registry EXCEPT ![call[g].name] = New(g)]
        BY <2>1 DEF Register, Name
    <3> QED
        BY <3>1, <3>2 DEF CountInv, TypeOK, Labelled
  <2>2. CASE ~Register(g)
    <3>1. UNCHANGED registry
        BY <1>2, <2>2 DEF Step, Call, Lookup, Fatal, Duplicate, Panic, Store,
                          Stored, Observe, Mismatch
    <3> QED
        BY <3>1 DEF CountInv, Labelled
  <2> QED
      BY <2>1, <2>2
<1> QED
    BY <1>1, <1>2 DEF Next, Stopped

LEMMA CountStep == CountInv /\ [Next]_vars => CountInv'
<1> SUFFICES ASSUME CountInv, [Next]_vars PROVE NothingUncounted'
    BY TypeStep, OneVectorStep, LabelledStep DEF CountInv
<1>1. CASE UNCHANGED vars
    BY <1>1 DEF vars, CountInv, NothingUncounted
<1>2. ASSUME NEW g \in Goroutines, Step(g) PROVE NothingUncounted'
  <2>1. CASE Observe(g)
    <3>1. vec[g] = registry[Name(g)]
        BY <2>1 DEF Observe, CountInv, OneVector
    <3>2. Name(g) \in Names
        BY <2>1, NewIsAVector DEF Observe, CountInv, TypeOK
    <3>3. /\ returned' = [returned EXCEPT ![Name(g)] = @ + 1]
          /\ scraped' = [scraped EXCEPT ![Name(g)] = @ + 1]
        BY <2>1, <3>1 DEF Observe
    <3> QED
        BY <3>2, <3>3 DEF CountInv, TypeOK, NothingUncounted
  <2>2. CASE ~Observe(g)
    <3>1. UNCHANGED <<returned, scraped>>
        BY <1>2, <2>2 DEF Step, Call, Lookup, Fatal, Register, Duplicate, Panic,
                          Store, Stored, Mismatch
    <3> QED
        BY <3>1 DEF CountInv, NothingUncounted
  <2> QED
      BY <2>1, <2>2
<1> QED
    BY <1>1, <1>2 DEF Next, Stopped

THEOREM Counted == Spec => []CountInv
BY CountInit, CountStep, PTL DEF Spec

\* No goroutine observes into a vector that is not there: a call that finds
\* no entry creates one before it uses it (client.go:82-98).
THEOREM TypeCorrect == Spec => []TypeOK
BY Counted, PTL DEF CountInv

\* For any goroutines, calls and labels, no sample goes to a vector that
\* /metrics does not show (client.go:82-98).
THEOREM SamplesAreShown == Spec => []NothingUncounted
BY Counted, PTL DEF CountInv

-----------------------------------------------------------------------------
(* Where a panic comes from *)

\* A name is always used with the same kind of vector.
LEMMA NameHasOneMap ==
    ASSUME NEW s \in Sites, NEW t \in Sites, s.name = t.name
    PROVE  s.map = t.map
<1> DEFINE Kind(n) ==
        IF n \in {"request.attempt_duration", "request.duration"}
        THEN "summaries"
        ELSE IF n \in {"loadbalancer.healthy_backup_nodes",
                       "loadbalancer.unhealthy_backup_nodes"}
        THEN "gauges" ELSE "counters"
<1>1. ASSUME NEW u \in AllSites PROVE u.map = Kind(u.name)
    BY DEF AllSites, RequestSites, UpgradeSites, CheckSites, RoundSites, Site
<1> QED
    BY <1>1

\* Some call of this name is at a map where two goroutines have met.
MetOver(n) == \E s \in Sites : s.name = n /\ s.map \in met

\* A registered name is in its map, or on its way there, and is not being
\* registered again, unless two goroutines have met there.
MetInv ==
    /\ Crowded \subseteq met
    /\ \A n \in Names :
          \/ vecs[n] = registry[n]
          \/ \E g \in Goroutines : pc[g] \in {"store", "storing"} /\ Name(g) = n
          \/ MetOver(n)
    /\ \A g \in Goroutines :
          pc[g] = "register" =>
              registry[Name(g)] = Nil \/ call[g].map \in met

\* Two goroutines inside over one name have met at its map.
LEMMA Meeting ==
    ASSUME TypeOK, MetInv, NEW g \in Goroutines, NEW o \in Goroutines, g # o,
           Inside(g), Inside(o), Name(g) = Name(o)
    PROVE  call[g].map \in met /\ MetOver(Name(g))
<1>1. call[g] \in Sites /\ call[o] \in Sites
    BY DEF TypeOK, Inside
<1>2. call[g].map = call[o].map
    BY <1>1, NameHasOneMap DEF Name
<1>3. call[g].map \in Crowded
    BY <1>2 DEF Crowded
<1> QED
    BY <1>1, <1>3 DEF MetInv, MetOver, Name

LEMMA OverIsAt ==
    ASSUME TypeOK, NEW g \in Goroutines, pc[g] # "idle"
    PROVE  MetOver(Name(g)) <=> call[g].map \in met
<1>1. call[g] \in Sites
    BY DEF TypeOK
<1> QED
    BY <1>1, NameHasOneMap DEF MetOver, Name

LEMMA MetStep ==
    ASSUME CountInv, MetInv, NEW g \in Goroutines, Step(g),
           met' = met \cup Crowded'
    PROVE  MetInv'
<1> DEFINE Kept(n) ==
               \/ vecs'[n] = registry'[n]
               \/ \E o \in Goroutines :
                     pc'[o] \in {"store", "storing"} /\ call'[o].name = n
               \/ MetOver(n)
           Free(o) ==
               pc'[o] = "register" =>
                   registry'[call'[o].name] = Nil \/ call'[o].map \in met
           Goal == /\ \A n \in Names : Kept(n)
                   /\ \A o \in Goroutines : Free(o)
<1> USE DEF CountInv
<1>1. ASSUME NEW s \in Sites, Call(g, s) PROVE Goal
  <2>1. /\ UNCHANGED <<vecs, registry>>
        /\ pc[g] = "idle" /\ pc'[g] = "lookup"
        /\ \A o \in Goroutines \ {g} : pc'[o] = pc[o] /\ call'[o] = call[o]
      BY <1>1 DEF Call, Goto, TypeOK
  <2> QED
      BY <2>1 DEF MetInv, Name
<1>2. ASSUME Lookup(g) PROVE Goal
  <2>1. /\ UNCHANGED <<vecs, registry, call>>
        /\ pc[g] = "lookup" /\ pc'[g] \in {"register", "observe"}
        /\ pc'[g] = "register" => vecs[Name(g)] = Nil
        /\ \A o \in Goroutines \ {g} : pc'[o] = pc[o]
      BY <1>2 DEF Lookup, Goto, TypeOK
  <2>2. Name(g) \in Names
      BY <2>1, NewIsAVector DEF TypeOK
  <2>3. ASSUME NEW o \in Goroutines, pc[o] \in {"store", "storing"},
               Name(o) = Name(g)
        PROVE  call[g].map \in met
      BY <2>1, <2>3, Meeting DEF Inside
  <2>4. Free(g)
      BY <2>1, <2>2, <2>3, OverIsAt DEF MetInv, Name
  <2> QED
      BY <2>1, <2>4 DEF MetInv, Name
<1>3. ASSUME Fatal(g) PROVE Goal
    BY <1>3 DEF Fatal, local, MetInv, Name
<1>4. ASSUME Register(g) PROVE Goal
  <2>1. /\ UNCHANGED <<vecs, call>>
        /\ pc[g] = "register" /\ pc'[g] = "store"
        /\ \A o \in Goroutines \ {g} : pc'[o] = pc[o]
        /\ \A n \in Names \ {Name(g)} : registry'[n] = registry[n]
      BY <1>4 DEF Register, Goto, TypeOK
  <2>2. ASSUME NEW n \in Names PROVE Kept(n)
    <3>1. CASE n = Name(g)
        BY <3>1, <2>1 DEF Name
    <3>2. CASE n # Name(g)
        BY <3>2, <2>1 DEF MetInv, Name
    <3> QED
        BY <3>1, <3>2
  <2>3. ASSUME NEW o \in Goroutines, pc'[o] = "register"
        PROVE  Free(o)
    <3>1. o # g /\ pc[o] = "register" /\ call'[o] = call[o]
        BY <2>1, <2>3
    <3>2. Name(o) \in Names
        BY <3>1, NewIsAVector DEF TypeOK
    <3>3. CASE Name(o) = Name(g)
        BY <2>1, <3>1, <3>3, Meeting DEF Inside
    <3>4. CASE Name(o) # Name(g)
        BY <2>1, <3>1, <3>2, <3>4 DEF MetInv, Name
    <3> QED
        BY <3>3, <3>4
  <2> QED
      BY <2>2, <2>3
<1>5. ASSUME Stored(g) PROVE Goal
  <2>1. /\ UNCHANGED <<registry, call>>
        /\ pc[g] = "storing" /\ pc'[g] = "observe"
        /\ \A o \in Goroutines \ {g} : pc'[o] = pc[o]
        /\ \A n \in Names \ {Name(g)} : vecs'[n] = vecs[n]
      BY <1>5 DEF Stored, Goto, TypeOK
  <2>2. Name(g) \in Names /\ vec[g] = registry[Name(g)]
      BY <2>1, NewIsAVector DEF TypeOK, OneVector
  <2>3. CASE vecs' = [vecs EXCEPT ![Name(g)] = vec[g]]
    <3>1. vecs'[Name(g)] = registry'[Name(g)]
        BY <2>1, <2>2, <2>3 DEF TypeOK
    <3> QED
        BY <2>1, <3>1 DEF MetInv, Name
  <2>4. CASE Overlaps(g)
    <3>1. call[g].map \in Crowded
        BY <2>1, <2>4 DEF Overlaps, Crowded, Inside
    <3>2. MetOver(Name(g))
        BY <2>1, <3>1, OverIsAt DEF MetInv
    <3> QED
        BY <2>1, <3>2 DEF MetInv, Name
  <2> QED
      BY <1>5, <2>3, <2>4 DEF Stored
<1>6. ASSUME Duplicate(g) \/ Store(g) \/ Observe(g) \/ Mismatch(g) PROVE Goal
  <2>1. /\ UNCHANGED <<vecs, registry, call>>
        /\ \/ pc[g] \in {"register", "observe"} /\ pc'[g] = "idle"
           \/ pc[g] = "store" /\ pc'[g] = "storing"
        /\ \A o \in Goroutines \ {g} : pc'[o] = pc[o]
      BY <1>6 DEF Duplicate, Panic, Store, Observe, Mismatch, Goto, TypeOK
  <2> QED
      BY <2>1 DEF MetInv, Name
<1>7. Goal
    BY <1>1, <1>2, <1>3, <1>4, <1>5, <1>6 DEF Step
<1> HIDE DEF Goal
<1>8. met \subseteq met' /\ Crowded' \subseteq met'
    OBVIOUS
<1>9. Goal => MetInv'
    BY <1>8 DEF Goal, MetInv, MetOver, Name
<1> QED
    BY <1>7, <1>9

\* Whoever observes with labels that are not the vector's shares the name
\* with a call of other labels.
LEMMA MismatchDivides ==
    ASSUME CountInv, NEW g \in Goroutines, Mismatch(g)
    PROVE  Divided(Name(g))
<1> USE DEF CountInv
<1>1. vec[g] = registry[Name(g)] /\ vec[g] \in Vectors
    BY DEF Mismatch, OneVector, TypeOK
<1>2. Name(g) \in Names /\ call[g] \in Sites
    BY NewIsAVector DEF Mismatch, TypeOK
<1>3. PICK t \in Sites : t.name = Name(g) /\ t.labels = vec[g].labels
    BY <1>1, <1>2 DEF Labelled, Vectors, Goroutines
<1> QED
    BY <1>2, <1>3 DEF Divided, Mismatch, Name

LEMMA CauseStep ==
    ASSUME CountInv, MetInv, NEW g \in Goroutines, Step(g)
    PROVE  /\ \A o \in Goroutines :
                 Panics(o) => IF pc[o] = "observe" THEN Divided(Name(o))
                              ELSE call[o].map \in met
           /\ process' # process =>
                 \/ Panics(Checker)
                 \/ \E o \in Goroutines : Inside(o) /\ call[o].map \in met
<1> USE DEF CountInv
<1>1. ASSUME NEW s \in Sites, Call(g, s)
      PROVE  process' = process /\ \A o \in Goroutines : ~Panics(o)
    BY <1>1 DEF Call, Goto, TypeOK, Panics
<1>2. CASE Lookup(g) \/ Register(g) \/ Store(g) \/ Stored(g)
  <2>1. process' = process /\ \A o \in Goroutines : ~Panics(o)
      BY <1>2 DEF Lookup, Register, Store, Stored, Goto, TypeOK, Panics
  <2> QED
      BY <2>1
<1>3. CASE Fatal(g)
  <2>1. \A o \in Goroutines : ~Panics(o)
      BY <1>3 DEF Fatal, local, Panics
  <2>2. Inside(g) /\ call[g].map \in Crowded
      BY <1>3 DEF Fatal, Overlaps, Inside, Crowded
  <2> QED
      BY <2>1, <2>2 DEF MetInv
<1>4. CASE Observe(g)
  <2>1. Name(g) \in Names /\ process' = process
        /\ returned' = [returned EXCEPT ![Name(g)] = @ + 1]
      BY <1>4, NewIsAVector DEF Observe, TypeOK
  <2>2. returned' # returned
      BY <2>1 DEF TypeOK
  <2> QED
      BY <2>1, <2>2 DEF Panics
<1>5. CASE Duplicate(g) \/ Mismatch(g)
  <2>1. /\ \A o \in Goroutines \ {g} : ~Panics(o)
        /\ pc[g] # "idle" /\ pc'[g] = "idle" /\ returned' = returned
        /\ process' # process => g = Checker
      BY <1>5 DEF Duplicate, Mismatch, Panic, Goto, TypeOK, Panics
  <2>2. Panics(g)
      BY <2>1 DEF Panics
  <2>3. pc[g] = "observe" => Divided(Name(g))
      BY <1>5, MismatchDivides DEF Duplicate
  <2>4. pc[g] # "observe" => call[g].map \in met
      BY <1>5 DEF Duplicate, Mismatch, MetInv
  <2> QED
      BY <2>1, <2>2, <2>3, <2>4
<1> QED
    BY <1>1, <1>2, <1>3, <1>4, <1>5 DEF Step

\* For any goroutines, calls and labels: a call fails over its labels, or
\* because two goroutines have met at its map, for which no lock provides
\* (client.go:82-140).
THEOREM NothingElsePanics == Spec => PanicsHaveACause
<1>1. Init => MetInv
    BY DEF Init, MetInv, Crowded, Inside
<1>2. CountInv /\ MetInv /\ [Next]_vars => MetInv'
  <2>1. CountInv /\ MetInv /\ UNCHANGED vars => MetInv'
      BY DEF vars, local, MetInv, MetOver, Crowded, Inside, Name
  <2> QED
      BY <2>1, MetStep DEF Next, Stopped
<1>3. CountInv /\ MetInv /\ [Next]_vars =>
        [/\ \A g \in Goroutines :
              Panics(g) => IF pc[g] = "observe" THEN Divided(Name(g))
                           ELSE call[g].map \in met
         /\ process' # process =>
              \/ Panics(Checker)
              \/ \E g \in Goroutines : Inside(g) /\ call[g].map \in met]_vars
    BY CauseStep DEF Next, Stopped
<1> QED
    BY <1>1, <1>2, <1>3, Counted, PTL DEF Spec, PanicsHaveACause

=============================================================================
