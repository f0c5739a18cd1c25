--------------------- MODULE DependencyResolutionProofs ---------------------
(***************************************************************************)
(* Theorems about DependencyResolution for every number of plugins and     *)
(* every discovery.                                                        *)
(***************************************************************************)
EXTENDS DependencyResolution, LoadOrder, SequenceTheorems, WellFoundedInduction, TLAPS

-----------------------------------------------------------------------------
(* The stack.                                                              *)

LEMMA PopIsPrefix ==
    ASSUME NEW S, NEW s \in Seq(S), s # <<>>
    PROVE  /\ SubSeq(s, 1, Len(s) - 1) \in Seq(S)
           /\ Len(SubSeq(s, 1, Len(s) - 1)) = Len(s) - 1
           /\ \A i \in 1 .. Len(s) - 1 : SubSeq(s, 1, Len(s) - 1)[i] = s[i]
           /\ Len(s) \in Nat \ {0}
           /\ s[Len(s)] \in S
  <1>1. Len(s) \in Nat /\ Len(s) # 0
    BY EmptySeq, LenProperties
  <1>2. s[Len(s)] \in S
    BY <1>1, ElementOfSeq
  <1> DEFINE n == Len(s) - 1
  <1>3. n \in Nat /\ n \in Int /\ 1 \in Int /\ \A i \in 1 .. n : s[i] \in S
    BY <1>1, ElementOfSeq
  <1> HIDE DEF n
  <1>4. /\ SubSeq(s, 1, n) \in Seq(S)
        /\ Len(SubSeq(s, 1, n)) = IF 1 <= n THEN n - 1 + 1 ELSE 0
        /\ \A i \in 1 .. n - 1 + 1 : SubSeq(s, 1, n)[i] = s[1 + i - 1]
    BY <1>3, SubSeqProperties
  <1>5. /\ Len(SubSeq(s, 1, n)) = n
        /\ \A i \in 1 .. n : SubSeq(s, 1, n)[i] = s[i]
    BY <1>3, <1>4
  <1> QED BY <1>1, <1>2, <1>4, <1>5 DEF n

LEMMA TopType ==
    ASSUME stack \in Seq(Frame), stack # <<>>
    PROVE  /\ Len(stack) \in Nat \ {0}
           /\ Top \in Frame
           /\ Top.data \in Plugins
           /\ Top.next \in Nat \ {0}
           /\ \A i \in 1 .. Len(stack) : stack[i].data \in Plugins
  <1>1. Len(stack) \in Nat \ {0}
    BY EmptySeq
  <1>2. \A i \in 1 .. Len(stack) : stack[i] \in Frame
    BY ElementOfSeq
  <1> QED BY <1>1, <1>2 DEF Top, Frame

LEMMA PopProperties ==
    ASSUME stack \in Seq(Frame), stack # <<>>
    PROVE  /\ Pop \in Seq(Frame)
           /\ Len(Pop) = Len(stack) - 1
           /\ \A i \in 1 .. Len(stack) - 1 : Pop[i] = stack[i]
  BY PopIsPrefix DEF Pop

LEMMA AdvanceProperties ==
    ASSUME stack \in Seq(Frame), stack # <<>>
    PROVE  /\ AdvanceTop \in Seq(Frame)
           /\ Len(AdvanceTop) = Len(stack)
           /\ \A i \in 1 .. Len(stack) :
                 /\ AdvanceTop[i].data = stack[i].data
                 /\ AdvanceTop[i].next =
                        IF i = Len(stack) THEN Top.next + 1 ELSE stack[i].next
  <1> DEFINE f == [Top EXCEPT !.next = Top.next + 1]
  <1>1. Top \in Frame /\ f \in Frame /\ Len(stack) \in 1 .. Len(stack)
    BY TopType DEF Frame
  <1>2. AdvanceTop = [stack EXCEPT ![Len(stack)] = f]
    BY DEF AdvanceTop, Top
  <1>3. /\ AdvanceTop \in Seq(Frame)
        /\ Len(AdvanceTop) = Len(stack)
        /\ \A i \in 1 .. Len(stack) :
              AdvanceTop[i] = IF i = Len(stack) THEN f ELSE stack[i]
    BY <1>1, <1>2, ExceptSeq
  <1>4. f.data = Top.data /\ f.next = Top.next + 1
    BY <1>1 DEF Frame
  <1> QED BY <1>3, <1>4 DEF Top

LEMMA PushProperties ==
    ASSUME stack \in Seq(Frame), stack # <<>>, NEW q \in Plugins
    PROVE  LET s == Append(AdvanceTop, [data |-> q, next |-> 1]) IN
           /\ s \in Seq(Frame)
           /\ Len(s) = Len(stack) + 1
           /\ \A i \in 1 .. Len(stack) :
                 /\ s[i].data = stack[i].data
                 /\ s[i].next =
                        IF i = Len(stack) THEN Top.next + 1 ELSE stack[i].next
           /\ s[Len(stack) + 1] = [data |-> q, next |-> 1]
  <1> DEFINE f == [data |-> q, next |-> 1]
  <1>1. f \in Frame
    BY DEF Frame
  <1>2. /\ AdvanceTop \in Seq(Frame)
        /\ Len(AdvanceTop) = Len(stack)
        /\ \A i \in 1 .. Len(stack) :
              /\ AdvanceTop[i].data = stack[i].data
              /\ AdvanceTop[i].next =
                     IF i = Len(stack) THEN Top.next + 1 ELSE stack[i].next
    BY AdvanceProperties
  <1> HIDE DEF f
  <1>3. /\ Append(AdvanceTop, f) \in Seq(Frame)
        /\ Len(Append(AdvanceTop, f)) = Len(AdvanceTop) + 1
        /\ \A i \in 1 .. Len(AdvanceTop) : Append(AdvanceTop, f)[i] = AdvanceTop[i]
        /\ Append(AdvanceTop, f)[Len(AdvanceTop) + 1] = f
    BY <1>1, <1>2, AppendProperties
  <1> QED BY <1>2, <1>3 DEF f

LEMMA SingletonFrame ==
    ASSUME NEW q \in Plugins
    PROVE  LET s == <<[data |-> q, next |-> 1]>> IN
           /\ s \in Seq(Frame)
           /\ Len(s) = 1
           /\ s[1] = [data |-> q, next |-> 1]
  BY DEF Frame

-----------------------------------------------------------------------------
(* The dependency edges.  A Resolved plugin participates, and the edges    *)
(* kept for a plugin lead to plugins that answer them.                     *)

EdgesOK ==
    /\ \A id \in Ids : dataById[id] \in Plugins => spec[dataById[id]].id = id
    /\ phase = "index" => \A p \in Plugins : resolved[p] = {}
    /\ \A p \in Plugins : \A k \in resolved[p] :
           Target(p, k) \in Plugins /\ Compatible(p, k)
    /\ \A p \in Plugins : state[p] # "Invalid" => reason[p] = "none"
    /\ \A p \in Plugins : state[p] = "Resolved" =>
           /\ Participates(p)
           /\ \A k \in DependencyIndices(p) : Required(p, k) => k \in resolved[p]

Typed == TypeOK /\ EdgesOK

LEMMA SpecTypes ==
    ASSUME TypeOK, NEW p \in Plugins
    PROVE  /\ spec[p] \in PluginSpec
           /\ Len(Dependencies(p)) \in Nat
           /\ DependencyIndices(p) = 1 .. Len(Dependencies(p))
           /\ \A k \in DependencyIndices(p) :
                  /\ Dependencies(p)[k] \in [id : Ids, version : Nat, type : Types]
                  /\ Target(p, k) \in Plugins \cup {NoPlugin}
  <1>1. spec \in [Plugins -> PluginSpec]
    BY DiscoveryAssumption DEF TypeOK
  <1>2. /\ spec[p] \in PluginSpec
        /\ spec[p].dependencies \in Seq([id : Ids, version : Nat, type : Types])
    BY <1>1 DEF PluginSpec
  <1>3. /\ Len(Dependencies(p)) \in Nat
        /\ DependencyIndices(p) = 1 .. Len(Dependencies(p))
        /\ \A k \in DependencyIndices(p) :
              Dependencies(p)[k] \in [id : Ids, version : Nat, type : Types]
    BY <1>2, LenProperties, ElementOfSeq DEF DependencyIndices, Dependencies
  <1>4. \A k \in DependencyIndices(p) : Target(p, k) \in Plugins \cup {NoPlugin}
    BY <1>3 DEF TypeOK, Target
  <1> QED BY <1>2, <1>3, <1>4

LEMMA VerdictProperties ==
    ASSUME TypeOK, NEW p \in Plugins, NEW k \in DependencyIndices(p)
    PROVE  /\ Verdict(p, k) \in Reasons
           /\ Verdict(p, k) = "none" => Target(p, k) \in Plugins /\ Compatible(p, k)
  <1>1. Target(p, k) \in Plugins \cup {NoPlugin}
    BY SpecTypes
  <1> QED BY <1>1 DEF Verdict, Reasons

LEMMA TypedInit == Init => Typed
  <1> SUFFICES ASSUME Init PROVE Typed
    OBVIOUS
  <1>1. /\ \A T : <<>> \in Seq(T)
        /\ 1 \in 1 .. N + 1
    BY EmptySeq, CountAssumption
  <1>2. TypeOK
    BY <1>1 DEF Init, TypeOK, States, Reasons, Phases, DependencyIndices
  <1>3. EdgesOK
    BY NullAssumption DEF Init, EdgesOK
  <1> QED BY <1>2, <1>3 DEF Typed

\* The steps of the two depth-first walks and the loop ends leave the edges alone.
LEMMA EdgesUnchanged ==
    ASSUME EdgesOK, phase' # "index" \/ phase' = phase,
           UNCHANGED <<spec, dataById, state, reason, resolved>>
    PROVE  EdgesOK'
  BY DEF EdgesOK, Target, Dependencies, Compatible, Participates,
         DependencyIndices, Required

LEMMA TypedIndexId == Typed /\ IndexId => Typed'
  <1> SUFFICES ASSUME Typed, IndexId PROVE Typed'
    OBVIOUS
  <1>1. /\ cursor \in Plugins /\ cursor' \in 1 .. N + 1
        /\ phase = "index" /\ phase' = "index"
        /\ spec' = spec /\ resolved' = resolved
    BY CountAssumption DEF IndexId, InLoop, Plugins
  <1>2. spec[cursor].id \in Ids \cup {NoId}
    BY <1>1, SpecTypes DEF Typed, PluginSpec
  <1>3. TypeOK'
    BY <1>1, <1>2 DEF Typed, IndexId, InLoop, IndexSkip, IndexFirst, IndexDuplicate,
       ReportError, TypeOK, States, Reasons, DependencyIndices
  <1>4. \A id \in Ids : dataById'[id] \in Plugins => spec[dataById'[id]].id = id
    BY <1>1, <1>2 DEF Typed, EdgesOK, IndexId, IndexSkip, IndexFirst, IndexDuplicate,
       TypeOK
  <1>5. \A p \in Plugins : state'[p] # "Invalid" =>
            state'[p] = state[p] /\ reason'[p] = reason[p]
    BY <1>1 DEF Typed, EdgesOK, IndexId, IndexSkip, IndexFirst, IndexDuplicate,
       ReportError, TypeOK
  <1>6. EdgesOK'
    BY <1>1, <1>4, <1>5 DEF Typed, EdgesOK, Participates, DependencyIndices, Required,
       Dependencies
  <1> QED BY <1>3, <1>6 DEF Typed

LEMMA TypedResolve == Typed /\ ResolvePlugin => Typed'
  <1> SUFFICES ASSUME Typed, ResolvePlugin PROVE Typed'
    OBVIOUS
  <1> DEFINE c == cursor
  <1>1. /\ c \in Plugins /\ cursor' \in 1 .. N + 1
        /\ phase = "resolve" /\ phase' = "resolve"
        /\ spec' = spec /\ dataById' = dataById
    BY CountAssumption DEF ResolvePlugin, InLoop, Plugins
  <1>2. /\ Accepted(c) \subseteq DependencyIndices(c)
        /\ DependencyIndices(c) \subseteq Nat \ {0}
        /\ \A k \in Accepted(c) : Target(c, k) \in Plugins /\ Compatible(c, k)
    BY <1>1, SpecTypes, VerdictProperties DEF Accepted, Typed
  <1>3. \A k \in Failures(c) : Verdict(c, k) \in Reasons
    BY <1>1, VerdictProperties DEF Failures, Typed
  <1>4. CASE ResolveSkip(c)
    <2>1. UNCHANGED <<spec, dataById, state, reason, resolved>>
      BY <1>1, <1>4 DEF ResolveSkip
    <2>2. TypeOK'
      BY <1>1, <1>4 DEF ResolvePlugin, ResolveSkip, InLoop, Typed, TypeOK, DependencyIndices
    <2> QED BY <1>1, <2>1, <2>2, EdgesUnchanged DEF Typed
  <1>5. CASE ResolveSucceeds(c)
    <2>1. \A k \in DependencyIndices(c) : Required(c, k) => k \in Accepted(c)
      BY <1>5 DEF ResolveSucceeds, Failures, Accepted
    <2>2. TypeOK'
      BY <1>1, <1>2, <1>5 DEF ResolvePlugin, InLoop, ResolveSucceeds, Typed, TypeOK,
         DependencyIndices, States
    <2>3. EdgesOK'
      BY <1>1, <1>2, <1>5, <2>1, SMTT(30) DEF ResolveSucceeds, Typed, TypeOK, EdgesOK, Target,
         Dependencies, Compatible, Participates, DependencyIndices, Required
    <2> QED BY <2>2, <2>3 DEF Typed
  <1>6. CASE ResolveFails(c)
    <2>1. PICK k \in Failures(c) :
              /\ ReportError(c, Verdict(c, k))
              /\ resolved' = [resolved EXCEPT ![c] = {j \in Accepted(c) : j < k}]
      BY <1>6 DEF ResolveFails
    <2>2. TypeOK'
      BY <1>1, <1>2, <1>3, <1>6, <2>1 DEF ResolvePlugin, InLoop, ResolveFails, ReportError,
         Typed, TypeOK, DependencyIndices, States
    <2>3. EdgesOK'
      BY <1>1, <1>2, <1>6, <2>1, SMTT(30) DEF ReportError, Typed, TypeOK, EdgesOK, Target,
         Dependencies, Compatible, Participates, DependencyIndices, Required
    <2> QED BY <2>2, <2>3 DEF Typed
  <1> QED BY <1>4, <1>5, <1>6 DEF ResolvePlugin

LEMMA TypedCycleStep == Typed /\ CycleStep => Typed'
  <1> SUFFICES ASSUME Typed, CycleStep PROVE Typed'
    OBVIOUS
  <1> DEFINE p == Top.data
             k == Top.next
             t == Target(p, k)
  <1>1. /\ stack \in Seq(Frame) /\ stack # <<>> /\ phase = "cycles"
        /\ UNCHANGED <<spec, dataById, state, reason, resolved, phase, cursor,
                       changed, order, loadOrder, finished>>
        /\ CycleSkip(p, k) \/ CycleDescend(p, k) \/ CycleFound(p, k)
    BY DEF CycleStep, Typed, TypeOK
  <1>2. p \in Plugins /\ AdvanceTop \in Seq(Frame)
    BY <1>1, TopType, AdvanceProperties
  <1>3. EdgesOK'
    BY <1>1, EdgesUnchanged DEF Typed
  <1>4. stack' \in Seq(Frame) /\ visit' \in [Plugins -> {"NotVisited", "Visiting", "Visited"}]
        /\ onCycle' \subseteq Plugins
    <2>1. CASE CycleSkip(p, k)
      BY <1>2, <2>1 DEF CycleSkip, Typed, TypeOK
    <2>2. CASE CycleDescend(p, k)
      <3>1. t \in Plugins
        BY <1>2, <2>2 DEF CycleDescend, CycleEdge, Typed, EdgesOK
      <3>2. stack' \in Seq(Frame)
        BY <1>1, <2>2, <3>1, PushProperties DEF CycleDescend
      <3>3. visit' \in [Plugins -> {"NotVisited", "Visiting", "Visited"}]
            /\ onCycle' \subseteq Plugins
        BY <2>2, <3>1 DEF CycleDescend, Typed, TypeOK
      <3> QED BY <3>2, <3>3
    <2>3. CASE CycleFound(p, k)
      <3>1. \A j \in DOMAIN stack : stack[j].data \in Plugins
        BY <1>1, TopType, LenProperties
      <3>2. SegmentFrom(t) \subseteq Plugins
        BY <3>1 DEF SegmentFrom
      <3> QED BY <1>2, <2>3, <3>2 DEF CycleFound, Typed, TypeOK
    <2> QED BY <1>1, <2>1, <2>2, <2>3
  <1>5. TypeOK'
    BY <1>1, <1>4 DEF Typed, TypeOK, DependencyIndices
  <1> QED BY <1>3, <1>5 DEF Typed

LEMMA TypedAppendStep == Typed /\ AppendStep => Typed'
  <1> SUFFICES ASSUME Typed, AppendStep PROVE Typed'
    OBVIOUS
  <1> DEFINE p == Top.data
             k == Top.next
             t == Target(p, k)
  <1>1. /\ stack \in Seq(Frame) /\ stack # <<>> /\ phase = "order"
        /\ UNCHANGED <<spec, dataById, state, reason, resolved, phase, cursor,
                       visit, onCycle, changed, order, loadOrder, finished>>
    BY DEF AppendStep, Typed, TypeOK
  <1>2. p \in Plugins /\ AdvanceTop \in Seq(Frame)
    BY <1>1, TopType, AdvanceProperties
  <1>3. EdgesOK'
    BY <1>1, EdgesUnchanged DEF Typed
  <1>4. stack' \in Seq(Frame)
    <2>1. CASE AppendEdge(p, k)
      <3>1. t \in Plugins
        BY <1>2, <2>1 DEF AppendEdge, Typed, EdgesOK
      <3>2. Append(AdvanceTop, [data |-> t, next |-> 1]) \in Seq(Frame)
        BY <1>1, <3>1, PushProperties
      <3> QED BY <2>1, <3>2 DEF AppendStep
    <2>2. CASE ~AppendEdge(p, k)
      BY <1>2, <2>2 DEF AppendStep
    <2> QED BY <2>1, <2>2
  <1>5. TypeOK'
    BY <1>1, <1>4 DEF Typed, TypeOK, DependencyIndices
  <1> QED BY <1>3, <1>5 DEF Typed

LEMMA TypedRoots == Typed /\ (CycleRoot \/ AppendRoot) => Typed'
  <1> SUFFICES ASSUME Typed, CycleRoot \/ AppendRoot PROVE Typed'
    OBVIOUS
  <1>1. /\ cursor \in Plugins /\ cursor' \in 1 .. N + 1
        /\ phase # "index" /\ phase' = phase
        /\ UNCHANGED <<spec, dataById, state, reason, resolved, onCycle, changed,
                       order, loadOrder, finished>>
    BY CountAssumption DEF CycleRoot, AppendRoot, InLoop, Plugins
  <1>2. <<[data |-> cursor, next |-> 1]>> \in Seq(Frame) /\ <<>> \in Seq(Frame)
    BY <1>1, SingletonFrame, EmptySeq
  <1>3. stack' \in Seq(Frame) /\ visit' \in [Plugins -> {"NotVisited", "Visiting", "Visited"}]
    BY <1>1, <1>2 DEF CycleRoot, AppendRoot, Typed, TypeOK
  <1>4. TypeOK'
    BY <1>1, <1>3 DEF Typed, TypeOK, DependencyIndices
  <1> QED BY <1>1, <1>4, EdgesUnchanged DEF Typed

LEMMA TypedLeaves == Typed /\ (CycleLeave \/ AppendLeave) => Typed'
  <1> SUFFICES ASSUME Typed, CycleLeave \/ AppendLeave PROVE Typed'
    OBVIOUS
  <1>1. /\ stack \in Seq(Frame) /\ stack # <<>>
        /\ phase # "index" /\ stack' = Pop
        /\ UNCHANGED <<spec, dataById, state, reason, resolved, phase, cursor,
                       onCycle, changed, loadOrder>>
    BY DEF CycleLeave, AppendLeave, Typed, TypeOK
  <1>2. stack' \in Seq(Frame) /\ Top.data \in Plugins
    BY <1>1, PopProperties, TopType
  <1>3. /\ order' \in Seq(Plugins) /\ finished' \in Seq(Plugins)
        /\ visit' \in [Plugins -> {"NotVisited", "Visiting", "Visited"}]
    <2>1. /\ Append(order, Top.data) \in Seq(Plugins)
          /\ Append(finished, Top.data) \in Seq(Plugins)
      BY <1>2, AppendProperties DEF Typed, TypeOK
    <2>2. CASE CycleLeave
      BY <1>2, <2>1, <2>2 DEF CycleLeave, Typed, TypeOK
    <2>3. CASE AppendLeave
      BY <1>2, <2>1, <2>3 DEF AppendLeave, Typed, TypeOK
    <2> QED BY <2>2, <2>3
  <1>4. TypeOK'
    BY <1>1, <1>2, <1>3 DEF Typed, TypeOK, DependencyIndices
  <1> QED BY <1>1, <1>4, EdgesUnchanged DEF Typed

LEMMA TypedErrors == Typed /\ (ReportCycles \/ Propagate) => Typed'
  <1> SUFFICES ASSUME Typed, ReportCycles \/ Propagate PROVE Typed'
    OBVIOUS
  <1>1. /\ phase' # "index" /\ phase' \in Phases /\ cursor' \in 1 .. N + 1
        /\ UNCHANGED <<spec, dataById, resolved, visit, stack, onCycle, order,
                       loadOrder, finished>>
    BY CountAssumption DEF ReportCycles, Propagate, NextPhase, InLoop, Plugins, Phases
  <1>2. /\ state' \in [Plugins -> States] /\ reason' \in [Plugins -> Reasons]
        /\ changed' \in BOOLEAN
        /\ \A p \in Plugins : state'[p] # "Invalid" =>
              state'[p] = state[p] /\ reason'[p] = reason[p]
    <2>1. CASE ReportCycles
      BY <2>1 DEF ReportCycles, Typed, TypeOK, States, Reasons
    <2>2. CASE Propagate
      BY <2>2 DEF Propagate, InLoop, ReportError, Typed, TypeOK, States, Reasons
    <2> QED BY <2>1, <2>2
  <1>3. TypeOK'
    BY <1>1, <1>2 DEF Typed, TypeOK, DependencyIndices
  <1>4. EdgesOK'
    BY <1>1, <1>2 DEF Typed, EdgesOK, Target, Dependencies, Compatible, Participates,
       DependencyIndices, Required
  <1> QED BY <1>3, <1>4 DEF Typed

LEMMA TypedLoopEnds ==
    Typed /\ (IndexDone \/ ResolveDone \/ PropagateAgain \/ PropagateDone \/ Commit)
        => Typed'
  <1> SUFFICES ASSUME Typed,
                      IndexDone \/ ResolveDone \/ PropagateAgain \/ PropagateDone \/ Commit
               PROVE  Typed'
    OBVIOUS
  <1>1. /\ phase' # "index" /\ phase' \in Phases /\ cursor' \in 1 .. N + 1
        /\ loadOrder' \in Seq(Plugins)
        /\ UNCHANGED <<spec, dataById, state, reason, resolved, visit, stack, onCycle,
                       order, finished>>
    BY CountAssumption DEF IndexDone, ResolveDone, PropagateAgain, PropagateDone, Commit,
       NextPhase, Phases, Typed, TypeOK
  <1>2. changed' \in BOOLEAN
    BY Zenon DEF IndexDone, ResolveDone, PropagateAgain, PropagateDone, Commit, Typed, TypeOK
  <1>3. TypeOK'
    BY <1>1, <1>2 DEF Typed, TypeOK, DependencyIndices
  <1> QED BY <1>1, <1>3, EdgesUnchanged DEF Typed

LEMMA TypedStep == Typed /\ [Next]_vars => Typed'
  <1>1. Typed /\ UNCHANGED vars => Typed'
    BY DEF vars, Typed, TypeOK, EdgesOK, Target, Dependencies, Compatible,
       Participates, DependencyIndices, Required
  <1> QED
    BY <1>1, TypedIndexId, TypedResolve, TypedCycleStep, TypedAppendStep, TypedRoots,
       TypedLeaves, TypedErrors, TypedLoopEnds DEF Next, Terminated

\* Every variable of the resolver keeps its type, for any number of plugins
\* and any discovery: the null candidate of dataById never becomes a plugin
\* that is visited, and no loop runs past pluginData.
THEOREM TypeCorrect == Spec => []TypeOK
  <1>1. Typed => TypeOK
    BY DEF Typed
  <1> QED BY <1>1, TypedInit, TypedStep, PTL DEF Spec

LEMMA AlwaysTyped == Spec => []Typed
  BY TypedInit, TypedStep, PTL DEF Spec

-----------------------------------------------------------------------------
(* The load order.                                                         *)

\* The propagation loop has looked at the plugins below the cursor and nothing
\* changed since the pass started, or it is over.
Propagated ==
    /\ phase = "propagate" /\ ~changed =>
           \A p \in Plugins : p < cursor /\ state[p] = "Resolved" => ~LostRequired(p)
    /\ phase \in {"order", "done"} =>
           \A p \in Plugins : state[p] = "Resolved" => ~LostRequired(p)

Listed(s, q, n) == \E j \in 1 .. n : s[j] = q

\* Each plugin of the order comes after its required dependencies.
OrderClosed ==
    \A i \in 1 .. Len(order) :
        /\ state[order[i]] = "Resolved"
        /\ \A k \in RequiredResolved(order[i]) :
              Listed(order, Target(order[i], k), i - 1)

\* A call of append has handled the edges before its frame's index: each target
\* is in the order, or is the call above.
FramesHandled ==
    phase = "order" =>
        \A i \in 1 .. Len(stack) :
            /\ state[stack[i].data] = "Resolved"
            /\ \A k \in RequiredResolved(stack[i].data) :
                  k < stack[i].next =>
                      \/ Listed(order, Target(stack[i].data, k), Len(order))
                      \/ i < Len(stack) /\ Target(stack[i].data, k) = stack[i + 1].data

Committed ==
    /\ loadOrder = IF phase = "done" THEN order ELSE <<>>
    /\ phase \in {"index", "resolve", "cycles", "propagate"} => order = <<>>

IdleStack == phase \in {"index", "resolve", "propagate", "done"} => stack = <<>>

Ordered == Propagated /\ OrderClosed /\ FramesHandled /\ Committed /\ IdleStack

LEMMA OrderedInit == Init => Ordered
  BY EmptySeq DEF Init, Ordered, Propagated, OrderClosed, FramesHandled, Committed, IdleStack

\* Steps before the order phase, which leave order and loadOrder empty.
LEMMA OrderedBefore ==
    ASSUME Ordered, Propagated',
           phase \in {"index", "resolve", "cycles", "propagate"},
           phase' \in {"index", "resolve", "cycles", "propagate", "order"},
           UNCHANGED <<order, loadOrder>>,
           phase' # "cycles" => stack' = <<>>
    PROVE  Ordered'
  <1>1. order' = <<>> /\ loadOrder' = <<>>
    BY DEF Ordered, Committed
  <1>2. Len(<<>>) = 0
    BY EmptySeq
  <1> QED BY <1>1, <1>2 DEF Ordered, OrderClosed, FramesHandled, Committed, IdleStack

\* What the steps of the order phase leave alone.
LEMMA OrderSteps ==
    ASSUME Ordered, phase = "order", UNCHANGED <<spec, dataById, state, resolved, phase>>
    PROVE  /\ Propagated'
           /\ \A p, k : Target(p, k)' = Target(p, k)
           /\ \A p : RequiredResolved(p)' = RequiredResolved(p)
  BY DEF Ordered, Propagated, LostRequired, RequiredResolved, Target, Required, Dependencies

LEMMA OrderedAppendRoot == Typed /\ Ordered /\ AppendRoot => Ordered'
  <1> SUFFICES ASSUME Typed, Ordered, AppendRoot PROVE Ordered'
    OBVIOUS
  <1>1. /\ phase = "order" /\ cursor \in Plugins
        /\ UNCHANGED <<spec, dataById, state, resolved, phase, order, loadOrder>>
    BY DEF AppendRoot, InLoop
  <1>2. /\ Propagated'
        /\ \A p : RequiredResolved(p)' = RequiredResolved(p)
        /\ \A p, k : Target(p, k)' = Target(p, k)
    BY <1>1, OrderSteps
  <1>3. OrderClosed' /\ Committed' /\ IdleStack'
    BY <1>1, <1>2 DEF Ordered, OrderClosed, Committed, IdleStack, Listed
  <1>4. FramesHandled'
    <2>1. CASE Appendable(cursor)
      <3>1. /\ stack' = <<[data |-> cursor, next |-> 1]>>
            /\ Len(stack') = 1 /\ stack'[1].data = cursor /\ stack'[1].next = 1
        BY <1>1, <2>1, SingletonFrame DEF AppendRoot
      <3>2. RequiredResolved(cursor) \subseteq Nat \ {0} /\ state[cursor] = "Resolved"
        BY <1>1, <2>1 DEF Typed, TypeOK, RequiredResolved, Appendable
      <3> QED BY <1>1, <1>2, <3>1, <3>2 DEF FramesHandled
    <2>2. CASE ~Appendable(cursor)
      <3>1. stack' = <<>> /\ Len(stack') = 0
        BY <2>2, EmptySeq DEF AppendRoot
      <3> QED BY <3>1 DEF FramesHandled
    <2> QED BY <2>1, <2>2
  <1> QED BY <1>2, <1>3, <1>4 DEF Ordered

LEMMA OrderedAppendStep == Typed /\ Ordered /\ AppendStep => Ordered'
  <1> SUFFICES ASSUME Typed, Ordered, AppendStep PROVE Ordered'
    OBVIOUS
  <1> DEFINE p == Top.data
             k == Top.next
             t == Target(p, k)
             n == Len(stack)
  <1>1. /\ phase = "order" /\ stack \in Seq(Frame) /\ stack # <<>>
        /\ UNCHANGED <<spec, dataById, state, resolved, phase, order, loadOrder>>
    BY DEF AppendStep, Typed, TypeOK
  <1>2. /\ Propagated'
        /\ \A q : RequiredResolved(q)' = RequiredResolved(q)
        /\ \A q, j : Target(q, j)' = Target(q, j)
    BY <1>1, OrderSteps
  <1>3. OrderClosed' /\ Committed' /\ IdleStack'
    <2>1. OrderClosed'
      BY <1>1, <1>2 DEF Ordered, OrderClosed, Listed
    <2>2. Committed' /\ IdleStack'
      BY <1>1 DEF Ordered, Committed, IdleStack
    <2> QED BY <2>1, <2>2
  <1>4. /\ n \in Nat \ {0} /\ p \in Plugins /\ k \in Nat \ {0}
        /\ Top = stack[n] /\ state[p] = "Resolved"
        /\ RequiredResolved(p) \subseteq Nat \ {0}
        /\ \A i \in 1 .. n : stack[i].data \in Plugins /\ stack[i].next \in Nat \ {0}
    <2>1. n \in Nat \ {0} /\ p \in Plugins /\ k \in Nat \ {0} /\ Top = stack[n]
      BY <1>1, TopType DEF Top
    <2>2. \A i \in 1 .. n : stack[i].data \in Plugins /\ stack[i].next \in Nat \ {0}
      <3>1. \A i \in 1 .. n : stack[i] \in Frame
        BY <1>1, ElementOfSeq
      <3> QED BY <3>1 DEF Frame
    <2> QED BY <1>1, <2>1, <2>2 DEF Ordered, FramesHandled, Typed, TypeOK, RequiredResolved
  <1>5. \A q \in Plugins : RequiredResolved(q) \subseteq Nat \ {0}
    BY DEF Typed, TypeOK, RequiredResolved
  <1>6. CASE AppendEdge(p, k)
    <2>1. t \in Plugins /\ state[t] = "Resolved"
      BY <1>4, <1>6 DEF AppendEdge, Appendable, Typed, EdgesOK
    <2>2. stack' = Append(AdvanceTop, [data |-> t, next |-> 1])
      BY <1>6 DEF AppendStep
    <2>3. /\ Len(stack') = n + 1
          /\ \A i \in 1 .. n :
                /\ stack'[i].data = stack[i].data
                /\ stack'[i].next = IF i = n THEN k + 1 ELSE stack[i].next
          /\ stack'[n + 1].data = t /\ stack'[n + 1].next = 1
      BY <1>1, <2>1, <2>2, PushProperties
    <2>4. ASSUME NEW i \in 1 .. n + 1
          PROVE  /\ state[stack'[i].data] = "Resolved"
                 /\ \A j \in RequiredResolved(stack'[i].data) :
                       j < stack'[i].next =>
                           \/ Listed(order, Target(stack'[i].data, j), Len(order))
                           \/ i < n + 1 /\ Target(stack'[i].data, j) = stack'[i + 1].data
      <3>1. CASE i = n + 1
        BY <1>5, <2>1, <2>3, <3>1
      <3>2. CASE i = n
        <4> SUFFICES ASSUME NEW j \in RequiredResolved(p), j < k + 1
                     PROVE  Listed(order, Target(p, j), Len(order)) \/ Target(p, j) = t
          BY <1>4, <2>3, <3>2
        <4>1. j < k \/ j = k
          BY <1>4
        <4> QED BY <1>1, <1>4, <4>1 DEF Ordered, FramesHandled
      <3>3. CASE i < n
        BY <1>1, <1>4, <2>3, <3>3 DEF Ordered, FramesHandled
      <3> QED BY <1>4, <3>1, <3>2, <3>3
    <2>5. FramesHandled'
      BY <1>1, <1>2, <2>3, <2>4 DEF FramesHandled, Listed
    <2> QED BY <1>2, <1>3, <2>5 DEF Ordered
  <1>7. CASE ~AppendEdge(p, k)
    <2>1. stack' = AdvanceTop
      BY <1>7 DEF AppendStep
    <2>2. /\ Len(stack') = n
          /\ \A i \in 1 .. n :
                /\ stack'[i].data = stack[i].data
                /\ stack'[i].next = IF i = n THEN k + 1 ELSE stack[i].next
      BY <1>1, <2>1, AdvanceProperties
    <2>3. k \in RequiredResolved(p) => Listed(order, t, Len(order))
      <3> SUFFICES ASSUME k \in RequiredResolved(p) PROVE Listed(order, t, Len(order))
        OBVIOUS
      <3>1. t \in Plugins /\ state[t] = "Resolved"
        BY <1>1, <1>4 DEF Ordered, Propagated, LostRequired, RequiredResolved, Typed, EdgesOK
      <3>2. t \in ToSet(order)
        BY <1>4, <1>7, <3>1 DEF AppendEdge, Appendable, RequiredResolved, Typed, EdgesOK
      <3> QED BY <3>2, LenProperties DEF ToSet, Listed, Typed, TypeOK
    <2>4. ASSUME NEW i \in 1 .. n
          PROVE  /\ state[stack'[i].data] = "Resolved"
                 /\ \A j \in RequiredResolved(stack'[i].data) :
                       j < stack'[i].next =>
                           \/ Listed(order, Target(stack'[i].data, j), Len(order))
                           \/ i < n /\ Target(stack'[i].data, j) = stack'[i + 1].data
      <3>1. CASE i = n
        <4> SUFFICES ASSUME NEW j \in RequiredResolved(p), j < k + 1
                     PROVE  Listed(order, Target(p, j), Len(order))
          BY <1>4, <2>2, <3>1
        <4>1. j < k \/ j = k
          BY <1>4
        <4> QED BY <1>1, <1>4, <2>3, <3>1, <4>1 DEF Ordered, FramesHandled
      <3>2. CASE i < n
        BY <1>1, <1>4, <2>2, <3>2 DEF Ordered, FramesHandled
      <3> QED BY <1>4, <3>1, <3>2
    <2>5. FramesHandled'
      BY <1>1, <1>2, <2>2, <2>4 DEF FramesHandled, Listed
    <2> QED BY <1>2, <1>3, <2>5 DEF Ordered
  <1> QED BY <1>6, <1>7

LEMMA OrderedAppendLeave == Typed /\ Ordered /\ AppendLeave => Ordered'
  <1> SUFFICES ASSUME Typed, Ordered, AppendLeave PROVE Ordered'
    OBVIOUS
  <1> DEFINE p == Top.data
             k == Top.next
             n == Len(stack)
             m == Len(order)
  <1>1. /\ phase = "order" /\ stack \in Seq(Frame) /\ stack # <<>>
        /\ order \in Seq(Plugins)
        /\ order' = Append(order, p) /\ stack' = Pop
        /\ k \notin DependencyIndices(p)
        /\ UNCHANGED <<spec, dataById, state, resolved, phase, loadOrder>>
    BY DEF AppendLeave, Typed, TypeOK
  <1>2. /\ Propagated'
        /\ \A q : RequiredResolved(q)' = RequiredResolved(q)
        /\ \A q, j : Target(q, j)' = Target(q, j)
    BY <1>1, OrderSteps
  <1>3. n \in Nat \ {0} /\ p \in Plugins /\ k \in Nat \ {0} /\ Top = stack[n]
    BY <1>1, TopType DEF Top
  <1>4. /\ m \in Nat /\ Len(order') = m + 1 /\ order'[m + 1] = p
        /\ \A i \in 1 .. m : order'[i] = order[i]
    BY <1>1, <1>3, AppendProperties, LenProperties
  <1>5. /\ Len(stack') = n - 1
        /\ \A i \in 1 .. n - 1 : stack'[i] = stack[i]
    BY <1>1, PopProperties
  <1>6. \A q : Listed(order, q, m) => Listed(order', q, m + 1)
    BY <1>4 DEF Listed
  <1>7. Listed(order', p, m + 1)
    BY <1>4 DEF Listed
  <1>8. state[p] = "Resolved" /\ \A j \in RequiredResolved(p) : Listed(order, Target(p, j), m)
    <2>1. \A j \in RequiredResolved(p) : j < k
      BY <1>1, <1>3, SpecTypes, SMTT(30) DEF Typed, TypeOK, RequiredResolved
    <2> QED BY <1>1, <1>3, <2>1 DEF Ordered, FramesHandled
  <1>9. OrderClosed'
    <2> SUFFICES ASSUME NEW i \in 1 .. m + 1
                 PROVE  /\ state[order'[i]] = "Resolved"
                        /\ \A j \in RequiredResolved(order'[i]) :
                              Listed(order', Target(order'[i], j), i - 1)
      BY <1>1, <1>2, <1>4 DEF OrderClosed, Listed
    <2>1. CASE i = m + 1
      BY <1>4, <1>8, <2>1 DEF Listed
    <2>2. CASE i \in 1 .. m
      BY <1>4, <2>2 DEF Ordered, OrderClosed, Listed
    <2> QED BY <1>4, <2>1, <2>2
  <1>10. FramesHandled'
    <2>1. ASSUME NEW i \in 1 .. n - 1
          PROVE  /\ state[stack[i].data] = "Resolved"
                 /\ \A j \in RequiredResolved(stack[i].data) :
                       j < stack[i].next =>
                           \/ Listed(order', Target(stack[i].data, j), m + 1)
                           \/ i < n - 1 /\ Target(stack[i].data, j) = stack[i + 1].data
      BY <1>1, <1>3, <1>6, <1>7 DEF Ordered, FramesHandled
    <2>2. \A i \in 1 .. n - 1 : stack'[i].data = stack[i].data /\ stack'[i].next = stack[i].next
      BY <1>5
    <2>3. \A i \in 1 .. n - 1 : i < n - 1 => stack'[i + 1].data = stack[i + 1].data
      BY <1>3, <1>5
    <2> QED BY <1>1, <1>2, <1>4, <1>5, <2>1, <2>2, <2>3 DEF FramesHandled
  <1>11. Committed' /\ IdleStack'
    BY <1>1 DEF Ordered, Committed, IdleStack
  <1> QED BY <1>2, <1>9, <1>10, <1>11 DEF Ordered

LEMMA OrderedStep == Typed /\ Ordered /\ [Next]_vars => Ordered'
  <1> SUFFICES ASSUME Typed, Ordered, [Next]_vars PROVE Ordered'
    OBVIOUS
  <1> USE DEF Plugins
  <1>1. CASE IndexId \/ ResolvePlugin \/ IndexDone \/ ResolveDone
    BY <1>1, OrderedBefore DEF IndexId, ResolvePlugin, IndexDone, ResolveDone, InLoop,
       NextPhase, Propagated, Ordered, IdleStack
  <1>2. CASE CycleRoot \/ CycleStep \/ CycleLeave
    BY <1>2, OrderedBefore DEF CycleRoot, CycleStep, CycleLeave, InLoop, Propagated
  <1>3. CASE ReportCycles
    <2>1. Propagated'
      BY <1>3 DEF ReportCycles, NextPhase, Propagated
    <2> QED BY <1>3, <2>1, OrderedBefore DEF ReportCycles, NextPhase
  <1>4. CASE Propagate
    <2>1. Propagated'
      <3> SUFFICES ASSUME ~changed', NEW p \in Plugins, p < cursor', state'[p] = "Resolved"
                   PROVE  ~LostRequired(p)'
        BY <1>4 DEF Propagate, InLoop, Propagated
      <3>1. ~changed /\ state' = state /\ ~(state[cursor] = "Resolved" /\ LostRequired(cursor))
        BY <1>4, Zenon DEF Propagate
      <3>2. p < cursor \/ p = cursor
        BY <1>4, CountAssumption DEF Propagate, InLoop
      <3>3. ~LostRequired(p)
        BY <1>4, <3>1, <3>2 DEF Propagate, InLoop, Ordered, Propagated
      <3> QED
        BY <1>4, <3>1, <3>3 DEF Propagate, InLoop, LostRequired, RequiredResolved, Target,
           Required, Dependencies
    <2> QED BY <1>4, <2>1, OrderedBefore DEF Propagate, InLoop, Ordered, IdleStack
  <1>5. CASE PropagateAgain
    <2>1. Propagated'
      BY <1>5 DEF PropagateAgain, NextPhase, Propagated
    <2> QED BY <1>5, <2>1, OrderedBefore DEF PropagateAgain, NextPhase, Ordered, IdleStack
  <1>6. CASE PropagateDone
    <2>1. Propagated'
      BY <1>6, CountAssumption DEF PropagateDone, NextPhase, Ordered, Propagated, LostRequired,
         RequiredResolved, Target, Required, Dependencies
    <2> QED BY <1>6, <2>1, OrderedBefore DEF PropagateDone, NextPhase, Ordered, IdleStack
  <1>7. CASE AppendRoot
    BY <1>7, OrderedAppendRoot
  <1>8. CASE AppendStep
    BY <1>8, OrderedAppendStep
  <1>9. CASE AppendLeave
    BY <1>9, OrderedAppendLeave
  <1>10. CASE Commit
    BY <1>10
       DEF Commit, NextPhase, Ordered, Propagated, OrderClosed, FramesHandled, Committed,
           IdleStack, LostRequired, RequiredResolved, Target, Required, Dependencies, Listed
  <1>11. CASE UNCHANGED vars
    BY <1>11
       DEF vars, Ordered, Propagated, OrderClosed, FramesHandled, Committed,
           IdleStack, LostRequired, RequiredResolved, Target, Required, Dependencies, Listed
  <1> QED
    BY <1>1, <1>2, <1>3, <1>4, <1>5, <1>6, <1>7, <1>8, <1>9, <1>10, <1>11
       DEF Next, Terminated

\* "Dependencies are loaded and initialized before their dependents": whatever
\* is discovered, the order that loadPlugins() follows lists only plugins that
\* are enabled, selected and Resolved, each after a plugin that answers each of
\* its required dependencies with an accepted version.
THEOREM LoadOrderSound == Spec => []RequiredBefore
  <1>1. Typed /\ Ordered => RequiredBefore
    <2> SUFFICES ASSUME Typed, Ordered, NEW i \in DOMAIN loadOrder
                 PROVE  /\ Participates(loadOrder[i])
                        /\ state[loadOrder[i]] = "Resolved"
                        /\ \A k \in DependencyIndices(loadOrder[i]) :
                              Required(loadOrder[i], k) =>
                                  \E j \in 1 .. i - 1 :
                                      Satisfies(loadOrder[j], Dependencies(loadOrder[i])[k])
      BY DEF RequiredBefore
    <2> DEFINE p == loadOrder[i]
    <2>1. loadOrder = order
      BY EmptySeq, LenProperties DEF Ordered, Committed
    <2>2. i \in 1 .. Len(order) /\ p \in Plugins
      BY <2>1, LenProperties, ElementOfSeq DEF Typed, TypeOK
    <2>3. /\ state[p] = "Resolved"
          /\ \A k \in RequiredResolved(p) : Listed(order, Target(p, k), i - 1)
      BY <2>1, <2>2 DEF Ordered, OrderClosed
    <2>4. Participates(p)
      BY <2>2, <2>3 DEF Typed, EdgesOK
    <2>5. ASSUME NEW k \in DependencyIndices(p), Required(p, k)
          PROVE  \E j \in 1 .. i - 1 : Satisfies(loadOrder[j], Dependencies(p)[k])
      <3>1. k \in RequiredResolved(p)
        BY <2>2, <2>3, <2>5 DEF Typed, EdgesOK, RequiredResolved
      <3>2. PICK j \in 1 .. i - 1 : order[j] = Target(p, k)
        BY <2>3, <3>1 DEF Listed
      <3>3. Target(p, k) \in Plugins /\ Compatible(p, k) /\ Dependencies(p)[k].id \in Ids
        BY <2>2, <3>1, SpecTypes DEF Typed, EdgesOK, RequiredResolved
      <3>4. Satisfies(Target(p, k), Dependencies(p)[k])
        BY <3>3 DEF Typed, EdgesOK, Satisfies, Compatible, Target
      <3> QED BY <2>1, <3>2, <3>4
    <2> QED BY <2>3, <2>4, <2>5
  <1>2. Spec => []Ordered
    BY AlwaysTyped, OrderedInit, OrderedStep, PTL DEF Spec
  <1> QED BY <1>1, <1>2, AlwaysTyped, PTL

-----------------------------------------------------------------------------
(***************************************************************************)
(* findCycles breaks every cycle, so that append ends: theorems about the  *)
(* two depth-first walks.                                                  *)
(*                                                                         *)
(* The plugins in the order findCycles leaves them (finished) are the      *)
(* witness: an edge to a plugin that is not left yet is a back edge, and   *)
(* then its source is in cycleErrors.  What stays Resolved therefore only  *)
(* depends on what was left earlier, and every call of append is made for  *)
(* a plugin that was left before its caller.                               *)
(***************************************************************************)

Left(p) == Listed(finished, p, Len(finished))

LeftBefore(q, p) ==
    \E a, b \in 1 .. Len(finished) : a < b /\ finished[a] = q /\ finished[b] = p

FinishedOK ==
    /\ \A a, b \in 1 .. Len(finished) : finished[a] = finished[b] => a = b
    /\ \A p \in Plugins : visit[p] = "Visited" <=> Left(p)

NotStarted ==
    phase \in {"index", "resolve"} =>
        /\ finished = <<>>
        /\ onCycle = {}
        /\ \A p \in Plugins : visit[p] = "NotVisited"

\* The calls of findCycles are the plugins marked Visiting, each once.
CallsVisiting ==
    phase = "cycles" =>
        /\ \A i \in 1 .. Len(stack) :
              visit[stack[i].data] = "Visiting" /\ state[stack[i].data] = "Resolved"
        /\ \A i, j \in 1 .. Len(stack) : stack[i].data = stack[j].data => i = j
        /\ \A p \in Plugins : visit[p] = "Visiting" => \E i \in 1 .. Len(stack) : stack[i].data = p

\* The edges a call has walked lead to a plugin that was left, to the call
\* above it, or close a cycle that has been noted.
EdgesWalked ==
    phase = "cycles" =>
        \A i \in 1 .. Len(stack) : \A k \in resolved[stack[i].data] :
            k < stack[i].next /\ state[Target(stack[i].data, k)] = "Resolved" =>
                \/ Left(Target(stack[i].data, k))
                \/ stack[i].data \in onCycle
                \/ i < Len(stack) /\ Target(stack[i].data, k) = stack[i + 1].data

LeftClosed ==
    phase = "cycles" =>
        \A a \in 1 .. Len(finished) :
            \/ finished[a] \in onCycle
            \/ \A k \in resolved[finished[a]] :
                  state[Target(finished[a], k)] = "Resolved" =>
                      Listed(finished, Target(finished[a], k), a - 1)

RootsWalked ==
    phase = "cycles" =>
        \A p \in Plugins : p < cursor /\ state[p] = "Resolved" => visit[p] # "NotVisited"

Walk == FinishedOK /\ NotStarted /\ CallsVisiting /\ EdgesWalked /\ LeftClosed /\ RootsWalked

\* After the report every Resolved plugin was left, and depends on plugins left
\* before it.
Acyclic ==
    phase \in {"propagate", "order", "done"} =>
        /\ \A p \in Plugins : state[p] = "Resolved" => Left(p)
        /\ \A a \in 1 .. Len(finished) :
              state[finished[a]] = "Resolved" =>
                  \A k \in resolved[finished[a]] :
                      state[Target(finished[a], k)] = "Resolved" =>
                          Listed(finished, Target(finished[a], k), a - 1)

\* The calls of append go down the finished order.
CallsDescend ==
    phase = "order" =>
        \A i, j \in 1 .. Len(stack) :
            i < j => LeftBefore(stack[j].data, stack[i].data)

Cycles == Walk /\ Acyclic /\ CallsDescend

-----------------------------------------------------------------------------
LEMMA CyclesInit == Init => Cycles
  BY EmptySeq
     DEF Init, Cycles, Walk, FinishedOK, NotStarted, CallsVisiting, EdgesWalked, LeftClosed,
         RootsWalked, Acyclic, CallsDescend, Left, Listed

\* Steps of the first two loops.
LEMMA CyclesBefore ==
    ASSUME Typed, Cycles, Ordered, IndexId \/ IndexDone \/ ResolvePlugin \/ ResolveDone
    PROVE  Cycles'
  <1>1. /\ phase \in {"index", "resolve"} /\ phase' \in {"index", "resolve", "cycles"}
        /\ phase' = "cycles" => cursor' = 1
        /\ UNCHANGED <<visit, stack, onCycle, finished>>
    BY DEF IndexId, IndexDone, ResolvePlugin, ResolveDone, InLoop, NextPhase
  <1>2. finished = <<>> /\ stack = <<>> /\ onCycle = {}
        /\ \A p \in Plugins : visit[p] = "NotVisited"
    BY <1>1 DEF Cycles, Walk, NotStarted, Ordered, IdleStack
  <1>3. \A p \in Plugins : ~(p < 1)
    BY CountAssumption DEF Plugins
  <1> QED
    BY <1>1, <1>2, <1>3, EmptySeq
       DEF Cycles, Walk, FinishedOK, NotStarted, CallsVisiting, EdgesWalked, LeftClosed,
           RootsWalked, Acyclic, CallsDescend, Left, Listed

LEMMA CyclesRoot == Typed /\ Cycles /\ CycleRoot => Cycles'
  <1> SUFFICES ASSUME Typed, Cycles, CycleRoot PROVE Cycles'
    OBVIOUS
  <1>1. /\ phase = "cycles" /\ phase' = "cycles" /\ stack = <<>> /\ cursor \in Plugins
        /\ cursor' = cursor + 1
        /\ UNCHANGED <<spec, dataById, state, resolved, onCycle, finished>>
    BY DEF CycleRoot, InLoop
  <1>2. CASE IsCycleRoot(cursor)
    <2>1. /\ stack' = <<[data |-> cursor, next |-> 1]>>
          /\ visit' = [visit EXCEPT ![cursor] = "Visiting"]
          /\ state[cursor] = "Resolved" /\ visit[cursor] = "NotVisited"
      BY <1>2 DEF CycleRoot, IsCycleRoot
    <2>2. Len(stack') = 1 /\ stack'[1].data = cursor /\ stack'[1].next = 1
      BY <1>1, <2>1, SingletonFrame
    <2>3. \A p \in Plugins : visit'[p] = IF p = cursor THEN "Visiting" ELSE visit[p]
      BY <1>1, <2>1 DEF Typed, TypeOK
    <2>4. Len(stack) = 0
      BY <1>1, EmptySeq
    <2>5. FinishedOK' /\ NotStarted'
      BY <1>1, <2>1, <2>3 DEF Cycles, Walk, FinishedOK, NotStarted, Left
    <2>6. CallsVisiting'
      BY <1>1, <2>1, <2>2, <2>3, <2>4 DEF Cycles, Walk, CallsVisiting
    <2>7. EdgesWalked'
      <3>1. resolved[cursor] \subseteq Nat \ {0}
        BY <1>1 DEF Typed, TypeOK
      <3> QED BY <1>1, <2>2, <3>1 DEF EdgesWalked
    <2>8. LeftClosed'
      BY <1>1 DEF Cycles, Walk, LeftClosed, Target, Dependencies
    <2>9. RootsWalked'
      BY <1>1, <2>3, CountAssumption DEF Cycles, Walk, RootsWalked, Plugins
    <2> QED
      BY <1>1, <2>5, <2>6, <2>7, <2>8, <2>9 DEF Cycles, Walk, Acyclic, CallsDescend
  <1>3. CASE ~IsCycleRoot(cursor)
    <2>1. UNCHANGED <<stack, visit>>
      BY <1>3 DEF CycleRoot
    <2>2. RootsWalked'
      BY <1>1, <1>3, <2>1, CountAssumption DEF Cycles, Walk, RootsWalked, IsCycleRoot, Plugins
    <2> QED
      BY <1>1, <2>1, <2>2
         DEF Cycles, Walk, FinishedOK, NotStarted, CallsVisiting, EdgesWalked, LeftClosed,
             Acyclic, CallsDescend, Left, Target, Dependencies
  <1> QED BY <1>2, <1>3

LEMMA CyclesStep == Typed /\ Cycles /\ CycleStep => Cycles'
  <1> SUFFICES ASSUME Typed, Cycles, CycleStep PROVE Cycles'
    OBVIOUS
  <1> DEFINE p == Top.data
             k == Top.next
             t == Target(p, k)
             n == Len(stack)
  <1>1. /\ phase = "cycles" /\ stack \in Seq(Frame) /\ stack # <<>>
        /\ UNCHANGED <<spec, dataById, state, resolved, phase, cursor, finished>>
        /\ CycleSkip(p, k) \/ CycleDescend(p, k) \/ CycleFound(p, k)
    BY DEF CycleStep, Typed, TypeOK
  <1>2. /\ n \in Nat \ {0} /\ p \in Plugins /\ k \in Nat \ {0} /\ Top = stack[n]
        /\ \A i \in 1 .. n : stack[i].data \in Plugins
        /\ state[p] = "Resolved" /\ visit[p] = "Visiting"
    <2>1. /\ n \in Nat \ {0} /\ p \in Plugins /\ k \in Nat \ {0} /\ Top = stack[n]
          /\ \A i \in 1 .. n : stack[i].data \in Plugins
      BY <1>1, TopType DEF Top
    <2> QED BY <1>1, <2>1 DEF Cycles, Walk, CallsVisiting
  <1>3. \A q, j : Target(q, j)' = Target(q, j)
    BY <1>1 DEF Target, Dependencies
  <1>4. \A q : Left(q)' = Left(q)
    BY <1>1 DEF Left
  <1>5. \A q \in Plugins : resolved[q] \subseteq Nat \ {0}
    BY DEF Typed, TypeOK
  <1>6. Acyclic' /\ CallsDescend' /\ NotStarted'
    BY <1>1 DEF Acyclic, CallsDescend, NotStarted
  <1>7. CASE CycleDescend(p, k)
    <2>1. /\ t \in Plugins /\ state[t] = "Resolved" /\ visit[t] = "NotVisited"
          /\ onCycle' = onCycle
          /\ visit' = [visit EXCEPT ![t] = "Visiting"]
          /\ stack' = Append(AdvanceTop, [data |-> t, next |-> 1])
      BY <1>2, <1>7 DEF CycleDescend, CycleEdge, Typed, EdgesOK
    <2>2. /\ Len(stack') = n + 1
          /\ \A i \in 1 .. n :
                /\ stack'[i].data = stack[i].data
                /\ stack'[i].next = IF i = n THEN k + 1 ELSE stack[i].next
          /\ stack'[n + 1].data = t /\ stack'[n + 1].next = 1
      BY <1>1, <2>1, PushProperties
    <2>3. \A q \in Plugins : visit'[q] = IF q = t THEN "Visiting" ELSE visit[q]
      BY <2>1 DEF Typed, TypeOK
    <2>4. FinishedOK'
      BY <1>1, <1>4, <2>1, <2>3 DEF Cycles, Walk, FinishedOK
    <2>5. CallsVisiting'
      <3>1. \A i \in 1 .. n + 1 : stack'[i].data \in Plugins
                /\ visit'[stack'[i].data] = "Visiting" /\ state[stack'[i].data] = "Resolved"
        BY <1>1, <1>2, <2>1, <2>2, <2>3 DEF Cycles, Walk, CallsVisiting
      <3>2. \A i \in 1 .. n : stack[i].data # t
        BY <1>1, <2>1 DEF Cycles, Walk, CallsVisiting
      <3>3. \A i, j \in 1 .. n + 1 : stack'[i].data = stack'[j].data => i = j
        <4> SUFFICES ASSUME NEW i \in 1 .. n + 1, NEW j \in 1 .. n + 1,
                            stack'[i].data = stack'[j].data
                     PROVE  i = j
          OBVIOUS
        <4>1. CASE i \in 1 .. n /\ j \in 1 .. n
          BY <1>1, <2>2, <4>1 DEF Cycles, Walk, CallsVisiting
        <4>2. CASE i = n + 1 \/ j = n + 1
          BY <1>2, <2>2, <3>2, <4>2
        <4> QED BY <1>2, <4>1, <4>2
      <3>4. \A q \in Plugins : visit'[q] = "Visiting" =>
                \E i \in 1 .. n + 1 : stack'[i].data = q
        <4> SUFFICES ASSUME NEW q \in Plugins, visit'[q] = "Visiting"
                     PROVE  \E i \in 1 .. n + 1 : stack'[i].data = q
          OBVIOUS
        <4>1. CASE q = t
          BY <1>2, <2>2, <4>1
        <4>2. CASE q # t
          <5>1. PICK i \in 1 .. n : stack[i].data = q
            BY <1>1, <2>3, <4>2 DEF Cycles, Walk, CallsVisiting
          <5> QED BY <1>2, <2>2, <5>1
        <4> QED BY <4>1, <4>2
      <3> QED BY <1>1, <2>2, <3>1, <3>3, <3>4 DEF CallsVisiting
    <2>6. EdgesWalked'
      <3> SUFFICES ASSUME NEW i \in 1 .. n + 1, NEW j \in resolved[stack'[i].data],
                          j < stack'[i].next, state[Target(stack'[i].data, j)] = "Resolved"
                   PROVE  \/ Left(Target(stack'[i].data, j))
                          \/ stack'[i].data \in onCycle
                          \/ i < n + 1 /\ Target(stack'[i].data, j) = stack'[i + 1].data
        BY <1>1, <1>3, <1>4, <2>1, <2>2 DEF EdgesWalked
      <3>1. CASE i = n + 1
        BY <1>5, <2>1, <2>2, <3>1
      <3>2. CASE i = n
        <4>1. j < k \/ j = k
          BY <1>2, <1>5, <2>2, <3>2
        <4> QED BY <1>1, <1>2, <2>2, <3>2, <4>1 DEF Cycles, Walk, EdgesWalked
      <3>3. CASE i < n
        BY <1>1, <1>2, <2>2, <3>3 DEF Cycles, Walk, EdgesWalked
      <3> QED BY <1>2, <3>1, <3>2, <3>3
    <2>7. LeftClosed'
      BY <1>1, <1>3, <2>1 DEF Cycles, Walk, LeftClosed
    <2>8. RootsWalked'
      BY <1>1, <2>3 DEF Cycles, Walk, RootsWalked
    <2> QED BY <1>6, <2>4, <2>5, <2>6, <2>7, <2>8 DEF Cycles, Walk
  <1>8. CASE CycleSkip(p, k) \/ CycleFound(p, k)
    <2>1. /\ stack' = AdvanceTop /\ visit' = visit /\ onCycle \subseteq onCycle'
      BY <1>8 DEF CycleSkip, CycleFound
    <2>2. /\ Len(stack') = n
          /\ \A i \in 1 .. n :
                /\ stack'[i].data = stack[i].data
                /\ stack'[i].next = IF i = n THEN k + 1 ELSE stack[i].next
      BY <1>1, <2>1, AdvanceProperties
    <2>3. k \in resolved[p] /\ state[t] = "Resolved" => Left(t) \/ p \in onCycle'
      <3> SUFFICES ASSUME CycleEdge(p, k) PROVE Left(t) \/ p \in onCycle'
        BY DEF CycleEdge
      <3>1. t \in Plugins
        BY <1>2 DEF CycleEdge, Typed, EdgesOK
      <3>2. CASE CycleSkip(p, k)
        BY <3>1, <3>2 DEF CycleSkip, Cycles, Walk, FinishedOK
      <3>3. CASE CycleFound(p, k)
        <4>1. PICK i \in 1 .. n : stack[i].data = t
          BY <1>1, <3>1, <3>3 DEF CycleFound, Cycles, Walk, CallsVisiting
        <4>2. n \in DOMAIN stack /\ \E m \in 1 .. n : stack[m].data = t
          BY <1>1, <1>2, <4>1, LenProperties
        <4>3. stack[n].data \in SegmentFrom(t)
          BY <4>2 DEF SegmentFrom
        <4> QED BY <1>2, <3>3, <4>3 DEF CycleFound
      <3> QED BY <1>8, <3>2, <3>3
    <2>4. FinishedOK' /\ RootsWalked'
      BY <1>1, <1>4, <2>1 DEF Cycles, Walk, FinishedOK, RootsWalked
    <2>5. CallsVisiting'
      BY <1>1, <2>1, <2>2 DEF Cycles, Walk, CallsVisiting
    <2>6. EdgesWalked'
      <3> SUFFICES ASSUME NEW i \in 1 .. n, NEW j \in resolved[stack'[i].data],
                          j < stack'[i].next, state[Target(stack'[i].data, j)] = "Resolved"
                   PROVE  \/ Left(Target(stack'[i].data, j))
                          \/ stack'[i].data \in onCycle'
                          \/ i < n /\ Target(stack'[i].data, j) = stack'[i + 1].data
        BY <1>1, <1>3, <1>4, <2>1, <2>2 DEF EdgesWalked
      <3>1. CASE i = n
        <4>1. j < k \/ j = k
          BY <1>2, <1>5, <2>2, <3>1
        <4>2. CASE j = k
          BY <1>2, <2>2, <2>3, <3>1, <4>2
        <4>3. CASE j < k
          BY <1>1, <1>2, <2>1, <2>2, <3>1, <4>3 DEF Cycles, Walk, EdgesWalked
        <4> QED BY <4>1, <4>2, <4>3
      <3>2. CASE i < n
        BY <1>1, <1>2, <2>1, <2>2, <3>2 DEF Cycles, Walk, EdgesWalked
      <3> QED BY <1>2, <3>1, <3>2
    <2>7. LeftClosed'
      BY <1>1, <1>3, <2>1 DEF Cycles, Walk, LeftClosed
    <2> QED BY <1>6, <2>4, <2>5, <2>6, <2>7 DEF Cycles, Walk
  <1> QED BY <1>1, <1>7, <1>8

LEMMA CyclesLeave == Typed /\ Cycles /\ CycleLeave => Cycles'
  <1> SUFFICES ASSUME Typed, Cycles, CycleLeave PROVE Cycles'
    OBVIOUS
  <1> DEFINE p == Top.data
             k == Top.next
             n == Len(stack)
             m == Len(finished)
  <1>1. /\ phase = "cycles" /\ stack \in Seq(Frame) /\ stack # <<>>
        /\ finished \in Seq(Plugins)
        /\ finished' = Append(finished, p) /\ stack' = Pop
        /\ visit' = [visit EXCEPT ![p] = "Visited"]
        /\ k \notin DependencyIndices(p)
        /\ UNCHANGED <<spec, dataById, state, resolved, phase, cursor, onCycle>>
    BY DEF CycleLeave, Typed, TypeOK
  <1>2. /\ n \in Nat \ {0} /\ p \in Plugins /\ k \in Nat \ {0} /\ Top = stack[n]
        /\ \A i \in 1 .. n : stack[i].data \in Plugins
    BY <1>1, TopType DEF Top
  <1>3. /\ m \in Nat /\ Len(finished') = m + 1 /\ finished'[m + 1] = p
        /\ \A i \in 1 .. m : finished'[i] = finished[i]
    BY <1>1, <1>2, AppendProperties, LenProperties
  <1>4. /\ Len(stack') = n - 1
        /\ \A i \in 1 .. n - 1 : stack'[i] = stack[i]
    BY <1>1, PopProperties
  <1>5. \A q, j : Target(q, j)' = Target(q, j)
    BY <1>1 DEF Target, Dependencies
  <1>6. /\ \A q : Listed(finished', q, m + 1) <=> Listed(finished, q, m) \/ q = p
        /\ \A q : \A a \in 1 .. m + 1 :
              Listed(finished, q, a - 1) => Listed(finished', q, a - 1)
    <2>1. \A q : Listed(finished', q, m + 1) => Listed(finished, q, m) \/ q = p
      <3> SUFFICES ASSUME NEW q, NEW j \in 1 .. m + 1, finished'[j] = q
                   PROVE  Listed(finished, q, m) \/ q = p
        BY DEF Listed
      <3>1. j = m + 1 \/ j \in 1 .. m
        BY <1>3
      <3> QED BY <1>3, <3>1 DEF Listed
    <2>2. \A q : Listed(finished, q, m) \/ q = p => Listed(finished', q, m + 1)
      BY <1>3 DEF Listed
    <2>3. \A q : \A a \in 1 .. m + 1 :
              Listed(finished, q, a - 1) => Listed(finished', q, a - 1)
      BY <1>3 DEF Listed
    <2> QED BY <2>1, <2>2, <2>3
  <1>7. \A q : Left(q)' <=> Left(q) \/ q = p
    BY <1>3, <1>6 DEF Left
  <1>8. visit[p] = "Visiting" /\ state[p] = "Resolved"
    BY <1>1, <1>2 DEF Cycles, Walk, CallsVisiting
  <1>9. \A q \in Plugins : visit'[q] = IF q = p THEN "Visited" ELSE visit[q]
    BY <1>1, <1>2 DEF Typed, TypeOK
  <1>10. ~Left(p)
    BY <1>2, <1>8 DEF Cycles, Walk, FinishedOK
  <1>11. FinishedOK'
    <2>1. \A a \in 1 .. m : finished[a] # p
      BY <1>10 DEF Left, Listed
    <2>2. ASSUME NEW a \in 1 .. m + 1, NEW b \in 1 .. m + 1, finished'[a] = finished'[b]
          PROVE  a = b
      <3>1. CASE a \in 1 .. m /\ b \in 1 .. m
        BY <1>3, <2>2, <3>1 DEF Cycles, Walk, FinishedOK
      <3>2. CASE a = m + 1 \/ b = m + 1
        BY <1>3, <2>1, <2>2, <3>2
      <3> QED BY <1>3, <3>1, <3>2
    <2>3. \A q \in Plugins : visit'[q] = "Visited" <=> Left(q)'
      BY <1>7, <1>9 DEF Cycles, Walk, FinishedOK
    <2> QED BY <1>3, <2>2, <2>3 DEF FinishedOK
  <1>12. CallsVisiting'
    <2>1. \A i \in 1 .. n - 1 : stack[i].data # p
      BY <1>1, <1>2 DEF Cycles, Walk, CallsVisiting
    <2>2. \A i \in 1 .. n - 1 :
              visit'[stack'[i].data] = "Visiting" /\ state[stack'[i].data] = "Resolved"
      BY <1>1, <1>2, <1>4, <1>9, <2>1 DEF Cycles, Walk, CallsVisiting
    <2>3. \A i, j \in 1 .. n - 1 : stack'[i].data = stack'[j].data => i = j
      BY <1>1, <1>2, <1>4 DEF Cycles, Walk, CallsVisiting
    <2>4. ASSUME NEW q \in Plugins, visit'[q] = "Visiting"
          PROVE  \E i \in 1 .. n - 1 : stack'[i].data = q
      <3>1. q # p /\ visit[q] = "Visiting"
        BY <1>9, <2>4
      <3>2. PICK i \in 1 .. n : stack[i].data = q
        BY <1>1, <3>1 DEF Cycles, Walk, CallsVisiting
      <3>3. i \in 1 .. n - 1
        BY <1>2, <3>1, <3>2
      <3> QED BY <1>4, <3>2, <3>3
    <2> QED BY <1>1, <1>4, <2>2, <2>3, <2>4 DEF CallsVisiting
  <1>13. EdgesWalked'
    <2>1. ASSUME NEW i \in 1 .. n - 1, NEW j \in resolved[stack[i].data],
                 j < stack[i].next, state[Target(stack[i].data, j)] = "Resolved"
          PROVE  \/ Listed(finished', Target(stack[i].data, j), m + 1)
                 \/ stack[i].data \in onCycle
                 \/ i < n - 1 /\ Target(stack[i].data, j) = stack[i + 1].data
      <3> DEFINE q == Target(stack[i].data, j)
      <3>1. Left(q) \/ stack[i].data \in onCycle \/ q = stack[i + 1].data
        BY <1>1, <1>2, <2>1 DEF Cycles, Walk, EdgesWalked
      <3>2. CASE q = stack[i + 1].data /\ i + 1 = n
        BY <1>2, <1>6, <3>2
      <3>3. CASE q = stack[i + 1].data /\ i < n - 1
        BY <3>3
      <3>4. i + 1 = n \/ i < n - 1
        BY <1>2
      <3> QED BY <1>6, <3>1, <3>2, <3>3, <3>4 DEF Left
    <2>2. \A i \in 1 .. n - 1 : stack'[i].data = stack[i].data /\ stack'[i].next = stack[i].next
      BY <1>4
    <2>3. \A i \in 1 .. n - 1 : i < n - 1 => stack'[i + 1].data = stack[i + 1].data
      BY <1>2, <1>4
    <2> QED BY <1>1, <1>3, <1>4, <1>5, <2>1, <2>2, <2>3 DEF EdgesWalked, Left
  <1>14. LeftClosed'
    <2>1. \A j \in resolved[p] : j < k
      BY <1>1, <1>2, SpecTypes, SMTT(30) DEF Typed, TypeOK
    <2>2. \/ p \in onCycle
          \/ \A j \in resolved[p] : state[Target(p, j)] = "Resolved" => Left(Target(p, j))
      BY <1>1, <1>2, <2>1 DEF Cycles, Walk, EdgesWalked
    <2>3. \A q : Left(q) => Listed(finished', q, m)
      BY <1>3 DEF Left, Listed
    <2>4. ASSUME NEW a \in 1 .. m + 1
          PROVE  \/ finished'[a] \in onCycle
                 \/ \A j \in resolved[finished'[a]] :
                       state[Target(finished'[a], j)] = "Resolved" =>
                           Listed(finished', Target(finished'[a], j), a - 1)
      <3>1. CASE a = m + 1
        BY <1>3, <2>2, <2>3, <3>1
      <3>2. CASE a \in 1 .. m
        BY <1>1, <1>3, <1>6, <3>2 DEF Cycles, Walk, LeftClosed
      <3> QED BY <1>3, <3>1, <3>2
    <2> QED BY <1>1, <1>3, <1>5, <2>4 DEF LeftClosed
  <1>15. RootsWalked' /\ NotStarted' /\ Acyclic' /\ CallsDescend'
    BY <1>1, <1>9 DEF Cycles, Walk, RootsWalked, NotStarted, Acyclic, CallsDescend
  <1> QED BY <1>11, <1>12, <1>13, <1>14, <1>15 DEF Cycles, Walk

LEMMA CyclesReport == Typed /\ Cycles /\ ReportCycles => Cycles'
  <1> SUFFICES ASSUME Typed, Cycles, ReportCycles PROVE Cycles'
    OBVIOUS
  <1>1. /\ phase = "cycles" /\ phase' = "propagate" /\ stack = <<>> /\ cursor = N + 1
        /\ state' = [p \in Plugins |-> IF p \in onCycle THEN "Invalid" ELSE state[p]]
        /\ UNCHANGED <<spec, dataById, resolved, visit, stack, onCycle, finished>>
    BY DEF ReportCycles, NextPhase
  <1>2. \A p \in Plugins : state'[p] = "Resolved" => state[p] = "Resolved" /\ p \notin onCycle
    BY <1>1
  <1>3. /\ \A q, j : Target(q, j)' = Target(q, j)
        /\ \A q : Left(q)' = Left(q)
    BY <1>1 DEF Target, Dependencies, Left
  <1>4. ASSUME NEW p \in Plugins, state'[p] = "Resolved"
        PROVE  Left(p)
    <2>1. visit[p] # "NotVisited"
      BY <1>1, <1>2, <1>4, CountAssumption DEF Cycles, Walk, RootsWalked, Plugins
    <2>2. visit[p] # "Visiting"
      BY <1>1, EmptySeq DEF Cycles, Walk, CallsVisiting
    <2>3. visit[p] = "Visited"
      BY <2>1, <2>2 DEF Typed, TypeOK
    <2> QED BY <2>3 DEF Cycles, Walk, FinishedOK
  <1>5. ASSUME NEW a \in 1 .. Len(finished), state'[finished[a]] = "Resolved",
               NEW j \in resolved[finished[a]], state'[Target(finished[a], j)] = "Resolved"
        PROVE  Listed(finished, Target(finished[a], j), a - 1)
    <2>1. finished[a] \in Plugins
      BY ElementOfSeq DEF Typed, TypeOK
    <2>2. Target(finished[a], j) \in Plugins
      BY <1>5, <2>1 DEF Typed, EdgesOK
    <2> QED BY <1>1, <1>2, <1>5, <2>1, <2>2 DEF Cycles, Walk, LeftClosed
  <1>6. Acyclic'
    BY <1>1, <1>3, <1>4, <1>5 DEF Acyclic
  <1>7. FinishedOK'
    BY <1>1, <1>3 DEF Cycles, Walk, FinishedOK
  <1> QED
    BY <1>1, <1>6, <1>7
       DEF Cycles, Walk, NotStarted, CallsVisiting, EdgesWalked, LeftClosed, RootsWalked,
           CallsDescend

LEMMA CyclesPropagate ==
    Typed /\ Ordered /\ Cycles /\ (Propagate \/ PropagateAgain \/ PropagateDone) => Cycles'
  <1> SUFFICES ASSUME Typed, Ordered, Cycles, Propagate \/ PropagateAgain \/ PropagateDone
               PROVE  Cycles'
    OBVIOUS
  <1>1. /\ phase = "propagate" /\ phase' \in {"propagate", "order"}
        /\ stack = <<>>
        /\ UNCHANGED <<spec, dataById, resolved, visit, stack, onCycle, finished>>
    BY DEF Propagate, PropagateAgain, PropagateDone, InLoop, NextPhase, Ordered, IdleStack
  <1>2. \A p \in Plugins : state'[p] = "Resolved" => state[p] = "Resolved"
    BY DEF Propagate, PropagateAgain, PropagateDone, ReportError, Typed, TypeOK
  <1>3. /\ \A q, j : Target(q, j)' = Target(q, j)
        /\ \A q : Left(q)' = Left(q)
    BY <1>1 DEF Target, Dependencies, Left
  <1>4. ASSUME NEW a \in 1 .. Len(finished), state'[finished[a]] = "Resolved",
               NEW j \in resolved[finished[a]], state'[Target(finished[a], j)] = "Resolved"
        PROVE  Listed(finished, Target(finished[a], j), a - 1)
    <2>1. finished[a] \in Plugins
      BY ElementOfSeq DEF Typed, TypeOK
    <2>2. Target(finished[a], j) \in Plugins
      BY <1>4, <2>1 DEF Typed, EdgesOK
    <2> QED BY <1>1, <1>2, <1>4, <2>1, <2>2 DEF Cycles, Acyclic
  <1>5. Acyclic'
    BY <1>1, <1>2, <1>3, <1>4 DEF Cycles, Acyclic
  <1>6. FinishedOK'
    BY <1>1, <1>3 DEF Cycles, Walk, FinishedOK
  <1>7. CallsDescend'
    BY <1>1, EmptySeq DEF CallsDescend
  <1> QED
    BY <1>1, <1>5, <1>6, <1>7
       DEF Cycles, Walk, NotStarted, CallsVisiting, EdgesWalked, LeftClosed, RootsWalked

\* The steps of append: only the stack and the order move.
LEMMA CyclesOrderPhase ==
    ASSUME Cycles, phase = "order", phase' \in {"order", "done"}, CallsDescend',
           UNCHANGED <<spec, dataById, state, resolved, visit, onCycle, finished>>
    PROVE  Cycles'
  <1>1. /\ \A q, j : Target(q, j)' = Target(q, j)
        /\ \A q : Left(q)' = Left(q)
    BY DEF Target, Dependencies, Left
  <1>2. FinishedOK'
    BY <1>1 DEF Cycles, Walk, FinishedOK
  <1>3. Acyclic'
    BY <1>1 DEF Cycles, Acyclic
  <1> QED
    BY <1>2, <1>3
       DEF Cycles, Walk, NotStarted, CallsVisiting, EdgesWalked, LeftClosed, RootsWalked

LEMMA LeftBeforeTransitive ==
    ASSUME Typed, FinishedOK, NEW p, NEW q, NEW r, LeftBefore(p, q), LeftBefore(q, r)
    PROVE  LeftBefore(p, r)
  <1>1. PICK a \in 1 .. Len(finished), b \in 1 .. Len(finished) :
            a < b /\ finished[a] = p /\ finished[b] = q
    BY DEF LeftBefore
  <1>2. PICK c \in 1 .. Len(finished), d \in 1 .. Len(finished) :
            c < d /\ finished[c] = q /\ finished[d] = r
    BY DEF LeftBefore
  <1>3. b = c
    BY <1>1, <1>2 DEF FinishedOK
  <1>4. a < d
    BY <1>1, <1>2, <1>3, LenProperties DEF Typed, TypeOK
  <1> QED BY <1>1, <1>2, <1>4 DEF LeftBefore

LEMMA CyclesAppend ==
    Typed /\ Ordered /\ Cycles /\ (AppendRoot \/ AppendStep \/ AppendLeave \/ Commit)
        => Cycles'
  <1> SUFFICES ASSUME Typed, Ordered, Cycles,
                      AppendRoot \/ AppendStep \/ AppendLeave \/ Commit
               PROVE  Cycles'
    OBVIOUS
  <1> DEFINE n == Len(stack)
  <1>1. /\ phase = "order" /\ phase' \in {"order", "done"} /\ stack \in Seq(Frame)
        /\ UNCHANGED <<spec, dataById, state, resolved, visit, onCycle, finished>>
    BY DEF AppendRoot, AppendStep, AppendLeave, Commit, InLoop, NextPhase, Typed, TypeOK
  <1>2. \A p, q : LeftBefore(p, q)' = LeftBefore(p, q)
    BY <1>1 DEF LeftBefore
  <1>3. CASE AppendRoot
    <2>1. stack' = <<>> \/ Len(stack') = 1
      BY <1>3, SingletonFrame DEF AppendRoot, InLoop
    <2>2. CallsDescend'
      BY <2>1, EmptySeq DEF CallsDescend
    <2> QED BY <1>1, <2>2, CyclesOrderPhase
  <1>4. CASE AppendStep
    <2> DEFINE p == Top.data
               k == Top.next
               t == Target(p, k)
    <2>1. n \in Nat \ {0} /\ p \in Plugins /\ Top = stack[n] /\ stack # <<>>
      BY <1>1, <1>4, TopType DEF AppendStep, Top
    <2>2. CASE AppendEdge(p, k)
      <3>1. /\ k \in resolved[p] /\ t \in Plugins /\ state[t] = "Resolved"
            /\ stack' = Append(AdvanceTop, [data |-> t, next |-> 1])
        BY <1>4, <2>1, <2>2 DEF AppendStep, AppendEdge, Appendable, Typed, EdgesOK
      <3>2. /\ Len(stack') = n + 1
            /\ \A i \in 1 .. n : stack'[i].data = stack[i].data
            /\ stack'[n + 1].data = t
        BY <1>1, <2>1, <3>1, PushProperties
      <3>3. LeftBefore(t, p)
        <4>1. state[p] = "Resolved"
          BY <1>1, <2>1 DEF Ordered, FramesHandled
        <4>2. PICK b \in 1 .. Len(finished) : finished[b] = p
          BY <1>1, <2>1, <4>1 DEF Cycles, Acyclic, Left, Listed
        <4>3. PICK a \in 1 .. b - 1 : finished[a] = t
          BY <1>1, <3>1, <4>1, <4>2 DEF Cycles, Acyclic, Listed
        <4>4. a \in 1 .. Len(finished) /\ a < b
          BY <4>2, <4>3, LenProperties DEF Typed, TypeOK
        <4> QED BY <4>2, <4>3, <4>4 DEF LeftBefore
      <3>4. \A i \in 1 .. n : LeftBefore(t, stack[i].data)
        <4> SUFFICES ASSUME NEW i \in 1 .. n PROVE LeftBefore(t, stack[i].data)
          OBVIOUS
        <4>1. CASE i = n
          BY <2>1, <3>3, <4>1
        <4>2. CASE i < n
          <5>1. LeftBefore(p, stack[i].data)
            BY <1>1, <2>1, <4>2 DEF Cycles, CallsDescend
          <5> QED BY <3>3, <5>1, LeftBeforeTransitive DEF Cycles, Walk
        <4> QED BY <2>1, <4>1, <4>2
      <3>5. ASSUME NEW i \in 1 .. n + 1, NEW j \in 1 .. n + 1, i < j
            PROVE  LeftBefore(stack'[j].data, stack'[i].data)
        <4>1. CASE j = n + 1
          BY <2>1, <3>2, <3>4, <3>5, <4>1
        <4>2. CASE j \in 1 .. n
          BY <1>1, <2>1, <3>2, <3>5, <4>2 DEF Cycles, CallsDescend
        <4> QED BY <2>1, <4>1, <4>2
      <3>6. CallsDescend'
        BY <1>2, <3>2, <3>5 DEF CallsDescend
      <3> QED BY <1>1, <3>6, CyclesOrderPhase
    <2>3. CASE ~AppendEdge(p, k)
      <3>1. stack' = AdvanceTop
        BY <1>4, <2>3 DEF AppendStep
      <3>2. Len(stack') = n /\ \A i \in 1 .. n : stack'[i].data = stack[i].data
        BY <1>1, <2>1, <3>1, AdvanceProperties
      <3>3. CallsDescend'
        BY <1>1, <1>2, <3>2 DEF Cycles, CallsDescend
      <3> QED BY <1>1, <3>3, CyclesOrderPhase
    <2> QED BY <2>2, <2>3
  <1>5. CASE AppendLeave
    <2>1. n \in Nat \ {0} /\ stack # <<>> /\ stack' = Pop
      BY <1>1, <1>5, TopType DEF AppendLeave
    <2>2. Len(stack') = n - 1 /\ \A i \in 1 .. n - 1 : stack'[i] = stack[i]
      BY <1>1, <2>1, PopProperties
    <2>3. CallsDescend'
      BY <1>1, <1>2, <2>1, <2>2 DEF Cycles, CallsDescend
    <2> QED BY <1>1, <2>3, CyclesOrderPhase
  <1>6. CASE Commit
    <2>1. CallsDescend'
      BY <1>6 DEF Commit, NextPhase, CallsDescend
    <2> QED BY <1>1, <2>1, CyclesOrderPhase
  <1> QED BY <1>3, <1>4, <1>5, <1>6

LEMMA CyclesInductive == Typed /\ Ordered /\ Cycles /\ [Next]_vars => Cycles'
  <1>1. Cycles /\ UNCHANGED vars => Cycles'
    <2> SUFFICES ASSUME Cycles, UNCHANGED vars PROVE Cycles'
      OBVIOUS
    <2>1. UNCHANGED <<spec, dataById, state, resolved, phase, cursor, visit, stack, onCycle,
                      finished>>
      BY DEF vars
    <2>2. /\ \A q, j : Target(q, j)' = Target(q, j)
          /\ \A q : Left(q)' = Left(q)
      BY <2>1 DEF Target, Dependencies, Left
    <2>3. FinishedOK' /\ NotStarted' /\ CallsVisiting'
      BY <2>1, <2>2 DEF Cycles, Walk, FinishedOK, NotStarted, CallsVisiting
    <2>4. EdgesWalked' /\ LeftClosed' /\ RootsWalked'
      BY <2>1, <2>2 DEF Cycles, Walk, EdgesWalked, LeftClosed, RootsWalked
    <2>5. Acyclic'
      BY <2>1, <2>2 DEF Cycles, Acyclic
    <2>6. CallsDescend'
      <3>1. \A q, r : LeftBefore(q, r)' <=> LeftBefore(q, r)
        BY <2>1 DEF LeftBefore
      <3> QED BY <2>1, <3>1 DEF Cycles, CallsDescend
    <2> QED BY <2>3, <2>4, <2>5, <2>6 DEF Cycles, Walk
  <1> QED
    BY <1>1, CyclesBefore, CyclesRoot, CyclesStep, CyclesLeave, CyclesReport,
       CyclesPropagate, CyclesAppend
       DEF Next, Terminated

LEMMA AlwaysCycles == Spec => [](Typed /\ Ordered /\ Cycles)
  <1>1. Init => Typed /\ Ordered /\ Cycles
    BY TypedInit, OrderedInit, CyclesInit
  <1>2. (Typed /\ Ordered /\ Cycles) /\ [Next]_vars => (Typed /\ Ordered /\ Cycles)'
    BY TypedStep, OrderedStep, CyclesInductive
  <1> QED BY <1>1, <1>2, PTL DEF Spec

-----------------------------------------------------------------------------
\* findCycles and append never enter a plugin that is on their stack, so their
\* recursion is at most N deep, for every discovery.
THEOREM RecursionBounded == Spec => []NoReentry
  <1>1. Typed /\ Ordered /\ Cycles => NoReentry
    <2> SUFFICES ASSUME Typed, Ordered, Cycles PROVE NoReentry
      OBVIOUS
    <2>1. DOMAIN stack = 1 .. Len(stack) /\ Len(stack) \in Nat
      BY LenProperties DEF Typed, TypeOK
    <2>2. CASE phase = "cycles"
      BY <2>1, <2>2 DEF Cycles, Walk, CallsVisiting, NoReentry
    <2>3. CASE phase = "order"
      <3> SUFFICES ASSUME NEW i \in 1 .. Len(stack), NEW j \in 1 .. Len(stack), i < j
                   PROVE  stack[i].data # stack[j].data
        BY <2>1 DEF NoReentry
      <3>1. LeftBefore(stack[j].data, stack[i].data)
        BY <2>3 DEF Cycles, CallsDescend
      <3> QED BY <3>1, LenProperties DEF LeftBefore, Cycles, Walk, FinishedOK, Typed, TypeOK
    <2>4. CASE phase \notin {"cycles", "order"}
      <3>1. stack = <<>>
        BY <2>4 DEF Typed, TypeOK, Phases, Ordered, IdleStack
      <3> QED BY <2>1, <3>1, EmptySeq DEF NoReentry
    <2> QED BY <2>2, <2>3, <2>4
  <1> QED BY <1>1, AlwaysCycles, PTL

\* Once cycleErrors are reported, no Resolved plugin reaches itself through
\* Resolved plugins, whatever the graph and the order of discovery.
THEOREM NoCycleRemains == Spec => []CyclesBroken
  <1>1. Typed /\ Ordered /\ Cycles => CyclesBroken
    <2> DEFINE live == {p \in Plugins : state[p] = "Resolved"}
               succ == [p \in Plugins |-> IF p \in live THEN ResolvedTargets(p) \cap live
                                                        ELSE {}]
    <2> SUFFICES ASSUME Typed, Cycles, phase \in {"propagate", "order", "done"},
                        NEW p \in live
                 PROVE  p \notin ReachedFrom(succ, p)
      BY DEF CyclesBroken
    <2> DEFINE S == {q \in live : LeftBefore(q, p)}
    <2>1. S \in SUBSET Plugins
      OBVIOUS
    <2>2. \A q \in live : \A r \in succ[q] : r \in live /\ LeftBefore(r, q)
      <3> SUFFICES ASSUME NEW q \in live, NEW r \in succ[q] PROVE r \in live /\ LeftBefore(r, q)
        OBVIOUS
      <3>1. r \in live /\ r \in ResolvedTargets(q)
        OBVIOUS
      <3>2. PICK k \in resolved[q] : r = Target(q, k)
        BY <3>1 DEF ResolvedTargets
      <3>3. PICK b \in 1 .. Len(finished) : finished[b] = q
        BY DEF Cycles, Acyclic, Left, Listed
      <3>4. PICK a \in 1 .. b - 1 : finished[a] = r
        BY <3>1, <3>2, <3>3 DEF Cycles, Acyclic, Listed
      <3>5. a \in 1 .. Len(finished) /\ a < b
        BY <3>3, <3>4, LenProperties DEF Typed, TypeOK
      <3> QED BY <3>1, <3>3, <3>4, <3>5 DEF LeftBefore
    <2>3. succ[p] \subseteq S
      BY <2>2
    <2>4. \A r \in S : succ[r] \subseteq S
      BY <2>2, LeftBeforeTransitive DEF Cycles, Walk
    <2>5. p \notin S
      BY LenProperties DEF LeftBefore, Cycles, Walk, FinishedOK, Typed, TypeOK
    <2> HIDE DEF live, succ, S
    <2> QED BY <2>1, <2>3, <2>4, <2>5 DEF ReachedFrom
  <1> QED BY <1>1, AlwaysCycles, PTL

-----------------------------------------------------------------------------
(* Completeness of the load order.                                         *)

\* No plugin is dropped in silence: one that participates is past Read once the
\* dependency loop has seen it, and an Invalid one has a message.
Diagnosed ==
    /\ \A p \in Plugins : state[p] = "Invalid" => reason[p] # "none"
    /\ \A p \in Plugins : state[p] = "Read" =>
           \/ ~Participates(p)
           \/ phase = "index"
           \/ phase = "resolve" /\ ~(p < cursor)

OrderDistinct ==
    /\ \A i, j \in 1 .. Len(order) : order[i] = order[j] => i = j
    /\ phase = "order" =>
           \A i \in 1 .. Len(stack) : ~Listed(order, stack[i].data, Len(order))

\* The plugins below the cursor are in the order, or being appended.
OrderCovers ==
    /\ phase = "order" =>
           \A p \in Plugins : p < cursor /\ state[p] = "Resolved" =>
               \/ Listed(order, p, Len(order))
               \/ \E i \in 1 .. Len(stack) : stack[i].data = p
    /\ phase = "done" =>
           \A p \in Plugins : state[p] = "Resolved" => Listed(order, p, Len(order))

Complete == Diagnosed /\ OrderDistinct /\ OrderCovers

LEMMA CompleteInit == Init => Complete
  BY EmptySeq DEF Init, Complete, Diagnosed, OrderDistinct, OrderCovers

LEMMA DiagnosedStep == Typed /\ Diagnosed /\ [Next]_vars => Diagnosed'
  <1> SUFFICES ASSUME Typed, Diagnosed, [Next]_vars PROVE Diagnosed'
    OBVIOUS
  <1> USE CountAssumption DEF Plugins
  <1>1. CASE IndexId
    BY <1>1 DEF IndexId, InLoop, IndexSkip, IndexFirst, IndexDuplicate, ReportError,
       Diagnosed, Participates, Typed, TypeOK
  <1>2. CASE ResolvePlugin
    <2>1. /\ phase = "resolve" /\ phase' = "resolve" /\ spec' = spec
          /\ cursor \in Plugins /\ cursor' = cursor + 1
      BY <1>2 DEF ResolvePlugin, InLoop
    <2>2. CASE ResolveSkip(cursor)
      BY <2>1, <2>2 DEF ResolveSkip, Diagnosed, Participates
    <2>3. CASE ResolveSucceeds(cursor)
      BY <2>1, <2>3 DEF ResolveSucceeds, Diagnosed, Participates, Typed, TypeOK
    <2>4. CASE ResolveFails(cursor)
      <3>1. PICK k \in Failures(cursor) : ReportError(cursor, Verdict(cursor, k))
        BY <2>4 DEF ResolveFails
      <3>2. Verdict(cursor, k) # "none"
        BY DEF Failures
      <3> QED BY <2>1, <3>1, <3>2 DEF ReportError, Diagnosed, Participates, Typed, TypeOK
    <2> QED BY <1>2, <2>2, <2>3, <2>4 DEF ResolvePlugin
  <1>3. CASE ReportCycles
    BY <1>3 DEF ReportCycles, NextPhase, Diagnosed, Participates
  <1>4. CASE Propagate
    BY <1>4 DEF Propagate, InLoop, ReportError, Diagnosed, Participates, Typed, TypeOK
  <1>5. CASE IndexDone \/ ResolveDone \/ PropagateAgain \/ PropagateDone \/ Commit
    BY <1>5 DEF IndexDone, ResolveDone, PropagateAgain, PropagateDone, Commit, NextPhase,
       Diagnosed, Participates
  <1>6. CASE CycleRoot \/ CycleStep \/ CycleLeave
    BY <1>6 DEF CycleRoot, CycleStep, CycleLeave, InLoop, Diagnosed, Participates
  <1>7. CASE AppendRoot \/ AppendStep \/ AppendLeave
    BY <1>7 DEF AppendRoot, AppendStep, AppendLeave, InLoop, Diagnosed, Participates
  <1>8. CASE UNCHANGED vars
    BY <1>8 DEF vars, Diagnosed, Participates
  <1> QED
    BY <1>1, <1>2, <1>3, <1>4, <1>5, <1>6, <1>7, <1>8 DEF Next, Terminated

\* The order is empty until append runs.
LEMMA CoversBefore ==
    ASSUME Ordered, Ordered', phase' \in {"index", "resolve", "cycles", "propagate"}
    PROVE  OrderDistinct' /\ OrderCovers'
  BY EmptySeq DEF Ordered, Committed, OrderDistinct, OrderCovers

LEMMA CoversStep ==
    Typed /\ Ordered /\ Ordered' /\ Cycles /\ Complete /\ [Next]_vars
        => OrderDistinct' /\ OrderCovers'
  <1> SUFFICES ASSUME Typed, Ordered, Ordered', Cycles, Complete, [Next]_vars
               PROVE  OrderDistinct' /\ OrderCovers'
    OBVIOUS
  <1> DEFINE n == Len(stack)
             m == Len(order)
  <1>1. stack \in Seq(Frame) /\ order \in Seq(Plugins) /\ n \in Nat /\ m \in Nat
    BY LenProperties DEF Typed, TypeOK
  <1>2. CASE phase' \in {"index", "resolve", "cycles", "propagate"}
    BY <1>2, CoversBefore
  <1>3. CASE PropagateDone
    <2>1. order' = <<>> /\ cursor' = 1 /\ phase' = "order" /\ stack' = <<>>
      BY <1>3 DEF PropagateDone, NextPhase, Ordered, Committed, IdleStack
    <2>2. \A p \in Plugins : ~(p < 1)
      BY CountAssumption DEF Plugins
    <2> QED BY <2>1, <2>2, EmptySeq DEF OrderDistinct, OrderCovers
  <1>4. CASE AppendRoot
    <2>1. /\ phase = "order" /\ phase' = "order" /\ stack = <<>> /\ n = 0
          /\ cursor \in Plugins /\ cursor' = cursor + 1
          /\ UNCHANGED <<state, order>>
      BY <1>4, EmptySeq DEF AppendRoot, InLoop
    <2>2. \A p \in Plugins : p < cursor' => p < cursor \/ p = cursor
      BY <2>1, CountAssumption DEF Plugins
    <2>3. CASE Appendable(cursor)
      <3>1. Len(stack') = 1 /\ stack'[1].data = cursor
        BY <1>4, <2>1, <2>3, SingletonFrame DEF AppendRoot
      <3>2. ~Listed(order, cursor, m)
        BY <1>1, <2>3, LenProperties DEF Appendable, ToSet, Listed
      <3> QED BY <2>1, <2>2, <3>1, <3>2 DEF Complete, OrderDistinct, OrderCovers
    <2>4. CASE ~Appendable(cursor)
      <3>1. stack' = <<>> /\ Len(stack') = 0
        BY <1>4, <2>4, EmptySeq DEF AppendRoot
      <3>2. state[cursor] = "Resolved" => Listed(order, cursor, m)
        <4>1. state[cursor] = "Resolved" => cursor \in ToSet(order)
          BY <2>1, <2>4 DEF Appendable, Typed, EdgesOK
        <4> QED BY <1>1, <4>1, LenProperties DEF ToSet, Listed
      <3> QED BY <2>1, <2>2, <3>1, <3>2 DEF Complete, OrderDistinct, OrderCovers
    <2> QED BY <2>3, <2>4
  <1>5. CASE AppendStep
    <2> DEFINE p == Top.data
               k == Top.next
               t == Target(p, k)
    <2>1. /\ phase = "order" /\ phase' = "order" /\ stack # <<>>
          /\ UNCHANGED <<state, order, cursor>>
      BY <1>5 DEF AppendStep
    <2>2. n \in Nat \ {0} /\ p \in Plugins
      BY <1>1, <2>1, TopType
    <2>3. CASE AppendEdge(p, k)
      <3>1. t \in Plugins /\ ~Listed(order, t, m)
        BY <1>1, <2>2, <2>3, LenProperties
           DEF AppendEdge, Appendable, ToSet, Listed, Typed, EdgesOK
      <3>2. stack' = Append(AdvanceTop, [data |-> t, next |-> 1])
        BY <1>5, <2>3 DEF AppendStep
      <3>3. /\ Len(stack') = n + 1
            /\ \A i \in 1 .. n : stack'[i].data = stack[i].data
            /\ stack'[n + 1].data = t
        <4> HIDE DEF t
        <4>1. stack \in Seq(Frame) /\ stack # <<>> /\ t \in Plugins
          BY <1>1, <2>1, <3>1
        <4>2. /\ Len(Append(AdvanceTop, [data |-> t, next |-> 1])) = n + 1
              /\ \A i \in 1 .. n :
                    Append(AdvanceTop, [data |-> t, next |-> 1])[i].data = stack[i].data
              /\ Append(AdvanceTop, [data |-> t, next |-> 1])[n + 1] = [data |-> t, next |-> 1]
          BY <4>1, PushProperties
        <4> QED BY <3>2, <4>2
      <3>4. \A i \in 1 .. n + 1 : ~Listed(order, stack'[i].data, m)
        <4> SUFFICES ASSUME NEW i \in 1 .. n + 1 PROVE ~Listed(order, stack'[i].data, m)
          OBVIOUS
        <4>1. i = n + 1 \/ i \in 1 .. n
          BY <2>2
        <4> QED BY <2>1, <3>1, <3>3, <4>1 DEF Complete, OrderDistinct
      <3>5. OrderDistinct'
        BY <2>1, <3>3, <3>4 DEF Complete, OrderDistinct
      <3>6. \A q : (\E i \in 1 .. n : stack[i].data = q) => \E i \in 1 .. n + 1 : stack'[i].data = q
        BY <2>2, <3>3
      <3>7. OrderCovers'
        BY <2>1, <3>3, <3>6 DEF Complete, OrderCovers
      <3> QED BY <3>5, <3>7
    <2>4. CASE ~AppendEdge(p, k)
      <3>1. stack' = AdvanceTop
        BY <1>5, <2>4 DEF AppendStep
      <3>2. Len(stack') = n /\ \A i \in 1 .. n : stack'[i].data = stack[i].data
        BY <1>1, <2>1, <3>1, AdvanceProperties
      <3> QED BY <2>1, <3>2 DEF Complete, OrderDistinct, OrderCovers
    <2> QED BY <2>3, <2>4
  <1>6. CASE AppendLeave
    <2> DEFINE p == Top.data
    <2>1. /\ phase = "order" /\ phase' = "order" /\ stack # <<>>
          /\ order' = Append(order, p) /\ stack' = Pop
          /\ UNCHANGED <<state, cursor>>
      BY <1>6 DEF AppendLeave
    <2>2. n \in Nat \ {0} /\ p \in Plugins /\ Top = stack[n]
      BY <1>1, <2>1, TopType DEF Top
    <2>3. /\ Len(order') = m + 1 /\ order'[m + 1] = p
          /\ \A i \in 1 .. m : order'[i] = order[i]
      BY <1>1, <2>1, <2>2, AppendProperties
    <2>4. /\ Len(stack') = n - 1
          /\ \A i \in 1 .. n - 1 : stack'[i] = stack[i]
      BY <1>1, <2>1, PopProperties
    <2>5. ~Listed(order, p, m)
      BY <2>1, <2>2 DEF Complete, OrderDistinct
    <2>6. \A q : Listed(order', q, m + 1) <=> Listed(order, q, m) \/ q = p
      <3>1. \A q : Listed(order', q, m + 1) => Listed(order, q, m) \/ q = p
        <4> SUFFICES ASSUME NEW q, NEW j \in 1 .. m + 1, order'[j] = q
                     PROVE  Listed(order, q, m) \/ q = p
          BY DEF Listed
        <4>1. j = m + 1 \/ j \in 1 .. m
          BY <1>1
        <4> QED BY <2>3, <4>1 DEF Listed
      <3>2. \A q : Listed(order, q, m) \/ q = p => Listed(order', q, m + 1)
        BY <1>1, <2>3 DEF Listed
      <3> QED BY <3>1, <3>2
    <2>7. \A i \in 1 .. n - 1 : stack[i].data # p
      <3> SUFFICES ASSUME NEW i \in 1 .. n - 1 PROVE stack[i].data # stack[n].data
        BY <2>2
      <3>1. LeftBefore(stack[n].data, stack[i].data)
        BY <2>1, <2>2 DEF Cycles, CallsDescend
      <3> QED BY <3>1, LenProperties DEF LeftBefore, Cycles, Walk, FinishedOK, Typed, TypeOK
    <2>8. \A i, j \in 1 .. m + 1 : order'[i] = order'[j] => i = j
      <3> SUFFICES ASSUME NEW i \in 1 .. m + 1, NEW j \in 1 .. m + 1, order'[i] = order'[j]
                   PROVE  i = j
        OBVIOUS
      <3>1. CASE i \in 1 .. m /\ j \in 1 .. m
        BY <2>3, <3>1 DEF Complete, OrderDistinct
      <3>2. CASE i = m + 1 \/ j = m + 1
        BY <1>1, <2>3, <2>5, <3>2 DEF Listed
      <3> QED BY <1>1, <3>1, <3>2
    <2>9. \A i \in 1 .. n - 1 : ~Listed(order', stack'[i].data, m + 1)
      BY <2>1, <2>2, <2>4, <2>6, <2>7 DEF Complete, OrderDistinct
    <2>10. OrderDistinct'
      BY <2>3, <2>4, <2>8, <2>9 DEF OrderDistinct
    <2>11. ASSUME NEW q \in Plugins, q < cursor, state[q] = "Resolved"
           PROVE  Listed(order', q, m + 1) \/ \E i \in 1 .. n - 1 : stack'[i].data = q
      <3>1. CASE Listed(order, q, m) \/ q = p
        BY <2>6, <3>1
      <3>2. CASE ~Listed(order, q, m) /\ q # p
        <4>1. PICK i \in 1 .. n : stack[i].data = q
          BY <2>1, <2>11, <3>2 DEF Complete, OrderCovers
        <4>2. i \in 1 .. n - 1
          BY <2>2, <3>2, <4>1
        <4> QED BY <2>4, <4>1, <4>2
      <3> QED BY <3>1, <3>2
    <2>12. OrderCovers'
      BY <2>1, <2>3, <2>4, <2>11 DEF OrderCovers
    <2> QED BY <2>10, <2>12
  <1>7. CASE Commit
    <2>1. /\ phase = "order" /\ phase' = "done" /\ cursor = N + 1 /\ n = 0
          /\ UNCHANGED <<state, order>>
      BY <1>7, EmptySeq DEF Commit, NextPhase
    <2>2. \A p \in Plugins : p < cursor
      BY <2>1, CountAssumption DEF Plugins
    <2> QED BY <2>1, <2>2 DEF Complete, OrderDistinct, OrderCovers
  <1>8. CASE UNCHANGED vars
    BY <1>8 DEF vars, Complete, OrderDistinct, OrderCovers
  <1>9. IndexId \/ IndexDone \/ ResolvePlugin \/ ResolveDone \/ CycleRoot \/ CycleStep
        \/ CycleLeave \/ ReportCycles \/ Propagate \/ PropagateAgain
            => phase' \in {"index", "resolve", "cycles", "propagate"}
    BY DEF IndexId, IndexDone, ResolvePlugin, ResolveDone, CycleRoot, CycleStep,
       CycleLeave, ReportCycles, Propagate, PropagateAgain, InLoop, NextPhase
  <1> QED
    BY <1>2, <1>3, <1>4, <1>5, <1>6, <1>7, <1>8, <1>9 DEF Next, Terminated

\* The load order lists each plugin at most once, and in the end exactly the
\* ones that are enabled, selected and without error: loadPlugins() drops no
\* plugin without a diagnostic and loads none twice.
THEOREM LoadOrderComplete == Spec => []ListedOnce
  <1>1. Typed /\ Ordered /\ Cycles /\ Complete /\ [Next]_vars
            => (Typed /\ Ordered /\ Cycles /\ Complete)'
    BY TypedStep, OrderedStep, CyclesInductive, DiagnosedStep, CoversStep DEF Complete
  <1>2. Init => Typed /\ Ordered /\ Cycles /\ Complete
    BY TypedInit, OrderedInit, CyclesInit, CompleteInit
  <1>3. Typed /\ Ordered /\ Cycles /\ Complete => ListedOnce
    <2> SUFFICES ASSUME Typed, Ordered, Complete PROVE ListedOnce
      OBVIOUS
    <2>1. DOMAIN order = 1 .. Len(order) /\ order \in Seq(Plugins)
      BY LenProperties DEF Typed, TypeOK
    <2>2. ASSUME phase = "done"
          PROVE  ToSet(loadOrder) = {p \in Plugins : Participates(p) /\ reason[p] = "none"}
      <3>1. loadOrder = order
        BY <2>2 DEF Ordered, Committed
      <3>2. ASSUME NEW i \in 1 .. Len(order)
            PROVE  order[i] \in Plugins /\ Participates(order[i]) /\ reason[order[i]] = "none"
        <4>1. order[i] \in Plugins /\ state[order[i]] = "Resolved"
          BY <2>1, ElementOfSeq DEF Ordered, OrderClosed
        <4> QED BY <4>1 DEF Typed, EdgesOK
      <3>3. ASSUME NEW p \in Plugins, Participates(p), reason[p] = "none"
            PROVE  \E i \in 1 .. Len(order) : order[i] = p
        <4>1. state[p] # "Invalid" /\ state[p] # "Read"
          BY <2>2, <3>3 DEF Complete, Diagnosed
        <4>2. state[p] = "Resolved"
          BY <4>1 DEF Typed, TypeOK, States
        <4> QED BY <2>2, <4>2 DEF Complete, OrderCovers, Listed
      <3> QED BY <2>1, <3>1, <3>2, <3>3 DEF ToSet
    <2> QED BY <2>1, <2>2 DEF ListedOnce, Complete, OrderDistinct
  <1> QED BY <1>1, <1>2, <1>3, PTL DEF Spec

\* What loadPlugins() goes on with: loadOrder, and the required ones among the
\* resolvedDependencies.
Outcome ==
    [order |-> loadOrder,
     required |-> [p \in Plugins |-> {Target(p, k) : k \in RequiredResolved(p)}]]

\* When the function returns, the passes of loadPlugins() and shutdownPlugins() can
\* rely on its outcome: what module PluginLifecycle assumes of resolution holds.
THEOREM OutcomeUsable == Spec => [](phase = "done" => IsResolution(Outcome, Plugins))
  <1>1. Typed /\ Ordered /\ ListedOnce => (phase = "done" => IsResolution(Outcome, Plugins))
    <2> SUFFICES ASSUME Typed, Ordered, ListedOnce, phase = "done"
                 PROVE  IsResolution(Outcome, Plugins)
      OBVIOUS
    <2>1. loadOrder = order /\ order \in Seq(Plugins)
      BY DEF Ordered, Committed, Typed, TypeOK
    <2>2. DOMAIN order = 1 .. Len(order)
      BY <2>1, LenProperties
    <2>3. ASSUME NEW p \in Plugins
          PROVE  {Target(p, k) : k \in RequiredResolved(p)} \subseteq Plugins
      BY <2>3 DEF Typed, EdgesOK, RequiredResolved
    <2>4. ASSUME NEW i \in DOMAIN order, NEW k \in RequiredResolved(order[i])
          PROVE  \E j \in 1 .. i - 1 : order[j] = Target(order[i], k)
      BY <2>2, <2>4 DEF Ordered, OrderClosed, Listed
    <2>5. Outcome.order = order
      BY <2>1 DEF Outcome
    <2>6. /\ Outcome.required \in [Plugins -> SUBSET Plugins]
          /\ \A p \in Plugins :
                 Outcome.required[p] = {Target(p, k) : k \in RequiredResolved(p)}
      BY <2>3 DEF Outcome
    <2>7. \A i \in DOMAIN order : \A d \in Outcome.required[order[i]] :
              \E j \in 1 .. i - 1 : order[j] = d
      <3> SUFFICES ASSUME NEW i \in DOMAIN order, NEW d \in Outcome.required[order[i]]
                   PROVE  \E j \in 1 .. i - 1 : order[j] = d
        OBVIOUS
      <3>1. order[i] \in Plugins
        BY <2>1, <2>2, ElementOfSeq
      <3>2. PICK k \in RequiredResolved(order[i]) : d = Target(order[i], k)
        BY <2>6, <3>1
      <3> QED BY <2>4, <3>2
    <2> QED BY <2>1, <2>5, <2>6, <2>7 DEF IsResolution, ListedOnce
  <1>2. Spec => []Ordered
    BY AlwaysTyped, OrderedInit, OrderedStep, PTL DEF Spec
  <1> QED BY <1>1, <1>2, AlwaysTyped, LoadOrderComplete, PTL

-----------------------------------------------------------------------------
(* resolveDependencies() keeps the promise of loadOrder(), and its error       *)
(* messages are true.                                                          *)

\* The spec that dataById keeps for an id is the first that has it.
FirstHolder(p) == \A q \in 1 .. p - 1 : spec[q].id # spec[p].id

\* The index loop has passed p.
PastIndex(p) == phase = "index" => p < cursor

Indexed ==
    /\ \A id \in Ids : dataById[id] # NoPlugin =>
           /\ spec[dataById[id]].id = id
           /\ FirstHolder(dataById[id]) /\ PastIndex(dataById[id])
    /\ \A p \in Plugins : spec[p].id # NoId /\ PastIndex(p) => dataById[spec[p].id] # NoPlugin

\* A spec without an error is a plugin that could load alone, once participation
\* has been looked at.
Unblamed ==
    \A p \in Plugins : state[p] # "Invalid" => spec[p].valid /\ (PastIndex(p) => FirstHolder(p))

\* An edge leads to a plugin that could load alone, ...
EdgesEligible ==
    \A p \in Plugins : \A k \in resolved[p] : Target(p, k) \in Promise!Eligible

\* ... and no dependency that is answered by a plugin without error lacks its edge.
EdgesKept ==
    /\ phase = "index" => \A p \in Plugins : state[p] # "Resolved"
    /\ \A p \in Plugins : state[p] = "Resolved" =>
           \A k \in DependencyIndices(p) :
               /\ Target(p, k) \in Plugins /\ state[Target(p, k)] # "Invalid"
               /\ Participates(Target(p, k)) /\ Compatible(p, k)
               => k \in resolved[p]

\* No loop blames a member of a set whose requirements are met within the set,
\* except for the cycles.
SetsKept ==
    \A S \in SUBSET (Promise!Eligible \ onCycle) :
        Promise!RequirementsMetIn(S) => \A p \in S : state[p] # "Invalid"

Edges == [q \in Plugins |-> ResolvedTargets(q)]

\* The plugins of cycleErrors lie on cycles.
CycleMembers == \A p \in onCycle : p \in ReachedFrom(Edges, p)

\* Each call of findCycles or append was made for an edge of the call below.
CallsLinked ==
    phase \in {"cycles", "order"} =>
        \A i \in 1 .. Len(stack) - 1 : stack[i + 1].data \in ResolvedTargets(stack[i].data)

Linked ==
    Indexed /\ Unblamed /\ EdgesEligible /\ EdgesKept /\ SetsKept /\ CycleMembers /\ CallsLinked

\* Each message but that of a cycle names a fact already when it is reported, and
\* the message of a cycle is that of a plugin in cycleErrors.
Messages ==
    \A p \in Plugins :
        IF reason[p] = "cycle" THEN p \in onCycle ELSE Blamed(p, reason[p])

Live == {p \in Plugins : state[p] = "Resolved"}

\* The order puts all resolved dependencies first, also the optional ones, ...
ProvidersFirst ==
    \A i \in 1 .. Len(order) : \A k \in resolved[order[i]] :
        state[Target(order[i], k)] = "Resolved" => Listed(order, Target(order[i], k), i - 1)

\* ... as each call of append has handled the edges before its index.
EdgesHandled ==
    phase = "order" =>
        \A i \in 1 .. Len(stack) : \A k \in resolved[stack[i].data] :
            k < stack[i].next /\ state[Target(stack[i].data, k)] = "Resolved" =>
                \/ Listed(order, Target(stack[i].data, k), Len(order))
                \/ i < Len(stack) /\ Target(stack[i].data, k) = stack[i + 1].data

\* When append is called by the loop, what was discovered earlier is in the order.
RootInTurn ==
    phase = "order" /\ stack # <<>> =>
        \A q \in Plugins : q < stack[1].data /\ state[q] = "Resolved" => Listed(order, q, Len(order))

\* A plugin overtakes one that was discovered earlier for the sake of a dependent
\* that was discovered no later.
Overtaking ==
    \A i \in 1 .. Len(order) : \A q \in Plugins :
        q < order[i] /\ state[q] = "Resolved" /\ ~Listed(order, q, i) =>
            \E r \in Plugins : /\ r <= q /\ state[r] = "Resolved"
                               /\ order[i] \in Promise!ReachedFrom(r, Live)

Orderly == ProvidersFirst /\ EdgesHandled /\ RootInTurn /\ Overtaking

-----------------------------------------------------------------------------
(* Targets.                                                                *)

\* Two first holders of an id are one.
LEMMA HoldersEqual ==
    ASSUME NEW p \in Plugins, NEW q \in Plugins, spec[p].id = spec[q].id,
           FirstHolder(p), FirstHolder(q)
    PROVE  p = q
  <1>1. p \in Int /\ q \in Int /\ p >= 1 /\ q >= 1
    BY CountAssumption DEF Plugins
  <1>2. ~(p < q) /\ ~(q < p)
    BY <1>1 DEF FirstHolder
  <1> QED BY <1>1, <1>2

LEMMA EligibleMeaning ==
    ASSUME NEW q
    PROVE  q \in Promise!Eligible <=>
               /\ q \in Plugins /\ spec[q].valid /\ Participates(q) /\ FirstHolder(q)
  BY DEF Promise!Eligible, Promise!Plugins, Plugins, Participates, FirstHolder

\* The dependencies of a spec, as a set and by their indices.
LEMMA DependenciesByIndex ==
    ASSUME TypeOK, NEW p \in Plugins
    PROVE  Promise!ToSet(spec[p].dependencies) = {Dependencies(p)[k] : k \in DependencyIndices(p)}
  BY DEF Promise!ToSet, Dependencies, DependencyIndices

LEMMA SatisfiesMeaning ==
    ASSUME TypeOK, NEW p \in Plugins, NEW k \in DependencyIndices(p), NEW q \in Plugins
    PROVE  /\ Promise!Satisfies(q, Dependencies(p)[k]) <=> Satisfies(q, Dependencies(p)[k])
           /\ q = Target(p, k) /\ spec[q].id = Dependencies(p)[k].id =>
                  (Satisfies(q, Dependencies(p)[k]) <=> Compatible(p, k))
  <1>1. Dependencies(p)[k].version \in Nat
    BY SpecTypes
  <1>2. spec[q].compatVersion \in Nat /\ spec[q].version \in Nat
    BY SpecTypes DEF PluginSpec
  <1> QED BY <1>1, <1>2 DEF Promise!Satisfies, Satisfies, Compatible

\* The plugin that dataById gives is the one that could answer.
LEMMA AnswerIsTarget ==
    ASSUME TypeOK, Indexed, phase # "index",
           NEW p \in Plugins, NEW k \in DependencyIndices(p), NEW q \in Promise!Eligible,
           Satisfies(q, Dependencies(p)[k])
    PROVE  q = Target(p, k) /\ Compatible(p, k)
  <1> DEFINE id == Dependencies(p)[k].id
  <1>1. q \in Plugins /\ spec[q].valid /\ FirstHolder(q)
    BY EligibleMeaning
  <1>2. spec[q].id = id /\ id \in Ids
    BY SpecTypes DEF Satisfies
  <1>3. spec[q].id # NoId
    BY <1>1, DiscoveryAssumption DEF TypeOK
  <1>4. dataById[id] # NoPlugin
    BY <1>1, <1>2, <1>3 DEF Indexed, PastIndex
  <1>5. /\ dataById[id] \in Plugins /\ spec[dataById[id]].id = id
        /\ FirstHolder(dataById[id])
    BY <1>2, <1>4 DEF Indexed, TypeOK
  <1>6. q = Target(p, k)
    BY <1>1, <1>2, <1>5, HoldersEqual DEF Target
  <1> QED BY <1>1, <1>2, <1>6, SatisfiesMeaning

\* What the dependency loop accepts could load alone.
LEMMA AcceptedEligible ==
    ASSUME TypeOK, Unblamed, phase # "index",
           NEW p \in Plugins, NEW k \in DependencyIndices(p), Verdict(p, k) = "none"
    PROVE  Target(p, k) \in Promise!Eligible
  <1>1. Target(p, k) \in Plugins
    BY VerdictProperties
  <1>2. state[Target(p, k)] # "Invalid" /\ Participates(Target(p, k))
    BY DEF Verdict, Participates
  <1> QED BY <1>1, <1>2, EligibleMeaning DEF Unblamed, PastIndex

\* What is answered by a plugin without error is accepted.
LEMMA AnsweredAccepted ==
    ASSUME TypeOK, NEW p \in Plugins, NEW k \in DependencyIndices(p), Target(p, k) \in Plugins,
           state[Target(p, k)] # "Invalid", Participates(Target(p, k)), Compatible(p, k)
    PROVE  Verdict(p, k) = "none"
  BY NullAssumption DEF Verdict, Participates

-----------------------------------------------------------------------------
(* The loops up to the cycles.                                             *)

LEMMA LinkedInit == Init => Linked
  <1> SUFFICES ASSUME Init PROVE Linked
    OBVIOUS
  <1>1. \A p \in Plugins : ~(p < 1)
    BY CountAssumption DEF Plugins
  <1>2. Indexed
    BY <1>1 DEF Init, Indexed, PastIndex
  <1>3. Unblamed
    BY <1>1 DEF Init, Unblamed, PastIndex
  <1>4. EdgesEligible /\ EdgesKept
    BY DEF Init, EdgesEligible, EdgesKept
  <1>5. SetsKept
    BY EligibleMeaning DEF Init, SetsKept
  <1>6. CycleMembers /\ CallsLinked
    BY DEF Init, CycleMembers, CallsLinked
  <1> QED BY <1>2, <1>3, <1>4, <1>5, <1>6 DEF Linked

LEMMA LinkedIndex ==
    ASSUME Typed, Linked, NotStarted, IdleStack, IndexId
    PROVE  Linked'
  <1> DEFINE c == cursor
  <1>1. /\ c \in Plugins /\ cursor' = c + 1 /\ phase = "index" /\ phase' = "index"
        /\ UNCHANGED <<spec, resolved, onCycle, stack>>
    BY DEF IndexId, InLoop
  <1>2. /\ \A p \in Plugins : p < cursor' <=> p < c \/ p = c
        /\ \A p \in Plugins : PastIndex(p)' <=> p < c \/ p = c
        /\ \A p \in Plugins : PastIndex(p) <=> p < c
        /\ \A p : FirstHolder(p)' <=> FirstHolder(p)
    BY <1>1, CountAssumption DEF Plugins, PastIndex, FirstHolder
  <1>3. /\ state \in [Plugins -> States] /\ reason \in [Plugins -> Reasons]
        /\ dataById \in [Ids -> Plugins \cup {NoPlugin}]
        /\ spec[c].id \in Ids \cup {NoId}
    BY <1>1, SpecTypes DEF Typed, TypeOK, PluginSpec
  <1>4. Promise!Eligible' = Promise!Eligible
        /\ \A S : Promise!RequirementsMetIn(S)' <=> Promise!RequirementsMetIn(S)
    BY <1>1 DEF Promise!Eligible, Promise!RequirementsMetIn, Promise!Satisfies
  <1>5. \A p \in Plugins : resolved[p] = {} /\ state[p] # "Resolved"
    BY <1>1 DEF Typed, EdgesOK, Linked, EdgesKept
  <1>6. EdgesEligible' /\ CallsLinked'
    BY <1>1, <1>5 DEF EdgesEligible, CallsLinked
  <1>7. CycleMembers'
    BY <1>1 DEF NotStarted, CycleMembers
  <1>8. CASE IndexSkip(c)
    <2>1. spec[c].id = NoId /\ UNCHANGED <<dataById, state, reason>>
      BY <1>8 DEF IndexSkip
    <2>2. ~spec[c].valid
      BY <1>1, <2>1, DiscoveryAssumption DEF Typed, TypeOK
    <2>3. Indexed'
      <3>1. \A id \in Ids : dataById[id] # NoPlugin =>
                /\ dataById[id] \in Plugins /\ spec[dataById[id]].id = id
                /\ FirstHolder(dataById[id]) /\ PastIndex(dataById[id])
        BY <1>3 DEF Linked, Indexed
      <3> QED BY <1>1, <1>2, <2>1, <3>1 DEF Linked, Indexed
    <2>4. Unblamed'
      BY <1>1, <1>2, <2>1, <2>2 DEF Linked, Unblamed
    <2>5. EdgesKept'
      BY <1>1, <1>5, <2>1 DEF EdgesKept
    <2>6. SetsKept'
      BY <1>1, <1>4, <2>1 DEF Linked, SetsKept
    <2> QED BY <1>6, <1>7, <2>3, <2>4, <2>5, <2>6 DEF Linked
  <1>9. CASE IndexFirst(c)
    <2>1. /\ spec[c].id # NoId /\ dataById[spec[c].id] = NoPlugin
          /\ dataById' = [dataById EXCEPT ![spec[c].id] = c]
          /\ UNCHANGED <<state, reason>>
      BY <1>9 DEF IndexFirst
    <2>2. \A id \in Ids : dataById'[id] = IF id = spec[c].id THEN c ELSE dataById[id]
      BY <1>3, <2>1
    <2>3. FirstHolder(c)
      <3> SUFFICES ASSUME NEW q \in 1 .. c - 1, spec[q].id = spec[c].id PROVE FALSE
        BY DEF FirstHolder
      <3>1. q \in Plugins /\ q < c
        BY <1>1, CountAssumption DEF Plugins
      <3> QED BY <1>2, <2>1, <3>1 DEF Linked, Indexed
    <2>4. Indexed'
      <3>1. \A id \in Ids : dataById[id] # NoPlugin =>
                /\ dataById[id] \in Plugins /\ spec[dataById[id]].id = id
                /\ FirstHolder(dataById[id]) /\ PastIndex(dataById[id])
        BY <1>3 DEF Linked, Indexed
      <3>2. ASSUME NEW id \in Ids, dataById'[id] # NoPlugin
            PROVE  /\ spec'[dataById'[id]].id = id
                   /\ FirstHolder(dataById[id])' /\ PastIndex(dataById[id])'
        <4>1. PICK q \in Plugins : q = dataById'[id]
          BY <1>1, <1>3, <2>2, <3>1, <3>2
        <4>2. spec[q].id = id /\ FirstHolder(q) /\ (q < c \/ q = c)
          <5>1. CASE id = spec[c].id
            BY <2>2, <2>3, <4>1, <5>1
          <5>2. CASE id # spec[c].id
            BY <1>2, <2>2, <3>1, <3>2, <4>1, <5>2
          <5> QED BY <5>1, <5>2
        <4>3. FirstHolder(q)' /\ PastIndex(q)'
          BY <1>2, <4>2
        <4> QED BY <1>1, <4>1, <4>2, <4>3 DEF FirstHolder, PastIndex
      <3>3. \A p \in Plugins : spec[p].id # NoId => spec[p].id \in Ids
        BY SpecTypes DEF Typed, PluginSpec
      <3>4. ASSUME NEW p \in Plugins, spec'[p].id # NoId, PastIndex(p)'
            PROVE  dataById'[spec'[p].id] # NoPlugin
        <4>1. spec[p].id \in Ids /\ spec'[p].id = spec[p].id /\ (p < c \/ p = c)
          BY <1>1, <1>2, <3>3, <3>4
        <4>2. CASE spec[p].id = spec[c].id
          BY <1>1, <2>2, <4>1, <4>2, NullAssumption
        <4>3. CASE spec[p].id # spec[c].id
          <5>1. dataById[spec[p].id] # NoPlugin
            BY <1>1, <1>2, <3>4, <4>1, <4>3 DEF Linked, Indexed
          <5> QED BY <2>2, <4>1, <4>3, <5>1
        <4> QED BY <4>2, <4>3
      <3> QED BY <3>2, <3>4 DEF Indexed
    <2>5. Unblamed'
      BY <1>1, <1>2, <2>1, <2>3 DEF Linked, Unblamed
    <2>6. EdgesKept'
      BY <1>1, <1>5, <2>1 DEF EdgesKept
    <2>7. SetsKept'
      BY <1>1, <1>4, <2>1 DEF Linked, SetsKept
    <2> QED BY <1>6, <1>7, <2>4, <2>5, <2>6, <2>7 DEF Linked
  <1>10. CASE IndexDuplicate(c)
    <2>1. /\ spec[c].id # NoId /\ dataById[spec[c].id] # NoPlugin
          /\ state' = [state EXCEPT ![c] = "Invalid"] /\ dataById' = dataById
      BY <1>10 DEF IndexDuplicate, ReportError
    <2>2. \A p \in Plugins : state'[p] = IF p = c THEN "Invalid" ELSE state[p]
      BY <1>3, <2>1
    <2>3. ~FirstHolder(c)
      <3>1. /\ dataById[spec[c].id] \in Plugins /\ spec[dataById[spec[c].id]].id = spec[c].id
            /\ FirstHolder(dataById[spec[c].id]) /\ dataById[spec[c].id] < c
        BY <1>1, <1>2, <1>3, <2>1 DEF Linked, Indexed
      <3>2. dataById[spec[c].id] # c
        BY <1>1, <3>1, CountAssumption DEF Plugins
      <3> QED BY <1>1, <3>1, <3>2, HoldersEqual
    <2>4. Indexed'
      <3>1. \A id \in Ids : dataById[id] # NoPlugin =>
                /\ dataById[id] \in Plugins /\ spec[dataById[id]].id = id
                /\ FirstHolder(dataById[id]) /\ PastIndex(dataById[id])
        BY <1>3 DEF Linked, Indexed
      <3> QED BY <1>1, <1>2, <2>1, <3>1 DEF Linked, Indexed
    <2>5. Unblamed'
      BY <1>1, <1>2, <2>2 DEF Linked, Unblamed
    <2>6. EdgesKept'
      BY <1>1, <1>5, <2>2 DEF EdgesKept
    <2>7. SetsKept'
      <3>1. c \notin Promise!Eligible
        BY <2>3, EligibleMeaning
      <3>2. \A S \in SUBSET (Promise!Eligible \ onCycle) : \A p \in S : p \in Plugins /\ p # c
        BY <3>1, EligibleMeaning
      <3> QED BY <1>1, <1>4, <2>2, <3>2 DEF Linked, SetsKept
    <2> QED BY <1>6, <1>7, <2>4, <2>5, <2>6, <2>7 DEF Linked
  <1> QED BY <1>8, <1>9, <1>10 DEF IndexId

\* From the dependency loop on, the index stays, and errors are never taken back.
LEMMA LinkedAfter ==
    ASSUME Typed, Linked, phase # "index", phase' # "index", UNCHANGED <<spec, dataById>>,
           \A p \in Plugins : state'[p] # "Invalid" => state[p] # "Invalid"
    PROVE  /\ Indexed' /\ Unblamed'
           /\ Promise!Eligible' = Promise!Eligible
           /\ \A S : Promise!RequirementsMetIn(S)' <=> Promise!RequirementsMetIn(S)
  <1>1. \A p : FirstHolder(p)' <=> FirstHolder(p)
    BY DEF FirstHolder
  <1>2. Indexed' /\ Unblamed'
    BY <1>1 DEF Linked, Indexed, Unblamed, PastIndex
  <1> QED BY <1>2 DEF Promise!Eligible, Promise!RequirementsMetIn, Promise!Satisfies

\* A set whose requirements are met within it loses no member to a dependency.
LEMMA RequirementAnswered ==
    ASSUME Typed, Linked, phase # "index",
           NEW S \in SUBSET (Promise!Eligible \ onCycle), Promise!RequirementsMetIn(S),
           NEW p \in S, NEW k \in DependencyIndices(p), Required(p, k)
    PROVE  /\ Target(p, k) \in S /\ state[Target(p, k)] # "Invalid"
           /\ Participates(Target(p, k)) /\ Compatible(p, k)
  <1>1. p \in Plugins
    BY EligibleMeaning
  <1>2. Dependencies(p)[k] \in Promise!ToSet(spec[p].dependencies)
    BY <1>1, DependenciesByIndex DEF Typed
  <1>3. PICK q \in S : Promise!Satisfies(q, Dependencies(p)[k])
    BY <1>2 DEF Promise!RequirementsMetIn, Required
  <1>4. q \in Promise!Eligible /\ q \in Plugins /\ Participates(q)
    BY EligibleMeaning
  <1>5. Satisfies(q, Dependencies(p)[k])
    BY <1>1, <1>3, <1>4, SatisfiesMeaning DEF Typed
  <1>6. q = Target(p, k) /\ Compatible(p, k)
    BY <1>1, <1>4, <1>5, AnswerIsTarget DEF Typed, Linked
  <1> QED BY <1>4, <1>6 DEF Linked, SetsKept

LEMMA LinkedResolve ==
    ASSUME Typed, Linked, NotStarted, IdleStack, ResolvePlugin
    PROVE  Linked'
  <1> DEFINE c == cursor
  <1>1. /\ c \in Plugins /\ phase = "resolve" /\ phase' = "resolve"
        /\ UNCHANGED <<spec, dataById, onCycle, stack>>
    BY DEF ResolvePlugin, InLoop
  <1>2. /\ state \in [Plugins -> States]
        /\ resolved \in [Plugins -> SUBSET (Nat \ {0})]
        /\ \A k \in DependencyIndices(c) : k \in Nat
    BY <1>1, SpecTypes, SMTT(30) DEF Typed, TypeOK
  <1>3. CallsLinked' /\ CycleMembers'
    BY <1>1 DEF CallsLinked, NotStarted, CycleMembers
  <1>4. /\ \A p, k : Target(p, k)' = Target(p, k)
        /\ \A p : DependencyIndices(p)' = DependencyIndices(p)
        /\ \A p, k : Compatible(p, k)' <=> Compatible(p, k)
        /\ \A p : Participates(p)' <=> Participates(p)
    BY <1>1 DEF Target, Dependencies, DependencyIndices, Compatible, Participates
  <1>5. \A k \in Accepted(c) : k \in DependencyIndices(c) /\ Target(c, k) \in Promise!Eligible
    BY <1>1, AcceptedEligible DEF Accepted, Typed, Linked
  <1>6. CASE ResolveSkip(c)
    <2>1. UNCHANGED <<state, resolved>>
      BY <1>6 DEF ResolveSkip
    <2>2. /\ Indexed' /\ Unblamed'
          /\ Promise!Eligible' = Promise!Eligible
          /\ \A S : Promise!RequirementsMetIn(S)' <=> Promise!RequirementsMetIn(S)
      BY <1>1, <2>1, LinkedAfter
    <2>3. EdgesEligible' /\ EdgesKept' /\ SetsKept'
      BY <1>1, <1>4, <2>1, <2>2 DEF Linked, EdgesEligible, EdgesKept, SetsKept
    <2> QED BY <1>3, <2>2, <2>3 DEF Linked
  <1>7. CASE ResolveSucceeds(c)
    <2>1. /\ state[c] = "Read" /\ Participates(c)
          /\ \A p \in Plugins : state'[p] = IF p = c THEN "Resolved" ELSE state[p]
          /\ \A p \in Plugins : resolved'[p] = IF p = c THEN Accepted(c) ELSE resolved[p]
      BY <1>2, <1>7 DEF ResolveSucceeds
    <2>2. /\ Indexed' /\ Unblamed'
          /\ Promise!Eligible' = Promise!Eligible
          /\ \A S : Promise!RequirementsMetIn(S)' <=> Promise!RequirementsMetIn(S)
      BY <1>1, <2>1, LinkedAfter
    <2>3. EdgesEligible'
      BY <1>4, <1>5, <2>1, <2>2 DEF Linked, EdgesEligible
    <2>4. ASSUME NEW p \in Plugins, state'[p] = "Resolved", NEW k \in DependencyIndices(p),
                 Target(p, k) \in Plugins, state'[Target(p, k)] # "Invalid",
                 Participates(Target(p, k)), Compatible(p, k)
          PROVE  k \in resolved'[p]
      <3>1. state[Target(p, k)] # "Invalid"
        BY <2>1, <2>4
      <3>2. CASE p = c
        <4>1. Verdict(c, k) = "none"
          BY <1>1, <2>4, <3>1, <3>2, AnsweredAccepted DEF Typed
        <4> QED BY <2>1, <2>4, <3>2, <4>1 DEF Accepted
      <3>3. CASE p # c
        BY <2>1, <2>4, <3>1, <3>3 DEF Linked, EdgesKept
      <3> QED BY <3>2, <3>3
    <2>5. EdgesKept'
      BY <1>1, <1>4, <2>4 DEF EdgesKept
    <2>6. SetsKept'
      <3>1. \A S \in SUBSET (Promise!Eligible \ onCycle) : \A p \in S : p \in Plugins
        BY EligibleMeaning
      <3> QED BY <1>1, <2>1, <2>2, <3>1 DEF Linked, SetsKept
    <2> QED BY <1>3, <2>2, <2>3, <2>5, <2>6 DEF Linked
  <1>8. CASE ResolveFails(c)
    <2>1. PICK f \in Failures(c) :
              /\ ReportError(c, Verdict(c, f))
              /\ resolved' = [resolved EXCEPT ![c] = {j \in Accepted(c) : j < f}]
      BY <1>8 DEF ResolveFails
    <2>2. /\ \A p \in Plugins : state'[p] = IF p = c THEN "Invalid" ELSE state[p]
          /\ \A p \in Plugins : resolved'[p] \subseteq Accepted(c) \/ p # c
          /\ \A p \in Plugins : p # c => resolved'[p] = resolved[p]
      BY <1>2, <2>1 DEF ReportError
    <2>3. /\ Indexed' /\ Unblamed'
          /\ Promise!Eligible' = Promise!Eligible
          /\ \A S : Promise!RequirementsMetIn(S)' <=> Promise!RequirementsMetIn(S)
      BY <1>1, <2>2, LinkedAfter
    <2>4. EdgesEligible'
      BY <1>4, <1>5, <2>2, <2>3 DEF Linked, EdgesEligible
    <2>5. EdgesKept'
      <3>1. \A p \in Plugins : state'[p] # "Invalid" => p # c /\ state[p] = state'[p]
        BY <2>2
      <3> QED BY <1>1, <1>4, <2>2, <3>1 DEF Linked, EdgesKept
    <2>6. ASSUME NEW S \in SUBSET (Promise!Eligible \ onCycle), Promise!RequirementsMetIn(S)
          PROVE  c \notin S
      <3> SUFFICES ASSUME c \in S PROVE FALSE
        OBVIOUS
      <3>1. f \in DependencyIndices(c) /\ Required(c, f) /\ Verdict(c, f) # "none"
        BY DEF Failures
      <3>2. /\ Target(c, f) \in S /\ state[Target(c, f)] # "Invalid"
            /\ Participates(Target(c, f)) /\ Compatible(c, f)
        BY <1>1, <2>6, <3>1, RequirementAnswered
      <3>3. Target(c, f) \in Plugins
        BY <3>2, EligibleMeaning
      <3> QED BY <1>1, <3>1, <3>2, <3>3, AnsweredAccepted DEF Typed
    <2>7. SetsKept'
      <3>1. \A S \in SUBSET (Promise!Eligible \ onCycle) : \A p \in S : p \in Plugins
        BY EligibleMeaning
      <3> QED BY <1>1, <2>2, <2>3, <2>6, <3>1 DEF Linked, SetsKept
    <2> QED BY <1>3, <2>3, <2>4, <2>5, <2>7 DEF Linked
  <1> QED BY <1>6, <1>7, <1>8 DEF ResolvePlugin

\* Steps that leave the states as they are.
LEMMA LinkedStates ==
    ASSUME Typed, Linked, UNCHANGED <<spec, dataById, state, resolved>>,
           IF phase = "index" THEN IF phase' = "index" THEN cursor' = cursor ELSE cursor = N + 1
                              ELSE phase' # "index",
           onCycle \subseteq onCycle', CycleMembers', CallsLinked'
    PROVE  Linked'
  <1>1. \A p \in Plugins : PastIndex(p)' => PastIndex(p)
    BY CountAssumption DEF Plugins, PastIndex
  <1>2. \A p \in Plugins : PastIndex(p) => PastIndex(p)'
    BY CountAssumption DEF Plugins, PastIndex
  <1>3. \A p : FirstHolder(p)' <=> FirstHolder(p)
    BY DEF FirstHolder
  <1>4. Indexed'
    <2>1. \A id \in Ids : dataById[id] # NoPlugin => dataById[id] \in Plugins
      BY DEF Typed, TypeOK
    <2> QED BY <1>1, <1>2, <1>3, <2>1 DEF Linked, Indexed
  <1>5. Unblamed'
    BY <1>1, <1>2, <1>3 DEF Linked, Unblamed
  <1>6. /\ Promise!Eligible' = Promise!Eligible
        /\ \A S : Promise!RequirementsMetIn(S)' <=> Promise!RequirementsMetIn(S)
    BY DEF Promise!Eligible, Promise!RequirementsMetIn, Promise!Satisfies
  <1>7. SetsKept'
    BY <1>6 DEF Linked, SetsKept
  <1>8. EdgesEligible' /\ EdgesKept'
    BY <1>6 DEF Linked, EdgesEligible, EdgesKept, Target, Dependencies, DependencyIndices,
       Participates, Compatible
  <1> QED BY <1>4, <1>5, <1>7, <1>8 DEF Linked

-----------------------------------------------------------------------------
(* The cycles.                                                             *)

LEMMA LeastNumber ==
    ASSUME NEW T, T \subseteq Nat, T # {}
    PROVE  \E x \in T : \A y \in T : ~(y < x)
  <1>1. IsWellFoundedOn(OpToRel(<,Nat), Nat)
    BY NatLessThanWellFounded
  <1>2. \E x \in T : \A y \in T : ~(<<y, x>> \in OpToRel(<,Nat))
    BY <1>1, WFMin
  <1> QED BY <1>2 DEF OpToRel

\* Calls that are linked by edges stay within a set that is closed under them.
LEMMA CallsStayInside ==
    ASSUME NEW s, NEW succ, NEW S, NEW a \in Nat, NEW b \in Nat,
           \A j \in a .. b - 1 : s[j + 1].data \in succ[s[j].data],
           succ[s[a].data] \subseteq S, \A q \in S : succ[q] \subseteq S
    PROVE  \A j \in a + 1 .. b : s[j].data \in S
  <1> SUFFICES ASSUME NEW j0 \in a + 1 .. b, s[j0].data \notin S PROVE FALSE
    OBVIOUS
  <1> DEFINE T == {j \in a + 1 .. b : s[j].data \notin S}
  <1>1. T \subseteq Nat /\ T # {}
    OBVIOUS
  <1>2. PICK x \in T : \A y \in T : ~(y < x)
    BY <1>1, LeastNumber
  <1>3. x \in a + 1 .. b /\ s[x].data \notin S
    OBVIOUS
  <1>4. x - 1 \in a .. b - 1 /\ (x - 1) + 1 = x
    BY <1>3
  <1>5. s[x].data \in succ[s[x - 1].data]
    BY <1>4
  <1>6. x - 1 # a
    BY <1>3, <1>5
  <1>7. x - 1 \in a + 1 .. b /\ x - 1 < x
    BY <1>3, <1>4, <1>6
  <1>8. s[x - 1].data \in S
    BY <1>2, <1>7
  <1> QED BY <1>3, <1>5, <1>8

\* A segment that findCycles blames is closed by the edge it has just found.
LEMMA SegmentOnCycle ==
    ASSUME Typed, CallsLinked, phase = "cycles", stack # <<>>,
           Top.next \in resolved[Top.data], NEW x \in SegmentFrom(Target(Top.data, Top.next))
    PROVE  x \in Plugins /\ x \in ReachedFrom(Edges, x)
  <1> DEFINE n == Len(stack)
             t == Target(Top.data, Top.next)
  <1>1. /\ stack \in Seq(Frame) /\ n \in Nat \ {0} /\ DOMAIN stack = 1 .. n
        /\ \A j \in 1 .. n : stack[j].data \in Plugins
    <2>1. stack \in Seq(Frame)
      BY DEF Typed, TypeOK
    <2>2. n \in Nat \ {0} /\ DOMAIN stack = 1 .. n
      BY <2>1, LenProperties, EmptySeq
    <2>3. \A j \in 1 .. n : stack[j] \in Frame
      BY <2>1, ElementOfSeq
    <2> QED BY <2>1, <2>2, <2>3 DEF Frame
  <1>2. PICK m \in 1 .. n : x = stack[m].data /\ \E i \in 1 .. m : stack[i].data = t
    BY <1>1 DEF SegmentFrom
  <1>3. PICK i \in 1 .. m : stack[i].data = t
    BY <1>2
  <1>4. \A j \in 1 .. n - 1 : stack[j + 1].data \in Edges[stack[j].data]
    BY <1>1 DEF CallsLinked, Edges
  <1>5. Top.data = stack[n].data /\ t \in Edges[stack[n].data]
    BY <1>1 DEF Top, Edges, ResolvedTargets
  <1>6. ASSUME NEW S \in SUBSET Plugins,
               Edges[x] \subseteq S, \A r \in S : Edges[r] \subseteq S
        PROVE  x \in S
    <2>1. \A j \in m .. n - 1 : stack[j + 1].data \in Edges[stack[j].data]
      BY <1>1, <1>4
    <2>2. \A j \in m + 1 .. n : stack[j].data \in S
      <3>1. m \in Nat /\ n \in Nat /\ Edges[stack[m].data] \subseteq S
        BY <1>1, <1>2, <1>6
      <3> QED BY <1>6, <2>1, <3>1, CallsStayInside
    <2>3. Edges[stack[n].data] \subseteq S
      BY <1>1, <1>2, <1>6, <2>2
    <2>4. t \in S /\ Edges[t] \subseteq S
      BY <1>5, <1>6, <2>3
    <2>5. \A j \in i .. m - 1 : stack[j + 1].data \in Edges[stack[j].data]
      BY <1>1, <1>2, <1>3, <1>4
    <2>6. \A j \in i + 1 .. m : stack[j].data \in S
      <3>1. i \in Nat /\ m \in Nat
        BY <1>2, <1>3
      <3> QED BY <1>3, <1>6, <2>4, <2>5, <3>1, CallsStayInside
    <2> QED BY <1>2, <1>3, <2>4, <2>6
  <1>7. x \in Plugins
    BY <1>1, <1>2
  <1> QED BY <1>6, <1>7 DEF ReachedFrom

\* What a frame's edge list says does not change while calls are made.
LEMMA SameEdges ==
    ASSUME UNCHANGED <<spec, dataById, resolved>>
    PROVE  /\ \A p, k : Target(p, k)' = Target(p, k)
           /\ \A p : ResolvedTargets(p)' = ResolvedTargets(p)
           /\ Edges' = Edges
           /\ \A p : ReachedFrom(Edges, p)' = ReachedFrom(Edges, p)
  BY DEF Target, Dependencies, ResolvedTargets, Edges, ReachedFrom

\* A call that is left or goes on, and one that is made for an edge of the top.
LEMMA LinkedCalls ==
    ASSUME Typed, CallsLinked, phase \in {"cycles", "order"}, stack # <<>>,
           UNCHANGED <<spec, dataById, resolved, phase>>,
           \/ stack' = Pop
           \/ stack' = AdvanceTop
           \/ /\ Top.next \in resolved[Top.data] /\ Target(Top.data, Top.next) \in Plugins
              /\ stack' = Append(AdvanceTop, [data |-> Target(Top.data, Top.next), next |-> 1])
    PROVE  CallsLinked'
  <1> DEFINE n == Len(stack)
  <1>1. stack \in Seq(Frame) /\ n \in Nat \ {0} /\ Top = stack[n]
    BY TopType DEF Typed, TypeOK, Top
  <1>2. \A p : ResolvedTargets(p)' = ResolvedTargets(p)
    BY SameEdges
  <1>3. \A i \in 1 .. n - 1 : stack[i + 1].data \in ResolvedTargets(stack[i].data)
    BY DEF CallsLinked
  <1>4. CASE stack' = Pop
    <2>1. Len(stack') = n - 1 /\ \A i \in 1 .. n - 1 : stack'[i] = stack[i]
      BY <1>1, <1>4, PopProperties
    <2> QED BY <1>1, <1>2, <1>3, <2>1 DEF CallsLinked
  <1>5. CASE stack' = AdvanceTop
    <2>1. Len(stack') = n /\ \A i \in 1 .. n : stack'[i].data = stack[i].data
      BY <1>1, <1>5, AdvanceProperties
    <2> QED BY <1>1, <1>2, <1>3, <2>1 DEF CallsLinked
  <1>6. CASE /\ Top.next \in resolved[Top.data] /\ Target(Top.data, Top.next) \in Plugins
             /\ stack' = Append(AdvanceTop, [data |-> Target(Top.data, Top.next), next |-> 1])
    <2>1. /\ Len(stack') = n + 1 /\ stack'[n + 1].data = Target(Top.data, Top.next)
          /\ \A i \in 1 .. n : stack'[i].data = stack[i].data
      BY <1>1, <1>6, PushProperties
    <2>2. stack'[n + 1].data \in ResolvedTargets(stack[n].data)
      BY <1>1, <1>6, <2>1 DEF ResolvedTargets
    <2>3. ASSUME NEW i \in 1 .. n
          PROVE  stack'[i + 1].data \in ResolvedTargets(stack'[i].data)
      <3>1. CASE i = n
        BY <2>1, <2>2, <3>1
      <3>2. CASE i # n
        <4>1. i \in 1 .. n - 1 /\ i + 1 \in 1 .. n
          BY <1>1, <3>2
        <4> QED BY <1>3, <2>1, <4>1
      <3> QED BY <3>1, <3>2
    <2> QED BY <1>1, <1>2, <2>1, <2>3 DEF CallsLinked
  <1> QED BY <1>4, <1>5, <1>6

LEMMA LinkedLoopEnds ==
    ASSUME Typed, Linked, NotStarted, IdleStack, IndexDone \/ ResolveDone
    PROVE  Linked'
  <1>1. /\ phase \in {"index", "resolve"} /\ phase' \in {"resolve", "cycles"}
        /\ cursor = N + 1
        /\ UNCHANGED <<spec, dataById, state, resolved, onCycle, stack>>
    BY DEF IndexDone, ResolveDone, NextPhase
  <1>2. onCycle = {} /\ Len(stack) = 0
    BY <1>1, EmptySeq DEF NotStarted, IdleStack
  <1>3. CycleMembers' /\ CallsLinked'
    BY <1>1, <1>2 DEF CycleMembers, CallsLinked
  <1> QED BY <1>1, <1>3, LinkedStates

LEMMA LinkedRoots ==
    ASSUME Typed, Linked, CycleRoot \/ AppendRoot
    PROVE  Linked'
  <1>1. /\ phase \in {"cycles", "order"} /\ phase' = phase /\ cursor \in Plugins
        /\ UNCHANGED <<spec, dataById, state, resolved, onCycle>>
        /\ stack' = <<>> \/ stack' = <<[data |-> cursor, next |-> 1]>>
    BY DEF CycleRoot, AppendRoot, InLoop
  <1>2. CallsLinked'
    <2>1. Len(stack') \in {0, 1}
      BY <1>1, EmptySeq, SingletonFrame
    <2> QED BY <2>1 DEF CallsLinked
  <1>3. CycleMembers'
    BY <1>1, SameEdges DEF Linked, CycleMembers
  <1> QED BY <1>1, <1>2, <1>3, LinkedStates

LEMMA LinkedCycleStep ==
    ASSUME Typed, Linked, CycleStep
    PROVE  Linked'
  <1> DEFINE p == Top.data
             k == Top.next
  <1>1. /\ phase = "cycles" /\ phase' = phase /\ stack # <<>>
        /\ UNCHANGED <<spec, dataById, state, resolved>>
        /\ p \in Plugins
    BY TopType DEF CycleStep, Typed, TypeOK
  <1>2. \A j \in resolved[p] : Target(p, j) \in Plugins
    BY <1>1 DEF Typed, EdgesOK
  <1>3. CallsLinked'
    <2>1. CASE CycleSkip(p, k)
      BY <1>1, <2>1, LinkedCalls DEF CycleSkip, Linked
    <2>2. CASE CycleDescend(p, k)
      BY <1>1, <1>2, <2>2, LinkedCalls DEF CycleDescend, CycleEdge, Linked
    <2>3. CASE CycleFound(p, k)
      BY <1>1, <2>3, LinkedCalls DEF CycleFound, Linked
    <2> QED BY <2>1, <2>2, <2>3 DEF CycleStep
  <1>4. CycleMembers' /\ onCycle \subseteq onCycle'
    <2>1. CASE CycleSkip(p, k) \/ CycleDescend(p, k)
      BY <1>1, <2>1, SameEdges DEF CycleSkip, CycleDescend, Linked, CycleMembers
    <2>2. CASE CycleFound(p, k)
      <3>1. onCycle' = onCycle \cup SegmentFrom(Target(p, k)) /\ k \in resolved[p]
        BY <2>2 DEF CycleFound, CycleEdge
      <3>2. \A x \in SegmentFrom(Target(p, k)) : x \in ReachedFrom(Edges, x)
        BY <1>1, <3>1, SegmentOnCycle DEF Linked
      <3>3. \A x : ReachedFrom(Edges, x)' = ReachedFrom(Edges, x)
        BY <1>1, SameEdges
      <3> QED BY <3>1, <3>2, <3>3 DEF Linked, CycleMembers
    <2> QED BY <2>1, <2>2 DEF CycleStep
  <1> QED BY <1>1, <1>3, <1>4, LinkedStates

LEMMA LinkedCallEnds ==
    ASSUME Typed, Linked, CycleLeave \/ AppendLeave \/ AppendStep
    PROVE  Linked'
  <1>1. /\ phase \in {"cycles", "order"} /\ phase' = phase /\ stack # <<>>
        /\ UNCHANGED <<spec, dataById, state, resolved, onCycle>>
        /\ Top.data \in Plugins
    BY TopType DEF CycleLeave, AppendLeave, AppendStep, Typed, TypeOK
  <1>2. CallsLinked'
    <2>1. CASE CycleLeave \/ AppendLeave
      BY <1>1, <2>1, LinkedCalls DEF CycleLeave, AppendLeave, Linked
    <2>2. CASE AppendStep
      <3>1. \A j \in resolved[Top.data] : Target(Top.data, j) \in Plugins
        BY <1>1 DEF Typed, EdgesOK
      <3> QED BY <1>1, <2>2, <3>1, LinkedCalls DEF AppendStep, AppendEdge, Linked
    <2> QED BY <2>1, <2>2
  <1>3. CycleMembers'
    BY <1>1, SameEdges DEF Linked, CycleMembers
  <1> QED BY <1>1, <1>2, <1>3, LinkedStates

LEMMA LinkedReport ==
    ASSUME Typed, Linked, ReportCycles
    PROVE  Linked'
  <1>1. /\ phase = "cycles" /\ phase' = "propagate"
        /\ UNCHANGED <<spec, dataById, resolved, onCycle>>
        /\ \A p \in Plugins : state'[p] = IF p \in onCycle THEN "Invalid" ELSE state[p]
    BY DEF ReportCycles, NextPhase
  <1>2. /\ Indexed' /\ Unblamed'
        /\ Promise!Eligible' = Promise!Eligible
        /\ \A S : Promise!RequirementsMetIn(S)' <=> Promise!RequirementsMetIn(S)
    BY <1>1, LinkedAfter
  <1>3. EdgesEligible' /\ EdgesKept'
    <2>1. EdgesEligible'
      BY <1>1, <1>2, SameEdges DEF Linked, EdgesEligible
    <2>2. EdgesKept'
      <3>1. \A p \in Plugins : state'[p] # "Invalid" => state[p] = state'[p]
        BY <1>1
      <3> QED BY <1>1, <3>1 DEF Linked, EdgesKept, Target, Dependencies, DependencyIndices,
                                Participates, Compatible
    <2> QED BY <2>1, <2>2
  <1>4. SetsKept'
    <2>1. \A S \in SUBSET (Promise!Eligible \ onCycle) : \A p \in S : p \in Plugins /\ p \notin onCycle
      BY EligibleMeaning
    <2> QED BY <1>1, <1>2, <2>1 DEF Linked, SetsKept
  <1>5. CycleMembers' /\ CallsLinked'
    BY <1>1, SameEdges DEF Linked, CycleMembers, CallsLinked
  <1> QED BY <1>2, <1>3, <1>4, <1>5 DEF Linked

\* The propagation loop finds no plugin of a set whose requirements are met within
\* it: the provider in that set has not been blamed.
LEMMA LinkedPropagate ==
    ASSUME Typed, Linked, Diagnosed, Propagate
    PROVE  Linked'
  <1> DEFINE c == cursor
  <1>1. /\ phase = "propagate" /\ phase' = "propagate" /\ c \in Plugins
        /\ UNCHANGED <<spec, dataById, resolved, onCycle>>
    BY DEF Propagate, InLoop
  <1>2. CycleMembers' /\ CallsLinked'
    BY <1>1, SameEdges DEF Linked, CycleMembers, CallsLinked
  <1>3. CASE ~(state[c] = "Resolved" /\ LostRequired(c))
    <2>1. state' = state
      BY <1>3 DEF Propagate
    <2> QED BY <1>1, <1>2, <2>1, LinkedStates
  <1>4. CASE state[c] = "Resolved" /\ LostRequired(c)
    <2>1. \A p \in Plugins : state'[p] = IF p = c THEN "Invalid" ELSE state[p]
      BY <1>4 DEF Propagate, ReportError, Typed, TypeOK
    <2>2. /\ Indexed' /\ Unblamed'
          /\ Promise!Eligible' = Promise!Eligible
          /\ \A S : Promise!RequirementsMetIn(S)' <=> Promise!RequirementsMetIn(S)
      BY <1>1, <2>1, LinkedAfter
    <2>3. EdgesEligible'
      BY <1>1, <2>2, SameEdges DEF Linked, EdgesEligible
    <2>4. EdgesKept'
      <3>1. \A p \in Plugins : state'[p] # "Invalid" => state[p] = state'[p]
        BY <2>1
      <3> QED BY <1>1, <3>1 DEF Linked, EdgesKept, Target, Dependencies, DependencyIndices,
                                Participates, Compatible
    <2>5. ASSUME NEW S \in SUBSET (Promise!Eligible \ onCycle), Promise!RequirementsMetIn(S)
          PROVE  c \notin S
      <3> SUFFICES ASSUME c \in S PROVE FALSE
        OBVIOUS
      <3>1. PICK k \in RequiredResolved(c) : state[Target(c, k)] # "Resolved"
        BY <1>4 DEF LostRequired
      <3>2. k \in DependencyIndices(c) /\ Required(c, k)
        BY <1>1, <3>1 DEF RequiredResolved, Typed, TypeOK
      <3>3. Target(c, k) \in S /\ state[Target(c, k)] # "Invalid" /\ Participates(Target(c, k))
        BY <1>1, <2>5, <3>2, RequirementAnswered
      <3>4. Target(c, k) \in Plugins
        BY <3>3, EligibleMeaning
      <3>5. state[Target(c, k)] # "Read"
        BY <1>1, <3>3, <3>4 DEF Diagnosed
      <3> QED BY <3>1, <3>3, <3>4, <3>5 DEF Typed, TypeOK, States
    <2>6. SetsKept'
      <3>1. \A S \in SUBSET (Promise!Eligible \ onCycle) : \A p \in S : p \in Plugins
        BY EligibleMeaning
      <3> QED BY <1>1, <2>1, <2>2, <2>5, <3>1 DEF Linked, SetsKept
    <2> QED BY <1>2, <2>2, <2>3, <2>4, <2>6 DEF Linked
  <1> QED BY <1>3, <1>4

LEMMA LinkedStep ==
    ASSUME Typed, Ordered, Cycles, Complete, Linked, [Next]_vars
    PROVE  Linked'
  <1>1. NotStarted /\ IdleStack /\ Diagnosed
    BY DEF Ordered, Cycles, Walk, Complete
  <1>2. CASE PropagateAgain \/ PropagateDone \/ Commit
    <2>1. /\ phase \in {"propagate", "order"} /\ phase' \in {"propagate", "order", "done"}
          /\ UNCHANGED <<spec, dataById, state, resolved, onCycle, stack>>
          /\ stack = <<>>
      BY <1>1, <1>2 DEF PropagateAgain, PropagateDone, Commit, NextPhase, IdleStack
    <2>2. CycleMembers' /\ CallsLinked'
      BY <2>1, SameEdges, EmptySeq DEF Linked, CycleMembers, CallsLinked
    <2> QED BY <2>1, <2>2, LinkedStates
  <1>3. CASE UNCHANGED vars
    <2>1. UNCHANGED <<spec, dataById, state, resolved, onCycle, stack, phase, cursor>>
      BY <1>3 DEF vars
    <2>2. CycleMembers' /\ CallsLinked'
      BY <2>1, SameEdges DEF Linked, CycleMembers, CallsLinked
    <2> QED BY <2>1, <2>2, LinkedStates
  <1> QED
    BY <1>1, <1>2, <1>3, LinkedIndex, LinkedResolve, LinkedLoopEnds, LinkedRoots, LinkedCycleStep,
       LinkedCallEnds, LinkedReport, LinkedPropagate DEF Next, Terminated

LEMMA AlwaysLinked == Spec => [](Typed /\ Ordered /\ Cycles /\ Complete /\ Linked)
  <1>1. Init => Typed /\ Ordered /\ Cycles /\ Complete /\ Linked
    BY TypedInit, OrderedInit, CyclesInit, CompleteInit, LinkedInit
  <1>2. Typed /\ Ordered /\ Cycles /\ Complete /\ Linked /\ [Next]_vars
            => (Typed /\ Ordered /\ Cycles /\ Complete /\ Linked)'
    BY TypedStep, OrderedStep, CyclesInductive, DiagnosedStep, CoversStep, LinkedStep DEF Complete
  <1> QED BY <1>1, <1>2, PTL DEF Spec

-----------------------------------------------------------------------------
(* The messages.                                                           *)

\* The first holder of the id of a dependency, if there is one.
Holder(d) == {q \in Plugins : spec[q].id = d.id /\ \A r \in 1 .. q - 1 : spec[r].id # d.id}

RequiredOf(p) ==
    {Dependencies(p)[k] : k \in {i \in DependencyIndices(p) : Required(p, i)}}

\* What each message says, one by one.
LEMMA BlamedMeaning ==
    ASSUME NEW p
    PROVE  /\ Blamed(p, "none") <=> spec[p].valid
           /\ Blamed(p, "metadata") <=> ~spec[p].valid
           /\ Blamed(p, "duplicate") <=> \E q \in 1 .. p - 1 : spec[q].id = spec[p].id
           /\ Blamed(p, "missing") <=>
                  \E d \in RequiredOf(p) : \A q \in Holder(d) : reason[q] # "none"
           /\ Blamed(p, "disabled") <=>
                  \E d \in RequiredOf(p) : \E q \in Holder(d) : ~spec[q].enabled
           /\ Blamed(p, "unselected") <=>
                  \E d \in RequiredOf(p) : \E q \in Holder(d) :
                      spec[q].enabled /\ ~spec[q].selected
           /\ Blamed(p, "incompatible") <=>
                  \E d \in RequiredOf(p) : \E q \in Holder(d) :
                      Participates(q) /\ ~Satisfies(q, d)
           /\ Blamed(p, "requiredInvalid") <=>
                  \E d \in RequiredOf(p) : \E q \in Holder(d) : reason[q] # "none"
           /\ Blamed(p, "cycle") <=> p \in ReachedFrom(Edges, p)
  BY DEF Blamed, Holder, RequiredOf, Edges

\* A target is the only holder of the id it answers.
LEMMA TargetIsHolder ==
    ASSUME TypeOK, Indexed, NEW p \in Plugins, NEW k \in DependencyIndices(p),
           Target(p, k) # NoPlugin
    PROVE  /\ Target(p, k) \in Plugins
           /\ Holder(Dependencies(p)[k]) = {Target(p, k)}
  <1> DEFINE id == Dependencies(p)[k].id
             t == Target(p, k)
  <1>1. id \in Ids /\ t = dataById[id] /\ t \in Plugins
    BY SpecTypes DEF Target
  <1>2. spec[t].id = id /\ FirstHolder(t)
    BY <1>1 DEF Indexed
  <1>3. t \in Holder(Dependencies(p)[k])
    BY <1>1, <1>2 DEF Holder, FirstHolder
  <1>4. ASSUME NEW q \in Holder(Dependencies(p)[k]) PROVE q = t
    <2>1. q \in Plugins /\ spec[q].id = id /\ FirstHolder(q)
      BY DEF Holder, FirstHolder
    <2> QED BY <1>1, <1>2, <2>1, HoldersEqual
  <1>5. Holder(Dependencies(p)[k]) = {t}
    BY <1>3, <1>4, Zenon
  <1> QED BY <1>1, <1>5

\* Once all ids are indexed, an id without a target is held by broken specs only.
LEMMA HoldersBroken ==
    ASSUME TypeOK, Indexed, Unblamed, Diagnosed, phase # "index",
           NEW p \in Plugins, NEW k \in DependencyIndices(p), Target(p, k) = NoPlugin
    PROVE  \A q \in Holder(Dependencies(p)[k]) : reason[q] # "none"
  <1> SUFFICES ASSUME NEW q \in Holder(Dependencies(p)[k]) PROVE reason[q] # "none"
    OBVIOUS
  <1>1. q \in Plugins /\ spec[q].id = Dependencies(p)[k].id
    BY DEF Holder
  <1>2. spec[q].id = NoId
    BY <1>1 DEF Indexed, PastIndex, Target
  <1>3. ~spec[q].valid
    BY <1>1, <1>2, DiscoveryAssumption DEF TypeOK
  <1> QED BY <1>1, <1>3 DEF Unblamed, Diagnosed

\* The message with which the dependency loop stops is true.
LEMMA VerdictTrue ==
    ASSUME Typed, Indexed, Unblamed, Diagnosed, phase # "index",
           NEW p \in Plugins, NEW k \in Failures(p)
    PROVE  /\ Verdict(p, k) \in {"missing", "disabled", "unselected", "incompatible"}
           /\ Blamed(p, Verdict(p, k))
  <1> DEFINE d == Dependencies(p)[k]
             t == Target(p, k)
  <1>1. k \in DependencyIndices(p) /\ Required(p, k) /\ Verdict(p, k) # "none"
    BY DEF Failures
  <1>2. d \in RequiredOf(p)
    BY <1>1 DEF RequiredOf
  <1>3. CASE t = NoPlugin
    <2>1. Verdict(p, k) = "missing"
      BY <1>3 DEF Verdict
    <2>2. \A q \in Holder(d) : reason[q] # "none"
      BY <1>1, <1>3, HoldersBroken DEF Typed
    <2> QED BY <1>2, <2>1, <2>2, BlamedMeaning
  <1>4. CASE t # NoPlugin
    <2>1. t \in Plugins /\ Holder(d) = {t}
      BY <1>1, <1>4, TargetIsHolder DEF Typed
    <2>2. CASE state[t] = "Invalid"
      <3>1. Verdict(p, k) = "missing"
        BY <1>4, <2>2 DEF Verdict
      <3>2. \A q \in Holder(d) : reason[q] # "none"
        BY <2>1, <2>2 DEF Diagnosed
      <3> QED BY <1>2, <3>1, <3>2, BlamedMeaning
    <2>3. CASE state[t] # "Invalid" /\ ~spec[t].enabled
      <3>1. Verdict(p, k) = "disabled"
        BY <1>4, <2>3 DEF Verdict
      <3>2. \E q \in Holder(d) : ~spec[q].enabled
        BY <2>1, <2>3
      <3> QED BY <1>2, <3>1, <3>2, BlamedMeaning
    <2>4. CASE state[t] # "Invalid" /\ spec[t].enabled /\ ~spec[t].selected
      <3>1. Verdict(p, k) = "unselected"
        BY <1>4, <2>4 DEF Verdict
      <3>2. \E q \in Holder(d) : spec[q].enabled /\ ~spec[q].selected
        BY <2>1, <2>4
      <3> QED BY <1>2, <3>1, <3>2, BlamedMeaning
    <2>5. CASE state[t] # "Invalid" /\ spec[t].enabled /\ spec[t].selected
      <3>1. Verdict(p, k) = "incompatible" /\ ~Compatible(p, k)
        BY <1>1, <1>4, <2>5 DEF Verdict
      <3>2. ~Satisfies(t, d)
        BY <1>1, <2>1, <3>1 DEF Satisfies, Compatible
      <3>3. \E q \in Holder(d) : Participates(q) /\ ~Satisfies(q, d)
        BY <2>1, <2>5, <3>2 DEF Participates
      <3> QED BY <1>2, <3>1, <3>3, BlamedMeaning
    <2> QED BY <2>2, <2>3, <2>4, <2>5
  <1> QED BY <1>3, <1>4

\* A message that was true stays true: errors are never taken back.
LEMMA MessageStays ==
    ASSUME TypeOK, spec' = spec, NEW p \in Plugins, NEW why \in Reasons \ {"cycle"},
           Blamed(p, why), \A q \in Plugins : reason[q] # "none" => reason'[q] # "none"
    PROVE  Blamed(p, why)'
  <1>1. /\ \A d : Holder(d)' = Holder(d) /\ Holder(d) \subseteq Plugins
        /\ RequiredOf(p)' = RequiredOf(p)
        /\ \A q, d : Satisfies(q, d)' <=> Satisfies(q, d)
        /\ \A q : Participates(q)' <=> Participates(q)
    BY DEF Holder, RequiredOf, Satisfies, Participates, Dependencies, DependencyIndices, Required
  <1>2. CASE why \in {"none", "metadata", "duplicate"}
    BY <1>2 DEF Blamed
  <1>3. CASE why = "missing"
    <2>1. PICK d \in RequiredOf(p) : \A q \in Holder(d) : reason[q] # "none"
      BY <1>3, BlamedMeaning
    <2>2. \A q \in Holder(d) : reason'[q] # "none"
      BY <1>1, <2>1
    <2>3. \E e \in RequiredOf(p)' : \A q \in Holder(e)' : reason'[q] # "none"
      BY <1>1, <2>2
    <2> QED BY <1>3, <2>3 DEF Blamed, Holder, RequiredOf
  <1>4. CASE why = "requiredInvalid"
    <2>1. PICK d \in RequiredOf(p) : \E q \in Holder(d) : reason[q] # "none"
      BY <1>4, BlamedMeaning
    <2>2. \E q \in Holder(d) : reason'[q] # "none"
      BY <1>1, <2>1
    <2>3. \E e \in RequiredOf(p)' : \E q \in Holder(e)' : reason'[q] # "none"
      BY <1>1, <2>2
    <2> QED BY <1>4, <2>3 DEF Blamed, Holder, RequiredOf
  <1>5. CASE why = "disabled"
    <2>1. \E d \in RequiredOf(p) : \E q \in Holder(d) : ~spec[q].enabled
      BY <1>5, BlamedMeaning
    <2>2. \E d \in RequiredOf(p)' : \E q \in Holder(d)' : ~spec'[q].enabled
      BY <1>1, <2>1
    <2> QED BY <1>5, <2>2 DEF Blamed, Holder, RequiredOf
  <1>6. CASE why = "incompatible"
    <2>1. \E d \in RequiredOf(p) : \E q \in Holder(d) : Participates(q) /\ ~Satisfies(q, d)
      BY <1>6, BlamedMeaning
    <2>2. \E d \in RequiredOf(p)' : \E q \in Holder(d)' : Participates(q)' /\ ~Satisfies(q, d)'
      BY <1>1, <2>1
    <2> QED BY <1>6, <2>2 DEF Blamed, Holder, RequiredOf
  <1>7. CASE why = "unselected"
    <2>1. \E d \in RequiredOf(p) : \E q \in Holder(d) : spec[q].enabled /\ ~spec[q].selected
      BY <1>7, BlamedMeaning
    <2>2. \E d \in RequiredOf(p)' : \E q \in Holder(d)' :
              spec'[q].enabled /\ ~spec'[q].selected
      BY <1>1, <2>1
    <2> QED BY <1>7, <2>2 DEF Blamed, Holder, RequiredOf
  <1> QED BY <1>2, <1>3, <1>4, <1>5, <1>6, <1>7 DEF Reasons

\* So it is enough to look at the messages that a step reports.
LEMMA MessagesStay ==
    ASSUME TypeOK, Messages, spec' = spec, onCycle \subseteq onCycle',
           \A q \in Plugins : reason[q] # "none" => reason'[q] # "none",
           \A p \in Plugins : reason'[p] # reason[p] =>
               \/ reason'[p] = "cycle" /\ p \in onCycle'
               \/ \E why \in Reasons \ {"cycle"} : reason'[p] = why /\ Blamed(p, why)
    PROVE  Messages'
  <1> SUFFICES ASSUME NEW p \in Plugins
               PROVE  IF reason'[p] = "cycle" THEN p \in onCycle' ELSE Blamed(p, reason[p])'
    BY DEF Messages
  <1>1. PICK why \in Reasons : why = reason[p]
    BY DEF TypeOK
  <1>2. CASE reason'[p] = reason[p]
    <2>1. IF why = "cycle" THEN p \in onCycle ELSE Blamed(p, why)
      BY <1>1 DEF Messages
    <2>2. CASE why = "cycle"
      BY <1>1, <1>2, <2>1, <2>2
    <2>3. CASE why # "cycle"
      <3>1. Blamed(p, why)'
        BY <2>1, <2>3, MessageStays
      <3> QED BY <1>1, <1>2, <2>3, <3>1 DEF Blamed
    <2> QED BY <2>2, <2>3
  <1>3. CASE reason'[p] # reason[p] /\ reason'[p] = "cycle"
    BY <1>3
  <1>4. CASE reason'[p] # reason[p] /\ reason'[p] # "cycle"
    <2>1. PICK new \in Reasons \ {"cycle"} : reason'[p] = new /\ Blamed(p, new)
      BY <1>4
    <2>2. Blamed(p, new)'
      BY <2>1, MessageStays
    <2> QED BY <1>4, <2>1, <2>2 DEF Blamed
  <1> QED BY <1>2, <1>3, <1>4

LEMMA MessagesIndex ==
    ASSUME Typed, Linked, Messages, IndexId
    PROVE  Messages'
  <1> DEFINE c == cursor
  <1>1. /\ c \in Plugins /\ phase = "index" /\ spec' = spec /\ onCycle' = onCycle
        /\ reason \in [Plugins -> Reasons]
    BY DEF IndexId, InLoop, Typed, TypeOK
  <1>2. CASE IndexSkip(c) \/ IndexFirst(c)
    BY <1>1, <1>2, MessagesStay DEF IndexSkip, IndexFirst, Typed
  <1>3. CASE IndexDuplicate(c)
    <2>1. /\ spec[c].id # NoId /\ dataById[spec[c].id] # NoPlugin
          /\ \A p \in Plugins : reason'[p] = IF p = c THEN "duplicate" ELSE reason[p]
      BY <1>1, <1>3 DEF IndexDuplicate, ReportError
    <2>2. spec[c].id \in Ids
      BY <1>1, <2>1, SpecTypes DEF Typed, PluginSpec
    <2>3. PICK h \in Plugins : h = dataById[spec[c].id]
      BY <2>1, <2>2 DEF Typed, TypeOK
    <2>4. spec[h].id = spec[c].id /\ h < c
      BY <1>1, <2>1, <2>2, <2>3 DEF Linked, Indexed, PastIndex
    <2>5. h \in 1 .. c - 1
      BY <1>1, <2>4, CountAssumption DEF Plugins
    <2>6. Blamed(c, "duplicate") /\ "duplicate" \in Reasons \ {"cycle"}
      BY <2>4, <2>5, BlamedMeaning DEF Reasons
    <2>7. \A p \in Plugins : reason'[p] # reason[p] =>
              \E why \in Reasons \ {"cycle"} : reason'[p] = why /\ Blamed(p, why)
      BY <2>1, <2>6
    <2>8. \A p \in Plugins : reason[p] # "none" => reason'[p] # "none"
      BY <2>1
    <2> QED BY <1>1, <2>7, <2>8, MessagesStay DEF Typed
  <1> QED BY <1>2, <1>3 DEF IndexId

LEMMA MessagesResolve ==
    ASSUME Typed, Linked, Diagnosed, Messages, ResolvePlugin
    PROVE  Messages'
  <1> DEFINE c == cursor
  <1>1. /\ c \in Plugins /\ phase = "resolve" /\ spec' = spec /\ onCycle' = onCycle
        /\ reason \in [Plugins -> Reasons]
    BY DEF ResolvePlugin, InLoop, Typed, TypeOK
  <1>2. CASE ResolveSkip(c) \/ ResolveSucceeds(c)
    BY <1>1, <1>2, MessagesStay DEF ResolveSkip, ResolveSucceeds, Typed
  <1>3. CASE ResolveFails(c)
    <2>1. PICK k \in Failures(c) : ReportError(c, Verdict(c, k))
      BY <1>3 DEF ResolveFails
    <2>2. \A p \in Plugins : reason'[p] = IF p = c THEN Verdict(c, k) ELSE reason[p]
      BY <1>1, <2>1 DEF ReportError
    <2>3. /\ Verdict(c, k) \in {"missing", "disabled", "unselected", "incompatible"}
          /\ Blamed(c, Verdict(c, k))
      BY <1>1, VerdictTrue DEF Linked
    <2>4. Verdict(c, k) \in Reasons \ {"cycle"} /\ Verdict(c, k) # "none"
      BY <2>3 DEF Reasons
    <2>5. \A p \in Plugins : reason'[p] # reason[p] =>
              \E why \in Reasons \ {"cycle"} : reason'[p] = why /\ Blamed(p, why)
      BY <2>2, <2>3, <2>4
    <2>6. \A p \in Plugins : reason[p] # "none" => reason'[p] # "none"
      BY <2>2, <2>4
    <2> QED BY <1>1, <2>5, <2>6, MessagesStay DEF Typed
  <1> QED BY <1>2, <1>3 DEF ResolvePlugin

LEMMA MessagesPropagate ==
    ASSUME Typed, Linked, Diagnosed, Messages, Propagate
    PROVE  Messages'
  <1> DEFINE c == cursor
  <1>1. /\ c \in Plugins /\ phase = "propagate" /\ spec' = spec /\ onCycle' = onCycle
        /\ reason \in [Plugins -> Reasons]
    BY DEF Propagate, InLoop, Typed, TypeOK
  <1>2. CASE ~(state[c] = "Resolved" /\ LostRequired(c))
    <2>1. reason' = reason
      BY <1>2 DEF Propagate
    <2> QED BY <1>1, <2>1, MessagesStay DEF Typed
  <1>3. CASE state[c] = "Resolved" /\ LostRequired(c)
    <2>1. \A p \in Plugins : reason'[p] = IF p = c THEN "requiredInvalid" ELSE reason[p]
      BY <1>1, <1>3 DEF Propagate, ReportError
    <2>2. PICK k \in RequiredResolved(c) : state[Target(c, k)] # "Resolved"
      BY <1>3 DEF LostRequired
    <2>3. /\ k \in DependencyIndices(c) /\ Required(c, k)
          /\ Target(c, k) \in Promise!Eligible
      BY <1>1, <2>2 DEF RequiredResolved, Typed, TypeOK, Linked, EdgesEligible
    <2>4. Target(c, k) \in Plugins /\ Participates(Target(c, k))
      BY <2>3, EligibleMeaning
    <2>5. state[Target(c, k)] # "Read"
      BY <1>1, <2>4 DEF Diagnosed
    <2>6. reason[Target(c, k)] # "none"
      BY <2>2, <2>4, <2>5 DEF Diagnosed, Typed, TypeOK, States
    <2>7. Dependencies(c)[k] \in RequiredOf(c)
      BY <2>3 DEF RequiredOf
    <2>8. Holder(Dependencies(c)[k]) = {Target(c, k)}
      BY <1>1, <2>3, <2>4, TargetIsHolder, NullAssumption DEF Linked, Typed
    <2>9. Blamed(c, "requiredInvalid") /\ "requiredInvalid" \in Reasons \ {"cycle"}
      BY <2>6, <2>7, <2>8, BlamedMeaning DEF Reasons
    <2>10. \A p \in Plugins : reason'[p] # reason[p] =>
               \E why \in Reasons \ {"cycle"} : reason'[p] = why /\ Blamed(p, why)
      BY <2>1, <2>9
    <2>11. \A p \in Plugins : reason[p] # "none" => reason'[p] # "none"
      BY <2>1
    <2> QED BY <1>1, <2>10, <2>11, MessagesStay DEF Typed
  <1> QED BY <1>2, <1>3

LEMMA MessagesStep ==
    ASSUME Typed, Complete, Linked, Messages, [Next]_vars
    PROVE  Messages'
  <1>1. Diagnosed /\ TypeOK
    BY DEF Complete, Typed
  <1>2. CASE ReportCycles
    <2>1. /\ spec' = spec /\ onCycle' = onCycle
          /\ \A p \in Plugins : reason'[p] = IF p \in onCycle THEN "cycle" ELSE reason[p]
      BY <1>2 DEF ReportCycles
    <2>2. /\ \A p \in Plugins : reason'[p] # reason[p] => reason'[p] = "cycle" /\ p \in onCycle'
          /\ \A p \in Plugins : reason[p] # "none" => reason'[p] # "none"
      BY <2>1
    <2> QED BY <1>1, <2>1, <2>2, MessagesStay
  <1>3. CASE CycleStep
    <2>1. spec' = spec /\ reason' = reason /\ onCycle \subseteq onCycle'
      BY <1>3 DEF CycleStep, CycleSkip, CycleDescend, CycleFound
    <2> QED BY <1>1, <2>1, MessagesStay
  <1>4. CASE \/ IndexDone \/ ResolveDone \/ CycleRoot \/ CycleLeave
             \/ PropagateAgain \/ PropagateDone
             \/ AppendRoot \/ AppendStep \/ AppendLeave \/ Commit \/ UNCHANGED vars
    <2>1. spec' = spec /\ reason' = reason /\ onCycle' = onCycle
      BY <1>4 DEF IndexDone, ResolveDone, CycleRoot, CycleLeave, PropagateAgain, PropagateDone,
         AppendRoot, AppendStep, AppendLeave, Commit, InLoop, vars
    <2> QED BY <1>1, <2>1, MessagesStay
  <1> QED
    BY <1>1, <1>2, <1>3, <1>4, MessagesIndex, MessagesResolve, MessagesPropagate DEF Next, Terminated

\* The message that a plugin is left with says something true of the discovered
\* specs: a plugin is blamed for a cycle only if it lies on one, and for a
\* dependency only if it declares a required one that is missing, unwanted, of
\* the wrong version or itself in error when the function returns.
THEOREM MessagesTrue == Spec => []ReasonsHold
  <1>1. Init => Messages
    <2>1. Init => \A p \in Plugins : reason[p] = IF spec[p].valid THEN "none" ELSE "metadata"
      BY DEF Init
    <2> QED BY <2>1, BlamedMeaning DEF Messages
  <1>2. Typed /\ Linked /\ Messages => ReasonsHold
    <2> SUFFICES ASSUME Linked, Messages, NEW p \in Plugins PROVE Blamed(p, reason[p])
      BY DEF ReasonsHold
    <2>1. CASE reason[p] = "cycle"
      BY <2>1, BlamedMeaning DEF Messages, Linked, CycleMembers
    <2>2. CASE reason[p] # "cycle"
      BY <2>2 DEF Messages
    <2> QED BY <2>1, <2>2
  <1>3. Messages /\ (Typed /\ Ordered /\ Cycles /\ Complete /\ Linked) /\ [Next]_vars => Messages'
    BY MessagesStep
  <1> QED BY <1>1, <1>2, <1>3, AlwaysLinked, PTL DEF Spec

-----------------------------------------------------------------------------
(* The order.                                                              *)

\* An edge leads to a plugin that satisfies the dependency it was kept for.
LEMMA EdgeSatisfies ==
    ASSUME Typed, NEW p \in Plugins, NEW k \in resolved[p]
    PROVE  /\ Target(p, k) \in Plugins /\ k \in DependencyIndices(p)
           /\ Promise!Satisfies(Target(p, k), Dependencies(p)[k])
  <1>1. k \in DependencyIndices(p) /\ Target(p, k) \in Plugins /\ Compatible(p, k)
    BY DEF Typed, TypeOK, EdgesOK
  <1>2. Dependencies(p)[k].id \in Ids
    BY <1>1, SpecTypes DEF Typed
  <1>3. spec[Target(p, k)].id = Dependencies(p)[k].id
    BY <1>1, <1>2 DEF Typed, EdgesOK, Target
  <1>4. Satisfies(Target(p, k), Dependencies(p)[k])
    BY <1>1, <1>3 DEF Satisfies, Compatible
  <1> QED BY <1>1, <1>4, SatisfiesMeaning DEF Typed

LEMMA EdgeAnswers ==
    ASSUME Typed, NEW S, NEW p \in Plugins, NEW k \in resolved[p], Target(p, k) \in S
    PROVE  Target(p, k) \in Promise!Answering(p, S, Promise!AnyType)
  <1>1. /\ k \in DependencyIndices(p)
        /\ Promise!Satisfies(Target(p, k), Dependencies(p)[k])
    BY EdgeSatisfies
  <1>2. Dependencies(p)[k] \in Promise!ToSet(spec[p].dependencies)
    BY <1>1, DependenciesByIndex DEF Typed
  <1>3. Dependencies(p)[k].type \in Promise!AnyType
    BY <1>1, SpecTypes DEF Types, Promise!AnyType, Typed
  <1> QED BY <1>1, <1>2, <1>3 DEF Promise!Answering

\* The calls of append start at a plugin from which the last one is reached.
LEMMA CallsReach ==
    ASSUME Typed, FramesHandled, CallsLinked, phase = "order", stack # <<>>, Len(stack) # 1
    PROVE  Top.data \in Promise!ReachedFrom(stack[1].data, Live)
  <1> DEFINE n == Len(stack)
             r == stack[1].data
             succ == [q \in Plugins |-> ResolvedTargets(q) \cap Live]
  <1>1. /\ n \in Nat \ {0} /\ Top = stack[n]
        /\ \A i \in 1 .. n : stack[i].data \in Plugins /\ stack[i].data \in Live
    BY TopType DEF Typed, TypeOK, Top, FramesHandled, Live
  <1>2. \A j \in 1 .. n - 1 : stack[j + 1].data \in succ[stack[j].data]
    BY <1>1 DEF CallsLinked
  <1>3. \A q \in Plugins : succ[q] \subseteq Promise!Answering(q, Live, Promise!AnyType)
    BY EdgeAnswers DEF ResolvedTargets
  <1>4. ASSUME NEW T \in SUBSET Live,
               \A x \in T \cup {r} : Promise!Answering(x, Live, Promise!AnyType) \subseteq T
        PROVE  Top.data \in T
    <2>1. succ[r] \subseteq T /\ \A q \in T : succ[q] \subseteq T
      <3>1. r \in Plugins /\ \A q \in T : q \in Plugins
        BY <1>1 DEF Live
      <3> HIDE DEF succ, r
      <3> QED BY <1>3, <1>4, <3>1
    <2>2. \A j \in 2 .. n : stack[j].data \in T
      <3> HIDE DEF succ
      <3>1. 1 \in Nat /\ n \in Nat /\ 1 + 1 = 2
        BY <1>1
      <3>2. \A j \in 1 + 1 .. n : stack[j].data \in T
        BY <1>2, <2>1, <3>1, CallsStayInside
      <3> QED BY <3>1, <3>2
    <2>3. n \in 2 .. n
      BY <1>1
    <2> HIDE DEF n
    <2> QED BY <1>1, <2>2, <2>3
  <1>5. Top.data \in Live
    BY <1>1
  <1> HIDE DEF n, r, succ
  <1> QED BY <1>4, <1>5 DEF Promise!ReachedFrom, r

LEMMA OrderlyEmpty ==
    ASSUME order' = <<>>, phase' = "order" => stack' = <<>>
    PROVE  Orderly'
  BY EmptySeq DEF Orderly, ProvidersFirst, EdgesHandled, RootInTurn, Overtaking

\* What the steps of append leave alone.
LEMMA OrderlySame ==
    ASSUME UNCHANGED <<spec, dataById, state, resolved>>
    PROVE  /\ Live' = Live
           /\ \A p, k : Target(p, k)' = Target(p, k)
           /\ \A r : Promise!ReachedFrom(r, Live)' = Promise!ReachedFrom(r, Live)
  BY DEF Live, Target, Dependencies, Promise!ReachedFrom, Promise!Answering, Promise!Satisfies

\* The order and what it says stay as long as nothing is added.
LEMMA OrderlyStays ==
    ASSUME Orderly, UNCHANGED <<spec, dataById, state, resolved, order>>
    PROVE  ProvidersFirst' /\ Overtaking'
  BY OrderlySame DEF Orderly, ProvidersFirst, Overtaking, Listed

LEMMA OrderlyRoot ==
    ASSUME Typed, Complete, Orderly, AppendRoot
    PROVE  Orderly'
  <1>1. /\ phase = "order" /\ phase' = "order" /\ stack = <<>> /\ cursor \in Plugins
        /\ UNCHANGED <<spec, dataById, state, resolved, order>>
    BY DEF AppendRoot, InLoop
  <1>2. ProvidersFirst' /\ Overtaking'
    BY <1>1, OrderlyStays
  <1>3. CASE Appendable(cursor)
    <2>1. Len(stack') = 1 /\ stack'[1].data = cursor /\ stack'[1].next = 1
      BY <1>1, <1>3, SingletonFrame DEF AppendRoot
    <2>2. \A k \in resolved[cursor] : ~(k < 1)
      BY <1>1 DEF Typed, TypeOK
    <2>3. EdgesHandled'
      BY <1>1, <2>1, <2>2 DEF EdgesHandled
    <2>4. \A q \in Plugins : q < cursor /\ state[q] = "Resolved" => Listed(order, q, Len(order))
      <3>1. Len(stack) = 0
        BY <1>1, EmptySeq
      <3> QED BY <1>1, <3>1 DEF Complete, OrderCovers
    <2>5. RootInTurn'
      BY <1>1, <2>1, <2>4 DEF RootInTurn, Listed
    <2> QED BY <1>2, <2>3, <2>5 DEF Orderly
  <1>4. CASE ~Appendable(cursor)
    <2>1. stack' = <<>> /\ Len(stack') = 0
      BY <1>4, EmptySeq DEF AppendRoot
    <2> QED BY <1>2, <2>1 DEF Orderly, EdgesHandled, RootInTurn
  <1> QED BY <1>3, <1>4

LEMMA OrderlyAppendStep ==
    ASSUME Typed, Ordered, Linked, Orderly, AppendStep
    PROVE  Orderly'
  <1> DEFINE p == Top.data
             k == Top.next
             t == Target(p, k)
             n == Len(stack)
  <1>1. /\ phase = "order" /\ phase' = "order" /\ stack \in Seq(Frame) /\ stack # <<>>
        /\ UNCHANGED <<spec, dataById, state, resolved, order>>
    BY DEF AppendStep, Typed, TypeOK
  <1>2. ProvidersFirst' /\ Overtaking'
    BY <1>1, OrderlyStays
  <1>3. \A q, j : Target(q, j)' = Target(q, j)
    BY <1>1, OrderlySame
  <1>4. /\ n \in Nat \ {0} /\ p \in Plugins /\ k \in Nat \ {0} /\ Top = stack[n]
        /\ \A i \in 1 .. n : stack[i].data \in Plugins
    BY <1>1, TopType DEF Top
  <1>5. \A q \in Plugins : resolved[q] \subseteq Nat \ {0}
    BY DEF Typed, TypeOK
  <1>6. CASE AppendEdge(p, k)
    <2>1. t \in Plugins
      BY <1>4, <1>6 DEF AppendEdge, Typed, EdgesOK
    <2>2. stack' = Append(AdvanceTop, [data |-> t, next |-> 1])
      BY <1>6 DEF AppendStep
    <2>3. /\ Len(stack') = n + 1
          /\ \A i \in 1 .. n :
                /\ stack'[i].data = stack[i].data
                /\ stack'[i].next = IF i = n THEN k + 1 ELSE stack[i].next
          /\ stack'[n + 1].data = t /\ stack'[n + 1].next = 1
      BY <1>1, <2>1, <2>2, PushProperties
    <2>4. ASSUME NEW i \in 1 .. n + 1, NEW j \in resolved[stack'[i].data],
                 j < stack'[i].next, state[Target(stack'[i].data, j)] = "Resolved"
          PROVE  \/ Listed(order, Target(stack'[i].data, j), Len(order))
                 \/ i < n + 1 /\ Target(stack'[i].data, j) = stack'[i + 1].data
      <3>1. CASE i = n + 1
        BY <1>5, <2>1, <2>3, <2>4, <3>1
      <3>2. CASE i = n
        <4>1. j \in Nat /\ j < k + 1 /\ stack'[i].data = p
          BY <1>4, <1>5, <2>3, <2>4, <3>2
        <4>2. CASE j = k
          BY <1>4, <2>3, <3>2, <4>1, <4>2
        <4>3. CASE j < k
          BY <1>1, <1>4, <2>4, <3>2, <4>1, <4>3 DEF Orderly, EdgesHandled
        <4> QED BY <1>4, <4>1, <4>2, <4>3
      <3>3. CASE i < n
        <4>1. i \in 1 .. n /\ i + 1 \in 1 .. n /\ i # n
          BY <1>4, <3>3
        <4>2. stack'[i].data = stack[i].data /\ stack'[i].next = stack[i].next
              /\ stack'[i + 1].data = stack[i + 1].data
          BY <2>3, <4>1
        <4>3. \/ Listed(order, Target(stack[i].data, j), Len(order))
              \/ i < n /\ Target(stack[i].data, j) = stack[i + 1].data
          BY <1>1, <2>4, <4>1, <4>2 DEF Orderly, EdgesHandled
        <4> QED BY <1>4, <4>1, <4>2, <4>3
      <3> QED BY <1>4, <3>1, <3>2, <3>3
    <2>5. EdgesHandled'
      BY <1>1, <1>3, <2>3, <2>4 DEF EdgesHandled, Listed
    <2>6. RootInTurn'
      BY <1>1, <1>4, <2>3 DEF Orderly, RootInTurn, Listed
    <2> QED BY <1>2, <2>5, <2>6 DEF Orderly
  <1>7. CASE ~AppendEdge(p, k)
    <2>1. stack' = AdvanceTop
      BY <1>7 DEF AppendStep
    <2>2. /\ Len(stack') = n
          /\ \A i \in 1 .. n :
                /\ stack'[i].data = stack[i].data
                /\ stack'[i].next = IF i = n THEN k + 1 ELSE stack[i].next
      BY <1>1, <2>1, AdvanceProperties
    <2>3. k \in resolved[p] /\ state[t] = "Resolved" => Listed(order, t, Len(order))
      <3> SUFFICES ASSUME k \in resolved[p], state[t] = "Resolved"
                   PROVE  Listed(order, t, Len(order))
        OBVIOUS
      <3>1. t \in Plugins /\ Participates(t)
        BY <1>4 DEF Typed, EdgesOK
      <3>2. t \in ToSet(order)
        BY <1>7, <3>1 DEF AppendEdge, Appendable
      <3> QED BY <3>2, LenProperties DEF ToSet, Listed, Typed, TypeOK
    <2>4. ASSUME NEW i \in 1 .. n, NEW j \in resolved[stack[i].data],
                 j < stack'[i].next, state[Target(stack[i].data, j)] = "Resolved"
          PROVE  \/ Listed(order, Target(stack[i].data, j), Len(order))
                 \/ i < n /\ Target(stack[i].data, j) = stack[i + 1].data
      <3>1. CASE i = n
        <4>1. j \in Nat /\ j < k + 1 /\ stack[i].data = p
          BY <1>4, <1>5, <2>2, <2>4, <3>1
        <4>2. CASE j = k
          BY <2>3, <2>4, <4>1, <4>2
        <4>3. CASE j < k
          BY <1>1, <1>4, <2>4, <3>1, <4>1, <4>3 DEF Orderly, EdgesHandled
        <4> QED BY <1>4, <4>1, <4>2, <4>3
      <3>2. CASE i < n
        <4>1. stack'[i].next = stack[i].next
          BY <1>4, <2>2, <3>2
        <4> QED BY <1>1, <2>4, <4>1 DEF Orderly, EdgesHandled
      <3> QED BY <1>4, <3>1, <3>2
    <2>5. EdgesHandled'
      <3>1. \A i \in 1 .. n : i < n => stack'[i + 1].data = stack[i + 1].data
        BY <1>4, <2>2
      <3> QED BY <1>1, <1>3, <2>2, <2>4, <3>1 DEF EdgesHandled, Listed
    <2>6. RootInTurn'
      BY <1>1, <1>4, <2>2 DEF Orderly, RootInTurn, Listed
    <2> QED BY <1>2, <2>5, <2>6 DEF Orderly
  <1> QED BY <1>6, <1>7

LEMMA OrderlyLeave ==
    ASSUME Typed, Ordered, Linked, Orderly, AppendLeave
    PROVE  Orderly'
  <1> DEFINE p == Top.data
             n == Len(stack)
             m == Len(order)
  <1>1. /\ phase = "order" /\ phase' = "order" /\ stack \in Seq(Frame) /\ stack # <<>>
        /\ order \in Seq(Plugins) /\ order' = Append(order, p) /\ stack' = Pop
        /\ Top.next \notin DependencyIndices(p)
        /\ UNCHANGED <<spec, dataById, state, resolved>>
    BY DEF AppendLeave, Typed, TypeOK
  <1>2. /\ Live' = Live
        /\ \A q, k : Target(q, k)' = Target(q, k)
        /\ \A r : Promise!ReachedFrom(r, Live)' = Promise!ReachedFrom(r, Live)
    BY <1>1, OrderlySame
  <1>3. /\ n \in Nat \ {0} /\ p \in Plugins /\ Top.next \in Nat \ {0} /\ Top = stack[n]
        /\ \A i \in 1 .. n : stack[i].data \in Plugins
    BY <1>1, TopType DEF Top
  <1>4. /\ m \in Nat /\ Len(order') = m + 1 /\ order'[m + 1] = p
        /\ \A i \in 1 .. m : order'[i] = order[i]
    BY <1>1, <1>3, AppendProperties, LenProperties
  <1>5. /\ Len(stack') = n - 1
        /\ \A i \in 1 .. n - 1 : stack'[i] = stack[i]
    BY <1>1, PopProperties
  <1>6. \A q : \A i \in 0 .. m : Listed(order', q, i) <=> Listed(order, q, i)
    BY <1>4 DEF Listed
  <1>7. \A q : Listed(order, q, m) \/ q = p => Listed(order', q, m + 1)
    BY <1>4 DEF Listed
  <1>8. ProvidersFirst'
    <2> SUFFICES ASSUME NEW i \in 1 .. m + 1, NEW k \in resolved[order'[i]],
                        state[Target(order'[i], k)] = "Resolved"
                 PROVE  Listed(order', Target(order'[i], k), i - 1)
      BY <1>1, <1>2, <1>4 DEF ProvidersFirst, Listed
    <2>1. CASE i = m + 1
      <3>1. k \in DependencyIndices(p) /\ k < Top.next
        <4>1. k \in DependencyIndices(p)
          BY <1>3, <1>4, <2>1 DEF Typed, TypeOK
        <4> QED BY <1>1, <1>3, <4>1, SpecTypes DEF Typed
      <3>2. Listed(order, Target(p, k), m)
        BY <1>1, <1>3, <1>4, <2>1, <3>1 DEF Orderly, EdgesHandled
      <3> QED BY <1>4, <1>6, <2>1, <3>2
    <2>2. CASE i # m + 1
      <3>1. i \in 1 .. m /\ i - 1 \in 0 .. m
        BY <1>4, <2>2
      <3>2. Listed(order, Target(order[i], k), i - 1)
        BY <1>4, <3>1 DEF Orderly, ProvidersFirst
      <3> QED BY <1>4, <1>6, <3>1, <3>2
    <2> QED BY <2>1, <2>2
  <1>9. EdgesHandled'
    <2>1. ASSUME NEW i \in 1 .. n - 1, NEW k \in resolved[stack[i].data],
                 k < stack[i].next, state[Target(stack[i].data, k)] = "Resolved"
          PROVE  \/ Listed(order', Target(stack[i].data, k), m + 1)
                 \/ i < n - 1 /\ Target(stack[i].data, k) = stack[i + 1].data
      <3>1. i \in 1 .. n /\ i < n
        BY <1>3
      <3>2. \/ Listed(order, Target(stack[i].data, k), m)
            \/ Target(stack[i].data, k) = stack[i + 1].data
        BY <1>1, <2>1, <3>1 DEF Orderly, EdgesHandled
      <3>3. i < n - 1 \/ stack[i + 1].data = p
        BY <1>3, <3>1
      <3> QED BY <1>7, <3>2, <3>3
    <2>2. \A i \in 1 .. n - 1 : i < n - 1 => stack'[i + 1].data = stack[i + 1].data
      BY <1>3, <1>5
    <2>3. \A i \in 1 .. n - 1 : stack'[i].data = stack[i].data /\ stack'[i].next = stack[i].next
      BY <1>5
    <2> HIDE DEF n, m
    <2> QED BY <1>1, <1>2, <1>4, <1>5, <2>1, <2>2, <2>3 DEF EdgesHandled
  <1>10. RootInTurn'
    <2> SUFFICES ASSUME stack' # <<>>, NEW q \in Plugins,
                        q < stack'[1].data, state[q] = "Resolved"
                 PROVE  Listed(order', q, m + 1)
      BY <1>1, <1>4 DEF RootInTurn
    <2>1. stack'[1] = stack[1]
      <3>1. stack' \in Seq(Frame)
        BY <1>1, PopProperties
      <3>2. Len(stack') # 0
        BY <3>1, EmptySeq
      <3> QED BY <1>3, <1>5, <3>2
    <2>2. Listed(order, q, m)
      BY <1>1, <2>1 DEF Orderly, RootInTurn
    <2> QED BY <1>7, <2>2
  <1>11. Overtaking'
    <2> SUFFICES ASSUME NEW i \in 1 .. m + 1, NEW q \in Plugins,
                        q < order'[i], state[q] = "Resolved", ~Listed(order', q, i)
                 PROVE  \E r \in Plugins : /\ r <= q /\ state[r] = "Resolved"
                                           /\ order'[i] \in Promise!ReachedFrom(r, Live)
      BY <1>1, <1>2, <1>4 DEF Overtaking, Listed
    <2>1. CASE i = m + 1
      <3> DEFINE r == stack[1].data
      <3>1. q < p /\ ~Listed(order, q, m)
        BY <1>4, <1>7, <2>1
      <3>2. r \in Plugins /\ state[r] = "Resolved"
        BY <1>1, <1>3 DEF Ordered, FramesHandled
      <3>3. ~(q < r)
        BY <1>1, <3>1 DEF Orderly, RootInTurn
      <3>4. r <= q /\ r # p
        <4>1. q \in Int /\ p \in Int /\ r \in Int
          BY <1>3, <3>2, CountAssumption DEF Plugins
        <4> HIDE DEF p, r
        <4> QED BY <3>1, <3>3, <4>1
      <3>5. n # 1
        BY <1>3, <3>4
      <3>6. p \in Promise!ReachedFrom(r, Live)
        BY <1>1, <3>5, CallsReach DEF Ordered, Linked
      <3> QED BY <1>4, <2>1, <3>2, <3>4, <3>6
    <2>2. CASE i # m + 1
      <3>1. i \in 1 .. m /\ i \in 0 .. m
        BY <1>4, <2>2
      <3> QED BY <1>4, <1>6, <3>1 DEF Orderly, Overtaking
    <2> QED BY <2>1, <2>2
  <1> QED BY <1>8, <1>9, <1>10, <1>11 DEF Orderly

LEMMA OrderlyStep ==
    ASSUME Typed, Ordered, Ordered', Complete, Linked, Orderly, [Next]_vars
    PROVE  Orderly'
  <1>1. CASE phase' \in {"index", "resolve", "cycles", "propagate"}
    BY <1>1, OrderlyEmpty DEF Ordered, Committed
  <1>2. CASE PropagateDone
    <2>1. order' = <<>> /\ stack' = <<>>
      BY <1>2 DEF PropagateDone, NextPhase, Ordered, Committed, IdleStack
    <2> QED BY <2>1, OrderlyEmpty
  <1>3. CASE Commit
    <2>1. phase' = "done" /\ UNCHANGED <<spec, dataById, state, resolved, order>>
      BY <1>3 DEF Commit, NextPhase
    <2> QED BY <2>1, OrderlyStays DEF Orderly, EdgesHandled, RootInTurn
  <1>4. CASE UNCHANGED vars
    <2>1. UNCHANGED <<spec, dataById, state, resolved, order, stack, phase>>
      BY <1>4 DEF vars
    <2>2. EdgesHandled' /\ RootInTurn'
      BY <2>1, OrderlySame DEF Orderly, EdgesHandled, RootInTurn, Listed
    <2> QED BY <2>1, <2>2, OrderlyStays DEF Orderly
  <1>5. IndexId \/ IndexDone \/ ResolvePlugin \/ ResolveDone \/ CycleRoot \/ CycleStep
        \/ CycleLeave \/ ReportCycles \/ Propagate \/ PropagateAgain
            => phase' \in {"index", "resolve", "cycles", "propagate"}
    BY DEF IndexId, IndexDone, ResolvePlugin, ResolveDone, CycleRoot, CycleStep,
       CycleLeave, ReportCycles, Propagate, PropagateAgain, InLoop, NextPhase
  <1> QED
    BY <1>1, <1>2, <1>3, <1>4, <1>5, OrderlyRoot, OrderlyAppendStep, OrderlyLeave
       DEF Next, Terminated

-----------------------------------------------------------------------------
(* The promise.                                                            *)

\* Once the cycles are reported, their plugins stay in error.
Reported ==
    phase \in {"propagate", "order", "done"} => \A p \in onCycle : state[p] = "Invalid"

LEMMA ReportedStep ==
    ASSUME Typed, Reported, [Next]_vars
    PROVE  Reported'
  <1>1. CASE phase' \in {"index", "resolve", "cycles"}
    BY <1>1 DEF Reported
  <1>2. CASE ReportCycles
    BY <1>2 DEF ReportCycles, Reported, Typed, TypeOK
  <1>3. CASE Propagate
    <2>1. phase = "propagate" /\ onCycle' = onCycle /\ onCycle \subseteq Plugins
      BY <1>3 DEF Propagate, InLoop, Typed, TypeOK
    <2>2. \A p \in Plugins : state[p] = "Invalid" => state'[p] = "Invalid"
      BY <1>3 DEF Propagate, ReportError, Typed, TypeOK
    <2> QED BY <2>1, <2>2 DEF Reported
  <1>4. CASE PropagateAgain \/ PropagateDone \/ AppendRoot \/ AppendStep \/ AppendLeave \/ Commit
             \/ UNCHANGED vars
    <2>1. /\ phase' \in {"propagate", "order", "done"} => phase \in {"propagate", "order", "done"}
          /\ UNCHANGED <<state, onCycle>>
      BY <1>4 DEF PropagateAgain, PropagateDone, AppendRoot, AppendStep, AppendLeave, Commit,
         NextPhase, InLoop, vars
    <2> QED BY <2>1 DEF Reported
  <1>5. IndexId \/ IndexDone \/ ResolvePlugin \/ ResolveDone \/ CycleRoot \/ CycleStep \/ CycleLeave
            => phase' \in {"index", "resolve", "cycles"}
    BY DEF IndexId, IndexDone, ResolvePlugin, ResolveDone, CycleRoot, CycleStep,
       CycleLeave, InLoop, NextPhase
  <1> QED BY <1>1, <1>2, <1>3, <1>4, <1>5 DEF Next, Terminated

\* When append has been called for every plugin, the order holds the Resolved ones.
LEMMA OrderIsLive ==
    ASSUME Typed, Ordered, Complete, phase = "order", stack = <<>>, cursor = N + 1
    PROVE  Promise!ToSet(order) = Live
  <1>1. order \in Seq(Plugins) /\ Len(order) \in Nat /\ DOMAIN order = 1 .. Len(order)
    BY LenProperties DEF Typed, TypeOK
  <1>2. \A i \in 1 .. Len(order) : order[i] \in Live
    BY <1>1, ElementOfSeq DEF Ordered, OrderClosed, Live
  <1>3. \A q \in Plugins : q < cursor
    BY CountAssumption DEF Plugins
  <1>4. \A q \in Live : \E i \in 1 .. Len(order) : order[i] = q
    <2>1. Len(stack) = 0
      BY EmptySeq
    <2> QED BY <1>3, <2>1 DEF Complete, OrderCovers, Live, Listed
  <1> QED BY <1>1, <1>2, <1>4 DEF Promise!ToSet

\* A plugin of cycleErrors depends on itself through plugins that could load alone.
LEMMA BlamedOnCycle ==
    ASSUME Typed, Linked, NEW p \in onCycle
    PROVE  p \in Promise!ReachedFrom(p, Promise!Eligible)
  <1> DEFINE E == Promise!Eligible
  <1>1. /\ p \in Plugins /\ \A q \in E : q \in Plugins
    BY EligibleMeaning DEF Typed, TypeOK
  <1>2. \A S \in SUBSET Plugins :
            Edges[p] \subseteq S /\ (\A r \in S : Edges[r] \subseteq S) => p \in S
    BY DEF Linked, CycleMembers, ReachedFrom
  <1>3. \A q \in Plugins : Edges[q] \subseteq E
    BY DEF Linked, EdgesEligible, Edges, ResolvedTargets
  <1>4. p \in E
    BY <1>1, <1>2, <1>3
  <1>5. \A q \in Plugins : Edges[q] \subseteq Promise!Answering(q, E, Promise!AnyType)
    <2> SUFFICES ASSUME NEW q \in Plugins, NEW k \in resolved[q]
                 PROVE  Target(q, k) \in Promise!Answering(q, E, Promise!AnyType)
      BY DEF Edges, ResolvedTargets
    <2>1. Target(q, k) \in E
      BY DEF Linked, EdgesEligible
    <2> QED BY <2>1, EdgeAnswers
  <1>6. ASSUME NEW T \in SUBSET E,
               \A r \in T \cup {p} : Promise!Answering(r, E, Promise!AnyType) \subseteq T
        PROVE  p \in T
    <2>1. Edges[p] \subseteq T /\ \A r \in T : Edges[r] \subseteq T
      BY <1>1, <1>5, <1>6
    <2> QED BY <1>1, <1>2, <2>1
  <1> HIDE DEF E
  <1>7. p \in Promise!ReachedFrom(p, E)
    BY <1>4, <1>6 DEF Promise!ReachedFrom
  <1> QED BY <1>7 DEF E

\* The Resolved plugins are the greatest set outside the cycles that is closed
\* under required dependencies.
LEMMA LiveIsLoadable ==
    ASSUME Typed, Ordered, Complete, Linked, Reported, phase = "order"
    PROVE  Live = Promise!Loadable(onCycle)
  <1>1. Live \subseteq Promise!Eligible \ onCycle
    <2> SUFFICES ASSUME NEW p \in Live PROVE p \in Promise!Eligible \ onCycle
      OBVIOUS
    <2>1. p \in Plugins /\ state[p] = "Resolved"
      BY DEF Live
    <2>2. spec[p].valid /\ FirstHolder(p)
      BY <2>1 DEF Linked, Unblamed, PastIndex
    <2>3. Participates(p) /\ p \notin onCycle
      BY <2>1 DEF Typed, EdgesOK, Reported
    <2> QED BY <2>1, <2>2, <2>3, EligibleMeaning
  <1>2. Promise!RequirementsMetIn(Live)
    <2> SUFFICES ASSUME NEW p \in Live, NEW d \in Promise!ToSet(spec[p].dependencies),
                        d.type = "required"
                 PROVE  \E q \in Live : Promise!Satisfies(q, d)
      BY DEF Promise!RequirementsMetIn
    <2>1. p \in Plugins /\ state[p] = "Resolved"
      BY DEF Live
    <2>2. PICK k \in DependencyIndices(p) : d = Dependencies(p)[k]
      BY <2>1, DependenciesByIndex DEF Typed
    <2>3. k \in RequiredResolved(p) /\ k \in resolved[p]
      BY <2>1, <2>2 DEF Typed, EdgesOK, Required, RequiredResolved
    <2>4. state[Target(p, k)] = "Resolved"
      BY <2>1, <2>3 DEF Ordered, Propagated, LostRequired
    <2>5. Target(p, k) \in Plugins /\ Promise!Satisfies(Target(p, k), Dependencies(p)[k])
      BY <2>1, <2>3, EdgeSatisfies
    <2> QED BY <2>2, <2>4, <2>5 DEF Live
  <1>3. ASSUME NEW S \in SUBSET (Promise!Eligible \ onCycle), Promise!RequirementsMetIn(S),
               NEW p \in S
        PROVE  p \in Live
    <2>1. p \in Plugins /\ Participates(p)
      BY EligibleMeaning
    <2>2. state[p] # "Invalid"
      BY <1>3 DEF Linked, SetsKept
    <2>3. state[p] # "Read"
      BY <2>1 DEF Complete, Diagnosed
    <2> QED BY <2>1, <2>2, <2>3 DEF Typed, TypeOK, States, Live
  <1> QED BY <1>1, <1>2, <1>3 DEF Promise!Loadable

\* The order puts providers first and else follows discovery.
LEMMA OrderKept ==
    ASSUME Typed, Ordered, Complete, Linked, Reported, Orderly,
           phase = "order", stack = <<>>, cursor = N + 1
    PROVE  Promise!Ordered(order)
  <1>1. /\ Promise!ToSet(order) = Live
        /\ Len(order) \in Nat /\ DOMAIN order = 1 .. Len(order)
        /\ \A i \in 1 .. Len(order) : order[i] \in Live
    BY OrderIsLive, LenProperties DEF Typed, TypeOK, Promise!ToSet
  <1>2. \A p \in Live : p \in Plugins /\ state[p] = "Resolved" /\ p \in Promise!Eligible
    <2>1. \A p \in Live : p \in Plugins /\ state[p] = "Resolved"
      BY DEF Live
    <2> QED BY <2>1, EligibleMeaning DEF Linked, Unblamed, PastIndex, Typed, EdgesOK
  <1>3. SUFFICES ASSUME NEW i \in 1 .. Len(order), NEW j \in 1 .. Len(order), i < j
                 PROVE  /\ order[j] \notin Promise!Answering(order[i], Promise!Plugins, Promise!AnyType)
                        /\ order[j] # order[i]
                        /\ order[j] < order[i] =>
                               \E r \in Live :
                                   /\ r <= order[j]
                                   /\ order[i] \in Promise!ReachedFrom(r, Live)
    BY <1>1 DEF Promise!Ordered
  <1>4. \A q \in 0 .. i : ~Listed(order, order[j], q)
    BY <1>1, <1>3 DEF Complete, OrderDistinct, Listed
  <1>5. order[j] # order[i]
    BY <1>3 DEF Complete, OrderDistinct
  <1>6. order[j] \notin Promise!Answering(order[i], Promise!Plugins, Promise!AnyType)
    <2> SUFFICES ASSUME NEW d \in Promise!ToSet(spec[order[i]].dependencies),
                        Promise!Satisfies(order[j], d)
                 PROVE  FALSE
      BY DEF Promise!Answering
    <2> DEFINE p == order[i]
               q == order[j]
    <2>1. /\ p \in Plugins /\ q \in Plugins /\ q \in Promise!Eligible
          /\ state[p] = "Resolved" /\ state[q] = "Resolved"
      BY <1>1, <1>2
    <2>2. PICK k \in DependencyIndices(p) : d = Dependencies(p)[k]
      BY <2>1, DependenciesByIndex DEF Typed
    <2>3. Satisfies(q, Dependencies(p)[k])
      BY <2>1, <2>2, SatisfiesMeaning DEF Typed
    <2>4. q = Target(p, k) /\ Compatible(p, k)
      BY <2>1, <2>3, AnswerIsTarget DEF Typed, Linked
    <2>5. Participates(q)
      BY <2>1, EligibleMeaning
    <2>6. k \in resolved[p]
      BY <2>1, <2>4, <2>5 DEF Linked, EdgesKept
    <2>7. Listed(order, q, i - 1)
      BY <2>1, <2>4, <2>6 DEF Orderly, ProvidersFirst
    <2> QED BY <1>1, <1>4, <2>7
  <1>7. ASSUME order[j] < order[i]
        PROVE  \E r \in Live : /\ r <= order[j]
                               /\ order[i] \in Promise!ReachedFrom(r, Live)
    <2>1. order[j] \in Plugins /\ state[order[j]] = "Resolved" /\ ~Listed(order, order[j], i)
      BY <1>1, <1>2, <1>4
    <2>2. \E r \in Plugins : /\ r <= order[j] /\ state[r] = "Resolved"
                             /\ order[i] \in Promise!ReachedFrom(r, Live)
      BY <1>7, <2>1 DEF Orderly, Overtaking
    <2> QED BY <2>2 DEF Live
  <1> QED BY <1>5, <1>6, <1>7

\* The commit is the choice that the promise speaks of; no other step shows.
LEMMA PromiseStep ==
    ASSUME Typed, Ordered, Ordered', Complete, Linked, Reported, Orderly, [Next]_vars
    PROVE  [Promise!Resolve]_<<spec, IF phase = "done" THEN onCycle ELSE {}, loadOrder,
                               phase = "done">>
  <1>1. CASE Commit
    <2>1. /\ phase = "order" /\ phase' = "done" /\ stack = <<>> /\ cursor = N + 1
          /\ spec' = spec /\ onCycle' = onCycle /\ loadOrder' = order
      BY <1>1 DEF Commit, NextPhase
    <2>2. \A p \in onCycle : p \in Promise!ReachedFrom(p, Promise!Eligible)
      BY BlamedOnCycle
    <2>3. Promise!ToSet(order) = Promise!Loadable(onCycle) /\ Promise!Ordered(order)
      BY <2>1, OrderIsLive, LiveIsLoadable, OrderKept
    <2> QED BY <2>1, <2>2, <2>3 DEF Promise!Resolve
  <1>2. CASE ~Commit
    <2>1. spec' = spec /\ loadOrder' = loadOrder
      BY <1>2 DEF Next, IndexId, IndexDone, ResolvePlugin, ResolveDone, CycleRoot, CycleStep,
         CycleLeave, ReportCycles, Propagate, PropagateAgain, PropagateDone, AppendRoot,
         AppendStep, AppendLeave, InLoop, NextPhase, Terminated, vars
    <2>2. /\ phase = "done" <=> phase' = "done"
          /\ phase = "done" => onCycle' = onCycle
      BY <1>2 DEF Next, IndexId, IndexDone, ResolvePlugin, ResolveDone, CycleRoot, CycleStep,
         CycleLeave, ReportCycles, Propagate, PropagateAgain, PropagateDone, AppendRoot,
         AppendStep, AppendLeave, InLoop, NextPhase, Terminated, vars
    <2>3. CASE phase = "done"
      BY <2>1, <2>2, <2>3
    <2>4. CASE phase # "done"
      BY <2>1, <2>2, <2>4
    <2> QED BY <2>3, <2>4
  <1> QED BY <1>1, <1>2

\* The loops together keep the promise of loadOrder(): for every graph and order
\* of discovery, they blame for cycles only plugins that lie on one, list the
\* greatest set outside the blamed ones that is closed under required
\* dependencies, and order it providers first, else as discovered.
THEOREM ResolutionKeepsPromise == Spec => KeepsPromise
  <1> DEFINE Inv == Typed /\ Ordered /\ Cycles /\ Complete /\ Linked
  <1>1. Init => Promise!Init /\ Reported /\ Orderly
    BY EmptySeq DEF Init, Promise!Init, Reported, Orderly, ProvidersFirst, EdgesHandled,
       RootInTurn, Overtaking
  <1>2. Inv /\ Inv' /\ Reported /\ Orderly /\ [Next]_vars => (Reported /\ Orderly)'
    BY ReportedStep, OrderlyStep
  <1>3. Inv /\ Inv' /\ Reported /\ Orderly /\ [Next]_vars
            => [Promise!Resolve]_<<spec, IF phase = "done" THEN onCycle ELSE {}, loadOrder,
                                   phase = "done">>
    BY PromiseStep
  <1>4. Spec => []Inv
    BY AlwaysLinked
  <1> HIDE DEF Inv
  <1>5. Spec => [](Reported /\ Orderly)
    BY <1>1, <1>2, <1>4, PTL DEF Spec
  <1> QED BY <1>1, <1>3, <1>4, <1>5, PTL DEF Spec, KeepsPromise, Promise!Spec

=============================================================================
