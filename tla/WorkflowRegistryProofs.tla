----------------------- MODULE WorkflowRegistryProofs ------------------------
(***************************************************************************)
(* The search of assertAcyclic is right, whatever the steps and however    *)
(* many: it lets a workflow pass only if its steps can be done in some     *)
(* order, and refuses one only for a cycle it has.                         *)
(*                                                                         *)
(* The invariant is the classical one of a depth-first search. The stack   *)
(* is a path of dependencies without repetition and is what is being       *)
(* visited (OnPath); what a frame has gone through is visited, but for the *)
(* step of the frame above (Explored); and the visited steps need only     *)
(* visited steps and contain no cycle (Done).                              *)
(***************************************************************************)
EXTENDS WorkflowRegistry, TLAPS

Frame == [step : Step, rest : SUBSET Step]

OnPath(f) ==
  /\ \A i, j \in 1..Len(f.stack) : f.stack[i].step = f.stack[j].step => i = j
  /\ f.visiting = {f.stack[i].step : i \in 1..Len(f.stack)}
  /\ \A i \in 1..Len(f.stack) - 1 :
       f.stack[i + 1].step \in f.needs[f.stack[i].step]

Explored(f) ==
  \A i \in 1..Len(f.stack) :
    /\ f.stack[i].rest \subseteq f.needs[f.stack[i].step]
    /\ \A s \in f.needs[f.stack[i].step] :
         s \in f.stack[i].rest \/ s \in f.visited
           \/ (i < Len(f.stack) /\ s = f.stack[i + 1].step)

Done(f) ==
  /\ \A s \in f.visited : f.needs[s] \subseteq f.visited
  /\ \A C \in SUBSET f.visited : C # {} => \E s \in C : f.needs[s] \cap C = {}

SearchTyped(f) ==
  /\ f \in SearchType
  /\ \A s \in DOMAIN f.needs : f.needs[s] \subseteq DOMAIN f.needs
  /\ f.todo \cup f.visiting \cup f.visited \subseteq DOMAIN f.needs
  /\ f.visiting \cap f.visited = {}
  /\ DOMAIN f.needs \subseteq f.todo \cup f.visiting \cup f.visited

SearchInv(f) == SearchTyped(f) /\ OnPath(f) /\ Explored(f) /\ Done(f)

Inv ==
  /\ RegistryTypeOK
  /\ RegisteredIsAcyclic
  /\ CycleIsReal
  /\ Searching => SearchInv(search)

-----------------------------------------------------------------------------
(* The steps of the search, by what they change *)

\* A step that was not visited is put on the stack, on top of the one that
\* needs it if there is one.
LEMMA EnterKeepsInv ==
  ASSUME NEW f, NEW g, NEW s \in DOMAIN f.needs,
         SearchInv(f), s \notin f.visiting, s \notin f.visited,
         g \in SearchType, g.needs = f.needs,
         g.visiting = f.visiting \cup {s}, g.visited = f.visited,
         g.todo \subseteq f.todo, f.todo \subseteq g.todo \cup {s},
         Len(g.stack) = Len(f.stack) + 1,
         g.stack[Len(f.stack) + 1].step = s,
         g.stack[Len(f.stack) + 1].rest = f.needs[s],
         \A i \in 1..Len(f.stack) :
           /\ g.stack[i].step = f.stack[i].step
           /\ g.stack[i].rest \subseteq f.stack[i].rest
           /\ \A r \in f.stack[i].rest :
                r \in g.stack[i].rest \/ (i = Len(f.stack) /\ r = s),
         Len(f.stack) > 0 => s \in f.needs[f.stack[Len(f.stack)].step]
  PROVE  SearchInv(g)
<1>l. Len(f.stack) \in Nat
  BY DEF SearchInv, SearchTyped, SearchType
<1>1. SearchTyped(g)
  BY DEF SearchInv, SearchTyped
<1>2. OnPath(g)
  <2>1. \A i \in 1..Len(f.stack) : f.stack[i].step \in f.visiting
    BY DEF SearchInv, OnPath
  <2>i. \A i \in 1..Len(g.stack) : i \in 1..Len(f.stack) \/ i = Len(f.stack) + 1
    BY <1>l
  <2>s. \A i \in 1..Len(f.stack) : g.stack[i].step = f.stack[i].step /\ g.stack[i].step # s
    BY <2>1
  <2>u. \A i, j \in 1..Len(f.stack) : f.stack[i].step = f.stack[j].step => i = j
    BY DEF SearchInv, OnPath
  <2>2. \A i, j \in 1..Len(g.stack) : g.stack[i].step = g.stack[j].step => i = j
    BY <2>i, <2>s, <2>u
  <2>3. g.visiting = {g.stack[i].step : i \in 1..Len(g.stack)}
    <3>1. 1..Len(g.stack) = 1..Len(f.stack) \cup {Len(f.stack) + 1}
      BY <1>l
    <3>2. f.visiting = {f.stack[i].step : i \in 1..Len(f.stack)}
      BY DEF SearchInv, OnPath
    <3>3. {g.stack[i].step : i \in 1..Len(f.stack)} = {f.stack[i].step : i \in 1..Len(f.stack)}
      BY <2>s
    <3>4. {g.stack[i].step : i \in 1..Len(g.stack)} =
            {g.stack[i].step : i \in 1..Len(f.stack)} \cup {g.stack[Len(f.stack) + 1].step}
      BY Z3, <3>1
    <3> QED
      BY <3>2, <3>3, <3>4
  <2>4. \A i \in 1..Len(g.stack) - 1 :
          g.stack[i + 1].step \in g.needs[g.stack[i].step]
    <3>0. \A i \in 1..Len(g.stack) - 1 : i \in 1..Len(f.stack) /\ g.stack[i].step = f.stack[i].step
      BY <1>l, <2>s
    <3> SUFFICES ASSUME NEW i \in 1..Len(f.stack)
                 PROVE  g.stack[i + 1].step \in f.needs[f.stack[i].step]
      BY <3>0
    <3>1. CASE i = Len(f.stack)
      BY <1>l, <3>1
    <3>2. CASE i < Len(f.stack)
      <4>1. i + 1 \in 1..Len(f.stack) /\ i \in 1..Len(f.stack) - 1
        BY <1>l, <3>2
      <4> QED
        BY <4>1 DEF SearchInv, OnPath
    <3> QED
      BY <1>l, <3>1, <3>2
  <2> QED
    BY <2>2, <2>3, <2>4 DEF OnPath
<1>3. Explored(g)
  <2>1. \A i \in 1..Len(f.stack) :
          i < Len(f.stack) => g.stack[i + 1].step = f.stack[i + 1].step
    BY <1>l
  <2> SUFFICES ASSUME NEW i \in 1..Len(g.stack)
               PROVE  /\ g.stack[i].rest \subseteq g.needs[g.stack[i].step]
                      /\ \A r \in g.needs[g.stack[i].step] :
                           r \in g.stack[i].rest \/ r \in g.visited
                             \/ (i < Len(g.stack) /\ r = g.stack[i + 1].step)
    BY DEF Explored
  <2>2. CASE i = Len(f.stack) + 1
    BY <2>2
  <2>3. CASE i \in 1..Len(f.stack)
    <3>1. /\ f.stack[i].rest \subseteq f.needs[f.stack[i].step]
          /\ \A r \in f.needs[f.stack[i].step] :
               r \in f.stack[i].rest \/ r \in f.visited
                 \/ (i < Len(f.stack) /\ r = f.stack[i + 1].step)
      BY <2>3 DEF SearchInv, Explored
    <3>2. i < Len(g.stack)
      BY <1>l, <2>3
    <3>3. /\ g.stack[i].step = f.stack[i].step
          /\ g.stack[i].rest \subseteq f.stack[i].rest
          /\ \A r \in f.stack[i].rest :
               r \in g.stack[i].rest \/ (i = Len(f.stack) /\ r = s)
      BY <2>3
    <3>4. CASE i = Len(f.stack)
      BY <3>1, <3>2, <3>3, <3>4
    <3>5. CASE i < Len(f.stack)
      BY <2>1, <2>3, <3>1, <3>2, <3>3, <3>5
    <3> QED
      BY <1>l, <2>3, <3>4, <3>5
  <2> QED
    BY <1>l, <2>2, <2>3
<1>4. Done(g)
  BY DEF SearchInv, Done
<1> QED
  BY <1>1, <1>2, <1>3, <1>4 DEF SearchInv

\* A dependency that was visited before is passed over.
LEMMA PassKeepsInv ==
  ASSUME NEW f, NEW g, NEW s \in f.visited,
         SearchInv(f),
         g \in SearchType, g.needs = f.needs,
         g.visiting = f.visiting, g.visited = f.visited,
         g.todo \subseteq f.todo, f.todo \subseteq g.todo \cup {s},
         Len(g.stack) = Len(f.stack),
         \A i \in 1..Len(f.stack) :
           /\ g.stack[i].step = f.stack[i].step
           /\ g.stack[i].rest \subseteq f.stack[i].rest
           /\ f.stack[i].rest \subseteq g.stack[i].rest \cup {s}
  PROVE  SearchInv(g)
<1>l. Len(f.stack) \in Nat
  BY DEF SearchInv, SearchTyped, SearchType
<1>1. SearchTyped(g)
  BY DEF SearchInv, SearchTyped
<1>2. OnPath(g)
  <2>1. \A i \in 1..Len(f.stack) - 1 : i \in 1..Len(f.stack) /\ i + 1 \in 1..Len(f.stack)
    BY <1>l
  <2>2. {g.stack[i].step : i \in 1..Len(g.stack)} = {f.stack[i].step : i \in 1..Len(f.stack)}
    OBVIOUS
  <2> QED
    BY <2>1, <2>2 DEF SearchInv, OnPath
<1>3. Explored(g)
  <2>1. \A i \in 1..Len(f.stack) :
          i < Len(f.stack) => g.stack[i + 1].step = f.stack[i + 1].step
    BY <1>l
  <2> QED
    BY <2>1 DEF SearchInv, Explored
<1>4. Done(g)
  BY DEF SearchInv, Done
<1> QED
  BY <1>1, <1>2, <1>3, <1>4 DEF SearchInv

\* A step whose dependencies are all visited is visited.
LEMMA LeaveKeepsInv ==
  ASSUME NEW f, NEW g, NEW s, NEW n \in Nat,
         SearchInv(f), Len(f.stack) = n + 1,
         f.stack[n + 1].step = s, f.stack[n + 1].rest = {},
         g \in SearchType, g.needs = f.needs, g.todo = f.todo,
         g.visiting = f.visiting \ {s}, g.visited = f.visited \cup {s},
         Len(g.stack) = n,
         \A i \in 1..n : g.stack[i] = f.stack[i]
  PROVE  SearchInv(g)
<1>1. s \in f.visiting /\ s \in DOMAIN f.needs /\ s \notin f.visited
  BY DEF SearchInv, SearchTyped, OnPath
<1>2. f.needs[s] \subseteq f.visited
  BY DEF SearchInv, Explored
<1>3. SearchTyped(g)
  BY <1>1 DEF SearchInv, SearchTyped
<1>4. OnPath(g)
  <2>1. \A i \in 1..n : i \in 1..Len(f.stack) /\ f.stack[i].step # s
    BY DEF SearchInv, OnPath
  <2>2. f.visiting = {f.stack[i].step : i \in 1..n} \cup {s}
    <3>1. 1..Len(f.stack) = 1..n \cup {n + 1}
      OBVIOUS
    <3> QED
      BY <3>1 DEF SearchInv, OnPath
  <2>3. f.visiting \ {s} = {f.stack[i].step : i \in 1..n}
    BY <2>1, <2>2
  <2>4. {g.stack[i].step : i \in 1..n} = {f.stack[i].step : i \in 1..n}
    OBVIOUS
  <2>5. \A i, j \in 1..n : g.stack[i].step = g.stack[j].step => i = j
    BY <2>1 DEF SearchInv, OnPath
  <2>6. ASSUME NEW i \in 1..n - 1
        PROVE  g.stack[i + 1].step \in g.needs[g.stack[i].step]
    <3>1. i \in 1..n /\ i + 1 \in 1..n /\ i \in 1..Len(f.stack) - 1
      OBVIOUS
    <3> QED
      BY <3>1 DEF SearchInv, OnPath
  <2> QED
    BY <2>3, <2>4, <2>5, <2>6 DEF OnPath
<1>5. Explored(g)
  <2> SUFFICES ASSUME NEW i \in 1..n
               PROVE  /\ g.stack[i].rest \subseteq g.needs[g.stack[i].step]
                      /\ \A r \in g.needs[g.stack[i].step] :
                           r \in g.stack[i].rest \/ r \in g.visited
                             \/ (i < n /\ r = g.stack[i + 1].step)
    BY DEF Explored
  <2>1. CASE i = n
    BY <2>1 DEF SearchInv, Explored
  <2>2. CASE i < n
    <3>1. i + 1 \in 1..n /\ i \in 1..Len(f.stack)
      BY <2>2
    <3>2. g.stack[i] = f.stack[i] /\ g.stack[i + 1] = f.stack[i + 1]
      BY <3>1
    <3> QED
      BY <2>2, <3>1, <3>2 DEF SearchInv, Explored
  <2> QED
    BY <2>1, <2>2
<1>6. Done(g)
  <2>1. \A r \in g.visited : g.needs[r] \subseteq g.visited
    BY <1>2 DEF SearchInv, Done
  <2>2. ASSUME NEW C \in SUBSET g.visited, C # {}
        PROVE  \E r \in C : g.needs[r] \cap C = {}
    <3>1. CASE C = {s}
      BY <1>1, <1>2, <3>1
    <3>2. CASE C # {s}
      <4> DEFINE D == C \ {s}
      <4>1. D \in SUBSET f.visited /\ D # {}
        BY <2>2, <3>2
      <4>2. PICK r \in D : f.needs[r] \cap D = {}
        BY <4>1 DEF SearchInv, Done
      <4>3. f.needs[r] \subseteq f.visited
        BY <4>1, <4>2 DEF SearchInv, Done
      <4> QED
        BY <1>1, <4>2, <4>3
    <3> QED
      BY <3>1, <3>2
  <2> QED
    BY <2>1, <2>2 DEF Done
<1> QED
  BY <1>3, <1>4, <1>5, <1>6 DEF SearchInv

\* A dependency that is being visited closes a cycle: the part of the stack
\* from it upwards.
LEMMA CycleFound ==
  ASSUME NEW f, SearchInv(f), f.stack # <<>>,
         NEW s \in f.stack[Len(f.stack)].rest, s \in f.visiting
  PROVE  ~Acyclic(f.needs)
<1> DEFINE n == Len(f.stack)
<1>1. n \in Nat /\ n > 0
  BY DEF SearchInv, SearchTyped, SearchType
<1>2. PICK j \in 1..n : f.stack[j].step = s
  BY DEF SearchInv, OnPath
<1> DEFINE C == {f.stack[i].step : i \in j..n}
<1>3. C \in SUBSET DOMAIN f.needs
  <2>1. \A i \in j..n : f.stack[i].step \in f.visiting
    BY <1>1, <1>2 DEF SearchInv, OnPath
  <2> QED
    BY <2>1 DEF SearchInv, SearchTyped
<1>4. s \in C
  BY <1>1, <1>2
<1>5. \A r \in C : f.needs[r] \cap C # {}
  <2> SUFFICES ASSUME NEW i \in j..n
               PROVE  \E r \in C : r \in f.needs[f.stack[i].step]
    OBVIOUS
  <2>1. CASE i = n
    BY <1>1, <1>4, <2>1 DEF SearchInv, Explored
  <2>2. CASE i < n
    <3>1. i + 1 \in j..n /\ i \in 1..n - 1
      BY <1>1, <1>2, <2>2
    <3> QED
      BY <3>1 DEF SearchInv, OnPath
  <2> QED
    BY <1>1, <1>2, <2>1, <2>2
<1> QED
  BY <1>3, <1>4, <1>5 DEF Acyclic

-----------------------------------------------------------------------------
(* The actions *)

\* What a source needs is a graph on its own steps.
LEMMA DependenciesAreNeeds ==
  ASSUME NEW source \in Proposal, WellFormed(source.steps)
  PROVE  /\ Dependencies(source.steps) \in Needs
         /\ DOMAIN Dependencies(source.steps) = Ids(source.steps)
         /\ Ids(source.steps) \subseteq Step
         /\ \A s \in Ids(source.steps) :
              Dependencies(source.steps)[s] \subseteq Ids(source.steps)
<1> DEFINE steps == source.steps
           S == Ids(steps)
           D == Dependencies(steps)
<1>1. steps \in Seq(StepSource)
  BY RegistryAssumption DEF RegistryAssumption
<1>2. S \subseteq Step
  <2>1. \A i \in 1..Len(steps) : steps[i] \in StepSource
    BY <1>1
  <2>2. \A i \in 1..Len(steps) : steps[i].id \in Step
    BY <2>1 DEF StepSource
  <2> QED
    BY <2>2 DEF Ids
<1>3. \A i \in 1..Len(steps) : steps[i].dependencies \subseteq S
  BY DEF WellFormed
<1>4. D = [s \in S |->
             UNION {steps[i].dependencies : i \in {j \in 1..Len(steps) : steps[j].id = s}}]
  BY DEF Dependencies
<1> HIDE DEF steps, S, D
<1>5. \A s \in S :
        UNION {steps[i].dependencies : i \in {j \in 1..Len(steps) : steps[j].id = s}}
          \subseteq S
  BY <1>3
<1>6. D \in [S -> SUBSET S]
  BY <1>4, <1>5
<1>7. D \in Needs
  BY <1>2, <1>6 DEF Needs
<1> QED
  BY <1>2, <1>6, <1>7 DEF steps, S, D

LEMMA InitStep ==
  ASSUME RegistryInit
  PROVE  Inv
<1>1. NoDefinition \in Needs
  <2>1. NoDefinition \in [{} -> SUBSET {}]
    BY DEF NoDefinition
  <2> QED
    BY <2>1 DEF Needs
<1>2. Acyclic(NoDefinition)
  BY DEF Acyclic, NoDefinition
<1>3. NoSearch \in SearchType
  BY <1>1 DEF NoSearch, SearchType
<1>4. RegistryTypeOK
  BY <1>1, <1>3 DEF RegistryInit, RegistryTypeOK, NoSearch, Searching
<1>5. RegisteredIsAcyclic
  BY <1>2 DEF RegistryInit, RegisteredIsAcyclic
<1> QED
  BY <1>4, <1>5 DEF RegistryInit, Inv, NoSearch, Searching, CycleIsReal

LEMMA RegisterStep ==
  ASSUME Inv, NEW source \in Proposal, Register(source)
  PROVE  Inv'
<1> DEFINE steps == source.steps
<1>1. /\ Dependencies(steps) \in Needs
      /\ DOMAIN Dependencies(steps) = Ids(steps)
      /\ Ids(steps) \subseteq Step
      /\ \A s \in Ids(steps) : Dependencies(steps)[s] \subseteq Ids(steps)
  BY DependenciesAreNeeds DEF Register
<1>2. source.key \in Key
  BY RegistryAssumption DEF RegistryAssumption
<1>3. /\ search' = [pc |-> "searching", key |-> source.key,
                    needs |-> Dependencies(steps),
                    stack |-> <<>>, todo |-> Ids(steps),
                    visiting |-> {}, visited |-> {}]
      /\ definitions' = definitions
  BY DEF Register
<1> HIDE DEF steps
<1>4. search' \in SearchType
  BY <1>1, <1>2, <1>3 DEF SearchType
<1>5. SearchTyped(search')
  BY <1>1, <1>3, <1>4 DEF SearchTyped
<1>6. OnPath(search') /\ Explored(search') /\ Done(search')
  BY <1>3 DEF OnPath, Explored, Done
<1>7. RegistryTypeOK'
  BY <1>1, <1>2, <1>3, <1>4 DEF Inv, RegistryTypeOK
<1> QED
  BY <1>3, <1>5, <1>6, <1>7
     DEF Inv, SearchInv, RegisteredIsAcyclic, CycleIsReal

\* A step of the search keeps the invariant if it keeps what the search needs
\* and either finds a cycle there is or keeps the search's own invariant.
LEMMA SearchGoesOn ==
  ASSUME Inv, Searching, definitions' = definitions,
         search' \in SearchType, search'.needs = search.needs,
         search'.key = search.key,
         search'.todo \cup search'.visiting \cup search'.visited \subseteq DOMAIN search.needs,
         search'.pc = "cycle" => ~Acyclic(search.needs),
         search'.pc # "cycle" => SearchInv(search')
  PROVE  Inv'
<1>1. RegistryTypeOK'
  BY DEF Inv, RegistryTypeOK, Searching
<1> QED
  BY <1>1 DEF Inv, RegisteredIsAcyclic, CycleIsReal, Searching

\* A frame that is put on the stack: the record it gives.
LEMMA EnterTyped ==
  ASSUME NEW f \in SearchType, NEW s \in DOMAIN f.needs,
         f.needs[s] \subseteq DOMAIN f.needs
  PROVE  LET g == Enter(f, s)
         IN  /\ g \in SearchType
             /\ g.pc = f.pc /\ g.key = f.key /\ g.needs = f.needs /\ g.todo = f.todo
             /\ g.stack = Append(f.stack, [step |-> s, rest |-> f.needs[s]])
             /\ g.visiting = f.visiting \cup {s} /\ g.visited = f.visited
<1> DEFINE frame == [step |-> s, rest |-> f.needs[s]]
           g == Enter(f, s)
<1>1. DOMAIN f.needs \subseteq Step
  BY DEF SearchType, Needs
<1>2. frame \in Frame
  BY <1>1 DEF Frame
<1>3. /\ g.pc = f.pc /\ g.key = f.key /\ g.needs = f.needs /\ g.todo = f.todo
      /\ g.stack = Append(f.stack, frame)
      /\ g.visiting = f.visiting \cup {s} /\ g.visited = f.visited
  BY DEF Enter, SearchType
<1>4. Append(f.stack, frame) \in Seq(Frame)
  BY <1>2 DEF SearchType, Frame
<1>5. ASSUME NEW t \in Seq(Frame), NEW v \in SUBSET Step
      PROVE  [f EXCEPT !.stack = t, !.visiting = v] \in SearchType
  BY <1>5 DEF SearchType, Frame
<1>6. f.visiting \cup {s} \in SUBSET Step
  BY <1>1 DEF SearchType
<1>7. g = [f EXCEPT !.stack = Append(f.stack, frame), !.visiting = f.visiting \cup {s}]
  BY DEF Enter
<1> HIDE DEF g, frame
<1>8. g \in SearchType
  BY <1>4, <1>5, <1>6, <1>7
<1> QED
  BY <1>3, <1>8 DEF g, frame

LEMMA VisitStepStep ==
  ASSUME Inv, NEW s \in Step, VisitStep(s)
  PROVE  Inv'
<1> DEFINE f == search
           f0 == [search EXCEPT !.todo = @ \ {s}]
<1>1. SearchInv(f) /\ f \in SearchType /\ f.stack = <<>> /\ s \in f.todo /\ f.pc = "searching"
  BY DEF Inv, VisitStep, Searching, RegistryTypeOK
<1>2. f.visiting = {}
  BY <1>1 DEF SearchInv, OnPath
<1>3. s \in DOMAIN f.needs
  BY <1>1 DEF SearchInv, SearchTyped
<1>4. search' = IF s \in f.visited THEN f0 ELSE Enter(f0, s)
  BY <1>1, <1>2 DEF VisitStep, Visit, SearchType
<1>5. /\ f0 \in SearchType /\ f0.pc = "searching" /\ f0.key = f.key
      /\ f0.needs = f.needs /\ f0.stack = <<>> /\ f0.todo = f.todo \ {s}
      /\ f0.visiting = f.visiting /\ f0.visited = f.visited
  BY <1>1 DEF SearchType
<1> HIDE DEF f0
<1>6. CASE s \in f.visited
  <2>1. search' = f0
    BY <1>4, <1>6
  <2>2. Len(f0.stack) = 0 /\ Len(f.stack) = 0
    BY <1>1, <1>5
  <2>3. SearchInv(f0)
    BY <1>1, <1>5, <1>6, <2>2, PassKeepsInv
  <2> QED
    BY <1>1, <1>5, <2>1, <2>3, SearchGoesOn
       DEF VisitStep, SearchInv, SearchTyped
<1>7. CASE s \notin f.visited
  <2> DEFINE frame == [step |-> s, rest |-> f.needs[s]]
             g == Enter(f0, s)
  <2>1. search' = g
    BY <1>4, <1>7
  <2>2. f.needs[s] \subseteq DOMAIN f.needs
    BY <1>1, <1>3 DEF SearchInv, SearchTyped
  <2>3. /\ g \in SearchType
        /\ g.pc = "searching" /\ g.key = f.key /\ g.needs = f.needs
        /\ g.stack = Append(<<>>, frame) /\ g.todo = f.todo \ {s}
        /\ g.visiting = f.visiting \cup {s} /\ g.visited = f.visited
    BY <1>3, <1>5, <2>2, EnterTyped
  <2> HIDE DEF g
  <2>4. Len(f.stack) = 0 /\ Len(g.stack) = 1
    BY <1>1, <2>3
  <2>5. /\ g.stack[Len(f.stack) + 1].step = s
        /\ g.stack[Len(f.stack) + 1].rest = f.needs[s]
    BY <2>3, <2>4
  <2>6. Len(g.stack) = Len(f.stack) + 1
    BY <2>4
  <2>7. /\ \A i \in 1..Len(f.stack) : FALSE
        /\ Len(f.stack) > 0 => s \in f.needs[f.stack[Len(f.stack)].step]
    BY <2>4
  <2>8. \A i \in 1..Len(f.stack) :
           /\ g.stack[i].step = f.stack[i].step
           /\ g.stack[i].rest \subseteq f.stack[i].rest
           /\ \A r \in f.stack[i].rest :
                r \in g.stack[i].rest \/ (i = Len(f.stack) /\ r = s)
    BY <2>7
  <2>9. /\ g.todo \subseteq f.todo /\ f.todo \subseteq g.todo \cup {s}
        /\ s \notin f.visiting
    BY <1>2, <2>3
  <2>10. SearchInv(f)
    BY <1>1
  <2>11. /\ g \in SearchType /\ g.needs = f.needs
         /\ g.visiting = f.visiting \cup {s} /\ g.visited = f.visited
    BY <2>3
  <2>12. SearchInv(g)
    <3> HIDE DEF f, f0, frame
    <3> QED
      BY <1>3, <1>7, <2>5, <2>6, <2>7, <2>8, <2>9, <2>10, <2>11, EnterKeepsInv
  <2> QED
    BY <1>1, <2>1, <2>3, <2>12, SearchGoesOn
       DEF VisitStep, SearchInv, SearchTyped
<1> QED
  BY <1>6, <1>7

LEMMA VisitReturnsStep ==
  ASSUME Inv, VisitReturns
  PROVE  Inv'
<1> DEFINE f == search
           n == Len(search.stack) - 1
           s == Top.step
           g == Leave(s)
<1>1. SearchInv(f) /\ f \in SearchType /\ f.pc = "searching" /\ search' = g
  BY DEF Inv, VisitReturns, Searching, RegistryTypeOK
<1>2. f.stack \in Seq(Frame) /\ f.stack # <<>>
  BY <1>1 DEF VisitReturns, SearchType, Frame
<1>3. n \in Nat /\ Len(f.stack) = n + 1
  BY <1>2
<1>4. /\ f.stack[n + 1].step = s /\ f.stack[n + 1].rest = {} /\ s \in Step
  <2>1. /\ f.stack[Len(f.stack)] \in Frame
        /\ f.stack[Len(f.stack)].step = s /\ f.stack[Len(f.stack)].rest = {}
    BY <1>2, <1>3 DEF VisitReturns, Top
  <2> QED
    BY <1>3, <2>1 DEF Frame
<1>5. /\ SubSeq(f.stack, 1, n) \in Seq(Frame)
      /\ Len(SubSeq(f.stack, 1, n)) = n
      /\ \A i \in 1..n : SubSeq(f.stack, 1, n)[i] = f.stack[i]
  BY <1>2, <1>3
<1>6. /\ g.pc = "searching" /\ g.key = f.key /\ g.needs = f.needs
      /\ g.stack = SubSeq(f.stack, 1, n) /\ g.todo = f.todo
      /\ g.visiting = f.visiting \ {s} /\ g.visited = f.visited \cup {s}
  BY <1>1 DEF Leave, SearchType
<1>7. g \in SearchType
  BY <1>1, <1>4, <1>5 DEF Leave, SearchType, Frame
<1> HIDE DEF g, n, s
<1>8. SearchInv(g)
  BY <1>1, <1>3, <1>4, <1>5, <1>6, <1>7, LeaveKeepsInv
<1> QED
  BY <1>1, <1>6, <1>7, <1>8, SearchGoesOn
     DEF VisitReturns, SearchInv, SearchTyped

\* What is left of the topmost frame after the loop goes on to s.
LEMMA NextDependency ==
  ASSUME NEW f \in SearchType, f.stack # <<>>,
         NEW s \in f.stack[Len(f.stack)].rest
  PROVE  LET n == Len(f.stack)
             g == [f EXCEPT !.stack[Len(f.stack)].rest = @ \ {s}]
         IN  /\ g \in SearchType
             /\ g.pc = f.pc /\ g.key = f.key /\ g.needs = f.needs /\ g.todo = f.todo
             /\ g.visiting = f.visiting /\ g.visited = f.visited
             /\ Len(g.stack) = n
             /\ \A i \in 1..n :
                  /\ g.stack[i].step = f.stack[i].step
                  /\ g.stack[i].rest =
                       IF i = n THEN f.stack[i].rest \ {s} ELSE f.stack[i].rest
<1> DEFINE n == Len(f.stack)
           t == [f.stack EXCEPT ![Len(f.stack)].rest = @ \ {s}]
           g == [f EXCEPT !.stack[Len(f.stack)].rest = @ \ {s}]
<1>1. f.stack \in Seq(Frame) /\ n \in Nat /\ n \in 1..n
  BY DEF SearchType, Frame
<1>2. \A i \in 1..n : f.stack[i] \in Frame
  BY <1>1
<1>3. /\ t \in Seq(Frame) /\ Len(t) = n
      /\ \A i \in 1..n :
           t[i] = IF i = n THEN [f.stack[i] EXCEPT !.rest = @ \ {s}] ELSE f.stack[i]
  <2> DEFINE top == [f.stack[n] EXCEPT !.rest = @ \ {s}]
  <2>1. top \in Frame
    BY <1>1, <1>2 DEF Frame
  <2>2. t = [f.stack EXCEPT ![n] = top]
    OBVIOUS
  <2>3. ASSUME NEW fr \in Frame, NEW q \in Seq(Frame), NEW m \in 1..Len(q)
        PROVE  LET u == [q EXCEPT ![m] = fr]
               IN  /\ u \in Seq(Frame) /\ Len(u) = Len(q)
                   /\ \A i \in 1..Len(q) : u[i] = IF i = m THEN fr ELSE q[i]
    OBVIOUS
  <2>4. \A i \in 1..n : i = n => f.stack[i] = f.stack[n]
    OBVIOUS
  <2>5. SUFFICES /\ t \in Seq(Frame) /\ Len(t) = n
                 /\ \A i \in 1..n : t[i] = IF i = n THEN top ELSE f.stack[i]
    BY <2>4
  <2> HIDE DEF t, top
  <2> QED
    BY <1>1, <2>1, <2>2, <2>3
<1>r. \A fr \in Frame : /\ [fr EXCEPT !.rest = @ \ {s}].step = fr.step
                        /\ [fr EXCEPT !.rest = @ \ {s}].rest = fr.rest \ {s}
  BY DEF Frame
<1> HIDE DEF t
<1>4. \A i \in 1..n :
        /\ t[i].step = f.stack[i].step
        /\ t[i].rest = IF i = n THEN f.stack[i].rest \ {s} ELSE f.stack[i].rest
  BY <1>2, <1>3, <1>r
<1>5. g = [f EXCEPT !.stack = t]
  BY DEF t
<1> HIDE DEF g
<1>6. ASSUME NEW u \in Seq(Frame)
      PROVE  LET h == [f EXCEPT !.stack = u]
             IN  /\ h \in SearchType
                 /\ h.pc = f.pc /\ h.key = f.key /\ h.needs = f.needs /\ h.todo = f.todo
                 /\ h.visiting = f.visiting /\ h.visited = f.visited /\ h.stack = u
  BY <1>6 DEF SearchType, Frame
<1>7. /\ g \in SearchType
      /\ g.pc = f.pc /\ g.key = f.key /\ g.needs = f.needs /\ g.todo = f.todo
      /\ g.visiting = f.visiting /\ g.visited = f.visited /\ g.stack = t
  BY <1>3, <1>5, <1>6
<1>8. /\ Len(g.stack) = n
      /\ \A i \in 1..n :
           /\ g.stack[i].step = f.stack[i].step
           /\ g.stack[i].rest = IF i = n THEN f.stack[i].rest \ {s} ELSE f.stack[i].rest
  BY <1>3, <1>4, <1>7
<1> HIDE DEF n
<1> QED
  BY <1>7, <1>8 DEF g, n

LEMMA VisitDependencyStep ==
  ASSUME Inv, NEW s \in Step, VisitDependency(s)
  PROVE  Inv'
<1> DEFINE f == search
           n == Len(search.stack)
           g == [search EXCEPT !.stack[Len(search.stack)].rest = @ \ {s}]
<1>1. /\ SearchInv(f) /\ f \in SearchType /\ f.stack # <<>> /\ f.pc = "searching"
      /\ s \in f.stack[Len(f.stack)].rest
  BY DEF Inv, VisitDependency, Searching, RegistryTypeOK, Top
<1>2. n \in Nat /\ n > 0
  BY <1>1 DEF SearchType
<1>3. s \in f.needs[f.stack[n].step] /\ s \in DOMAIN f.needs /\ f.needs[s] \subseteq DOMAIN f.needs
  <2>1. n \in 1..n
    BY <1>2
  <2>2. f.stack[n].step \in DOMAIN f.needs
    BY <2>1, <1>1 DEF SearchInv, SearchTyped, OnPath
  <2>3. s \in f.needs[f.stack[n].step]
    BY <2>1, <1>1 DEF SearchInv, Explored
  <2> QED
    BY <2>2, <2>3, <1>1 DEF SearchInv, SearchTyped
<1>4. /\ g \in SearchType
      /\ g.pc = f.pc /\ g.key = f.key /\ g.needs = f.needs /\ g.todo = f.todo
      /\ g.visiting = f.visiting /\ g.visited = f.visited
      /\ Len(g.stack) = n
      /\ \A i \in 1..n :
           /\ g.stack[i].step = f.stack[i].step
           /\ g.stack[i].rest = IF i = n THEN f.stack[i].rest \ {s} ELSE f.stack[i].rest
  BY <1>1, NextDependency
<1>5. search' = Visit(g, s) /\ definitions' = definitions /\ Inv /\ Searching
  BY DEF VisitDependency
<1>6. f.todo \cup f.visiting \cup f.visited \subseteq DOMAIN f.needs
  BY <1>1 DEF SearchInv, SearchTyped
<1> HIDE DEF g, n
<1>7. CASE s \in f.visiting
  <2>1. search' = [g EXCEPT !.pc = "cycle"]
    BY <1>4, <1>5, <1>7 DEF Visit
  <2>2. /\ search' \in SearchType /\ search'.pc = "cycle"
        /\ search'.needs = f.needs /\ search'.key = f.key
        /\ search'.todo = f.todo /\ search'.visiting = f.visiting
        /\ search'.visited = f.visited
    BY <1>4, <2>1 DEF SearchType
  <2>3. ~Acyclic(f.needs)
    BY <1>1, <1>7, CycleFound
  <2> QED
    BY <1>5, <1>6, <2>2, <2>3, SearchGoesOn
<1>8. CASE s \in f.visited
  <2>1. s \notin f.visiting
    BY <1>1, <1>8 DEF SearchInv, SearchTyped
  <2>2. search' = g
    BY <1>4, <1>5, <1>8, <2>1 DEF Visit
  <2>3. SearchInv(g)
    <3>1. \A i \in 1..n :
            /\ g.stack[i].step = f.stack[i].step
            /\ g.stack[i].rest \subseteq f.stack[i].rest
            /\ f.stack[i].rest \subseteq g.stack[i].rest \cup {s}
      BY <1>4
    <3>2. n = Len(f.stack) /\ SearchInv(f)
      BY <1>1 DEF n
    <3> HIDE DEF f
    <3> QED
      BY <1>4, <1>8, <3>1, <3>2, PassKeepsInv
  <2> QED
    BY <1>1, <1>4, <1>5, <1>6, <2>2, <2>3, SearchGoesOn
<1>9. CASE s \notin f.visiting /\ s \notin f.visited
  <2> DEFINE frame == [step |-> s, rest |-> f.needs[s]]
             h == Enter(g, s)
  <2>1. search' = h
    BY <1>4, <1>5, <1>9 DEF Visit
  <2>2. /\ h \in SearchType
        /\ h.pc = f.pc /\ h.key = f.key /\ h.needs = f.needs /\ h.todo = f.todo
        /\ h.stack = Append(g.stack, frame)
        /\ h.visiting = f.visiting \cup {s} /\ h.visited = f.visited
    BY <1>3, <1>4, EnterTyped
  <2> HIDE DEF h
  <2>3. g.stack \in Seq(Frame)
    BY <1>4 DEF SearchType, Frame
  <2>4. /\ Len(h.stack) = n + 1 /\ h.stack[n + 1] = frame
        /\ \A i \in 1..n : h.stack[i] = g.stack[i]
    BY <1>2, <1>4, <2>2, <2>3
  <2>5. h.stack[n + 1].step = s /\ h.stack[n + 1].rest = f.needs[s]
    BY <2>4
  <2>6. \A i \in 1..n :
           /\ h.stack[i].step = f.stack[i].step
           /\ h.stack[i].rest \subseteq f.stack[i].rest
           /\ \A r \in f.stack[i].rest :
                r \in h.stack[i].rest \/ (i = n /\ r = s)
    BY <1>4, <2>4
  <2>7. n = Len(f.stack) /\ SearchInv(f)
    BY <1>1 DEF n
  <2>8. SearchInv(h)
    <3> HIDE DEF f, frame
    <3>1. /\ h \in SearchType /\ h.needs = f.needs
          /\ h.todo \subseteq f.todo /\ f.todo \subseteq h.todo \cup {s}
          /\ h.visiting = f.visiting \cup {s} /\ h.visited = f.visited
      BY <2>2
    <3>2. /\ Len(h.stack) = Len(f.stack) + 1
          /\ h.stack[Len(f.stack) + 1].step = s
          /\ h.stack[Len(f.stack) + 1].rest = f.needs[s]
      BY <2>4, <2>5, <2>7
    <3>3. \A i \in 1..Len(f.stack) :
           /\ h.stack[i].step = f.stack[i].step
           /\ h.stack[i].rest \subseteq f.stack[i].rest
           /\ \A r \in f.stack[i].rest :
                r \in h.stack[i].rest \/ (i = Len(f.stack) /\ r = s)
      BY <2>6, <2>7
    <3>4. s \in f.needs[f.stack[Len(f.stack)].step] /\ s \in DOMAIN f.needs
      BY <1>3, <2>7
    <3> QED
      BY <1>9, <2>7, <3>1, <3>2, <3>3, <3>4, EnterKeepsInv
  <2> QED
    BY <1>1, <1>3, <1>5, <1>6, <2>1, <2>2, <2>8, SearchGoesOn
<1> QED
  BY <1>7, <1>8, <1>9

LEMMA RegisteredStep ==
  ASSUME Inv, Registered
  PROVE  Inv'
<1>1. SearchInv(search) /\ search \in SearchType /\ search.key \in Key
  BY DEF Inv, Registered, Searching, RegistryTypeOK
<1>2. search.visited = DOMAIN search.needs
  <2>1. search.stack = <<>> /\ search.todo = {}
    BY DEF Registered
  <2>2. search.visiting = {}
    BY <1>1, <2>1 DEF SearchInv, OnPath
  <2> QED
    BY <1>1, <2>1, <2>2 DEF SearchInv, SearchTyped
<1>3. Acyclic(search.needs)
  BY <1>1, <1>2 DEF SearchInv, Done, Acyclic
<1>4. search.needs \in Needs
  BY <1>1 DEF SearchType
<1>5. /\ definitions' \in [Key -> Needs]
      /\ \A k \in Key : definitions'[k] \in {definitions[k], search.needs}
  BY <1>1, <1>4 DEF Registered, Inv, RegistryTypeOK
<1>6. RegisteredIsAcyclic'
  BY <1>3, <1>5 DEF Inv, RegisteredIsAcyclic
<1>7. NoDefinition \in Needs
  <2>1. NoDefinition \in [{} -> SUBSET {}]
    BY DEF NoDefinition
  <2> QED
    BY <2>1 DEF Needs
<1>8. search' = NoSearch /\ NoSearch \in SearchType
  BY <1>7 DEF Registered, NoSearch, SearchType
<1> QED
  BY <1>5, <1>6, <1>8 DEF Inv, NoSearch, RegistryTypeOK, CycleIsReal, Searching

-----------------------------------------------------------------------------
(* The theorems *)

LEMMA RegistryInvariance == RegistrySpec => []Inv
<1>1. RegistryInit => Inv
  BY InitStep
<1>2. Inv /\ [RegistryNext]_registryVars => Inv'
  <2> SUFFICES ASSUME Inv, [RegistryNext]_registryVars
               PROVE  Inv'
    OBVIOUS
  <2>1. CASE RegistryNext
    BY <2>1, RegisterStep, VisitStepStep, VisitDependencyStep, VisitReturnsStep,
       RegisteredStep DEF RegistryNext
  <2>2. CASE UNCHANGED registryVars
    BY <2>2 DEF registryVars, Inv, RegistryTypeOK, RegisteredIsAcyclic, CycleIsReal, Searching
  <2> QED
    BY <2>1, <2>2
<1> QED
  BY <1>1, <1>2, PTL DEF RegistrySpec

\* The steps of a registered workflow can be done in some order, for any
\* number of steps and any dependencies (assertAcyclic lets nothing else pass).
THEOREM RegistryAcyclic == RegistrySpec => []RegisteredIsAcyclic
BY RegistryInvariance, PTL DEF Inv

\* assertAcyclic refuses a workflow only for a cycle that is in it.
THEOREM RefusedForACycle == RegistrySpec => []CycleIsReal
BY RegistryInvariance, PTL DEF Inv

=============================================================================
