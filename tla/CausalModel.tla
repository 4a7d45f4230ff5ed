----------------------------- MODULE CausalModel -----------------------------
(***************************************************************************)
(* The causal graph of phionyx_core/causality and the blocks that keep and *)
(* use it.  The block factory builds one CausalGraphBuilder and hands its  *)
(* live graph to the intervention model, the simulator and the analyzers,  *)
(* for all sessions; no block awaits while it works on it.                 *)
(*                                                                         *)
(* The strength of a link is left out: a link renewed often enough may be  *)
(* found strong enough for a promotion.  Variables are numbers, in the     *)
(* alphabetical order of their names.                                      *)
(***************************************************************************)
EXTENDS Integers, FiniteSets, Sequences, SequencesExt

CONSTANTS
    VariableCount,   \* number of variables; they are 1, 2, ... by the alphabet
    KnownLinks,      \* known_links of add_physics_variables, in its order
    ObservationPairs, \* OBSERVATION_PAIRS of the block, in its order
    MaxNodes,        \* max_nodes
    MinObservations, \* min_observations of a promotion
    WarmUp,          \* calls before a node has pc_min_observations
    AnyCaller,       \* whether others than the blocks add links
    MaxGraphCalls    \* bound: calls of the builder and the simulator

ASSUME CausalAssumption ==
    /\ VariableCount \in Nat
    /\ MaxNodes \in Nat /\ MinObservations \in Nat \ {0}
    /\ WarmUp \in Nat /\ AnyCaller \in BOOLEAN

Variables == 1 .. VariableCount

ASSUME LinksAssumption ==
    /\ ObservationPairs \in Seq(Variables \X Variables)
    /\ KnownLinks \in Seq([from : Variables, to : Variables,
                           mechanism : {"direct", "mediated"}])

VARIABLES
    nodes,      \* keys of graph.nodes
    edges,      \* graph.edges: from pairs to what is known of the link
    simulated,  \* nodes whose current_value a simulation wrote last
    forced,     \* history: variables some simulation has forced
    graphCalls  \* calls so far

cvars == <<nodes, edges, simulated, forced, graphCalls>>

CausalInit ==
    /\ nodes = {}
    /\ edges = [l \in {} |-> l]
    /\ simulated = {} /\ forced = {}
    /\ graphCalls = 0

Along(arrows, known) == {v \in Variables : \E u \in known : <<u, v>> \in arrows}

\* get_descendants, what one or more of the arrows lead to: the least set that
\* holds what arrows lead to from there and from itself.
Downstream(arrows, from) ==
    {v \in Variables :
        \A S \in SUBSET Variables : Along(arrows, from \cup S) \subseteq S => v \in S}

-----------------------------------------------------------------------------
(* CausalGraphBuilder.  A graph is a record of its nodes and its edges; an *)
(* operator returns the graphs that the numbers left out may lead to.      *)

\* add_node: beyond max_nodes a node is returned but not registered.
Registered(known, v) ==
    IF v \in known \/ Cardinality(known) < MaxNodes THEN known \cup {v} ELSE known

\* Mutant of WouldCreateCycle: only the reverse link counts.
BugWouldCreateCycle(es, a, b) == a = b \/ <<b, a>> \in DOMAIN es

\* add_causal_link refuses loops, and links whose target leads to the source.
WouldCreateCycle(es, a, b) == a = b \/ a \in Downstream(DOMAIN es, {b})

\* A link seen again keeps its mechanism, unless it was only observed and has
\* now been seen often enough to be promoted.
Renewed(edge) ==
    LET seen == IF edge.seen < MinObservations THEN edge.seen + 1 ELSE edge.seen
    IN  {[mechanism |-> m, seen |-> seen] :
            m \in IF edge.mechanism = "observed" /\ seen >= MinObservations
                  THEN {"observed", "direct"} ELSE {edge.mechanism}}

\* add_causal_link, which registers both nodes before it looks at anything.
Linked(g, a, b, mechanism) ==
    LET known == Registered(Registered(g.nodes, a), b)
        l == <<a, b>>
        new == IF l \in DOMAIN g.edges THEN Renewed(g.edges[l])
                                       ELSE {[mechanism |-> mechanism, seen |-> 1]}
    IN  {[nodes |-> known, edges |-> es] :
            es \in IF WouldCreateCycle(g.edges, a, b) THEN {g.edges}
                   ELSE {[k \in DOMAIN g.edges \cup {l} |->
                             IF k = l THEN e ELSE g.edges[k]] : e \in new}}

Alphabetical(pair) == IF pair[1] < pair[2] THEN pair ELSE <<pair[2], pair[1]>>

\* observe_co_occurrence without a direction hint: the nodes as they come, the
\* link by the alphabet.
Observed(g, a, b) ==
    LET known == Registered(Registered(g.nodes, a), b)
        l == Alphabetical(<<a, b>>)
    IN  Linked([g EXCEPT !.nodes = known], l[1], l[2], "observed")

\* One round of a loop that adds links.  Those of the formulas are for nodes
\* that are registered, observations are of variables with values, and what
\* was discovered and contradicts a link of the graph is passed over.
Attempted(x, l, loop, seen) ==
    CASE loop = "known" /\ {l.from, l.to} \subseteq x.nodes ->
            Linked(x, l.from, l.to, l.mechanism)
      [] loop = "observed" /\ {l.from, l.to} \subseteq seen ->
            Observed(x, l.from, l.to)
      [] loop = "discovered" /\ <<l.to, l.from>> \notin DOMAIN x.edges ->
            Linked(x, l.from, l.to, l.mechanism)
      [] OTHER -> {x}

\* What such a loop makes of a set of graphs.
AllLinked(gs, links, loop, seen) ==
    LET after[k \in 0 .. Len(links)] ==
            IF k = 0 THEN gs
            ELSE UNION {Attempted(x, links[k], loop, seen) : x \in after[k - 1]}
    IN  after[Len(links)]

\* Pairs as links that were observed.
LinksOf(pairs) ==
    [i \in DOMAIN pairs |->
        [from |-> pairs[i][1], to |-> pairs[i][2], mechanism |-> "observed"]]

\* All are registered, in some order, or as many as there is room for.
Filled(known, values) ==
    {ns \in SUBSET (known \cup values) :
        /\ known \subseteq ns
        /\ ns = known \cup values \/ Cardinality(ns) >= MaxNodes
        /\ ns = known \/ Cardinality(ns) <= MaxNodes}

\* add_physics_variables: the nodes, then the links among those registered.
PhysicsAdded(g, values) ==
    AllLinked({[g EXCEPT !.nodes = ns] : ns \in Filled(g.nodes, values)},
              KnownLinks, "known", Variables)

-----------------------------------------------------------------------------
(* PCAlgorithm.discover.  The skeleton (the pairs that stay dependent) and *)
(* the separating sets come out of the numbers and are arbitrary here.     *)

\* The pairs and the triples of indices in the order of nested loops.
IndexPairs == [n \in 1 .. VariableCount ^ 2 |->
             <<((n - 1) \div VariableCount) + 1, ((n - 1) % VariableCount) + 1>>]
IndexTriples == [n \in 1 .. VariableCount ^ 3 |->
                [k |-> ((n - 1) \div VariableCount ^ 2) + 1,
                 i |-> (((n - 1) \div VariableCount) % VariableCount) + 1,
                 j |-> ((n - 1) % VariableCount) + 1]]

Leads(arrows, a, b) == a = b \/ b \in Downstream(arrows, {a})

Adjacent(skeleton, a, b) == <<a, b>> \in skeleton \/ <<b, a>> \in skeleton

Undirected(arrows, p) == arrows \cap {p, <<p[2], p[1]>>} = {}

\* Rule 1: k gets arrows from i and j; they replace arrows set before.
Collide(arrows, c) ==
    (arrows \ {<<c.k, c.i>>, <<c.k, c.j>>}) \cup {<<c.i, c.k>>, <<c.j, c.k>>}

\* _orient_edges: colliders first, then links that the graph does not merely
\* observe, then by the alphabet unless that way there is a path already.
Oriented(skeleton, colliders, es) ==
    LET hint(arrows, p) ==
            IF /\ Adjacent(skeleton, p[1], p[2]) /\ Undirected(arrows, p)
               /\ p \in DOMAIN es /\ es[p].mechanism # "observed"
            THEN arrows \cup {p} ELSE arrows
        rest(arrows, p) ==
            CASE ~(p \in skeleton /\ Undirected(arrows, p)) -> arrows
              [] ~Leads(arrows, p[1], p[2]) -> arrows \cup {p}
              [] ~Leads(arrows, p[2], p[1]) -> arrows \cup {<<p[2], p[1]>>}
              [] OTHER -> arrows
        met == SelectSeq(IndexTriples, LAMBDA c : c \in colliders)
        turned == FoldLeft(rest, FoldLeft(hint, FoldLeft(Collide, {}, met), IndexPairs),
                           IndexPairs)
    IN  {p \in Variables \X Variables :
            p \in turned /\ Adjacent(skeleton, p[1], p[2])}

Skeletons(known) == SUBSET {l \in known \X known : l[1] < l[2]}

\* Triples i - k - j of a skeleton whose ends are not adjacent.
Triples(skeleton) ==
    {c \in [i : Variables, k : Variables, j : Variables] :
        /\ c.i < c.j /\ ~Adjacent(skeleton, c.i, c.j)
        /\ Adjacent(skeleton, c.i, c.k) /\ Adjacent(skeleton, c.j, c.k)}

\* The triples whose middle may lie outside the separating set of the ends.
Findings(known) ==
    UNION {{[skeleton |-> s, colliders |-> cs] : cs \in SUBSET Triples(s)} :
              s \in Skeletons(known)}

\* The orders that confidences may put what was discovered in.
Orders(found) ==
    {o \in [1 .. Cardinality(found) -> found] :
        \A i, j \in DOMAIN o : o[i] = o[j] => i = j}

\* discover_structure: one link after the other.
Merged(g, found) ==
    UNION {AllLinked({g}, LinksOf(o), "discovered", Variables) : o \in Orders(found)}

\* Discovery runs among the registered nodes, if enough was observed of them.
Discovered(g) ==
    {g} \cup (IF graphCalls < WarmUp THEN {}
             ELSE UNION {Merged(g, found) :
                    found \in {Oriented(f.skeleton, f.colliders, g.edges) :
                                  f \in Findings(g.nodes)}})

-----------------------------------------------------------------------------

Graph == [nodes |-> nodes, edges |-> edges]

MayCall ==
    /\ graphCalls < MaxGraphCalls
    /\ graphCalls' = graphCalls + 1

\* What the block finds: the values it sees, those the physics state has other
\* than zero, and whether there is a physics state at all; the rest are its
\* zeros and the results of the phi and entropy blocks.
Readings ==
    {r \in [seen : SUBSET Variables, physics : SUBSET Variables, state : BOOLEAN] :
        r.physics \subseteq r.seen /\ (r.state \/ r.physics = {})}

\* The physics state, then the pairs with both values.
Updates(r) ==
    LET begun == IF r.state THEN PhysicsAdded(Graph, r.physics) ELSE {Graph}
        met == {i \in DOMAIN ObservationPairs :
                   {ObservationPairs[i][1], ObservationPairs[i][2]} \subseteq r.seen}
        read == r.physics \cup
                UNION {{ObservationPairs[i][1], ObservationPairs[i][2]} : i \in met}
    IN  {[graph |-> x, read |-> read] :
            x \in AllLinked(begun, LinksOf(ObservationPairs), "observed", r.seen)}

\* The block causal_graph_update, discovery included.  A reading makes the
\* current value of a registered node a real one again.
UpdateGraph ==
    /\ MayCall
    /\ \E update \in UNION {Updates(r) : r \in Readings} :
         /\ \E g \in Discovered(update.graph) : nodes' = g.nodes /\ edges' = g.edges
         /\ simulated' = simulated \ update.read
    /\ UNCHANGED forced

\* add_causal_link by any other caller, and import_from_graph_engine_edges,
\* which calls it for one edge after the other.
AddLink ==
    /\ AnyCaller
    /\ MayCall
    /\ \E a, b \in Variables, mechanism \in {"direct", "mediated"} :
         \E g \in Linked(Graph, a, b, mechanism) : nodes' = g.nodes /\ edges' = g.edges
    /\ UNCHANGED <<simulated, forced>>

\* Mutant of Touched: an effect goes to the parents.
BugTouched(variable, carrying) ==
    {v \in Variables : variable \in Downstream(carrying, {v})}

\* InterventionModel.do: what it touches, along the links that carry an effect
\* over the threshold.  Links may end in nodes that are not registered.
Touched(variable, carrying) ==
    IF variable \in nodes THEN Downstream(carrying, {variable}) ELSE {}

\* CausalSimulator.simulate_step, and the block causal_simulation, whose
\* preview simulates as well: the values go into the live graph.
Simulate ==
    /\ MayCall
    /\ \E values \in SUBSET Variables \ {{}} :
         /\ \E carrying \in [values -> SUBSET DOMAIN edges] :
              LET touched == UNION {Touched(v, carrying[v]) : v \in values}
              IN  simulated' = simulated \cup (nodes \cap (values \cup touched))
         /\ forced' = forced \cup values
    /\ UNCHANGED <<nodes, edges>>

CausalNext == UpdateGraph \/ AddLink \/ Simulate

CausalSpec == CausalInit /\ [][CausalNext]_cvars

-----------------------------------------------------------------------------
(***************************************************************************)
(* The graph is acyclic whatever is observed, discovered, imported and     *)
(* added, also when discovery proposes a cycle: an intervention never      *)
(* comes back to the variable it forces, and the order of the nodes is     *)
(* never that of a graph with a cycle.  causal_graph.py:669-674.           *)
(***************************************************************************)
Acyclic == \A v \in Variables : v \notin Downstream(DOMAIN edges, {v})

(***************************************************************************)
(* Only variables that were forced, and what lies downstream of them in    *)
(* the graph of now, carry simulated values: never a cause of what was     *)
(* forced, although the graph has grown since.  intervention.py:263-318,   *)
(* simulator.py:164-201.                                                   *)
(***************************************************************************)
EffectsFlowDownstream ==
    simulated \subseteq forced \cup Downstream(DOMAIN edges, forced)

(***************************************************************************)
(* The graph never says the opposite of the formulas: "Known causal        *)
(* relationships in Phionyx physics: ... valence -> amplitude",            *)
(* causal_graph.py:547-551.                                                *)
(***************************************************************************)
KnownDirections ==
    \A i \in DOMAIN KnownLinks : <<KnownLinks[i].to, KnownLinks[i].from>> \notin DOMAIN edges
=============================================================================
