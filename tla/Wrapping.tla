-------------------------------- MODULE Wrapping --------------------------------
(***************************************************************************)
(* How mounts of the hook share a provider with each other and with other  *)
(* adapters.  A mount replaces the provider's complete and request_budget  *)
(* by wrappers of its own, once, under a flag; its cleanup puts back what  *)
(* it found, as far as its wrappers are still the ones installed.          *)
(***************************************************************************)
EXTENDS Naturals, Sequences, FiniteSets, SequencesExt

CONSTANTS
    Mounts,        \* mounts of the hook that meet this provider
    Adapters,      \* anything else that wraps a provider's methods (external)
    HasBudget      \* the provider has a request_budget

WrappingAssumption ==
    /\ IsFiniteSet(Mounts) /\ IsFiniteSet(Adapters)
    /\ Mounts \cap Adapters = {} /\ HasBudget \in BOOLEAN

VARIABLES
    life,        \* each mount: "no", "on", "gone"
    methods,     \* complete and budget: who wraps them, innermost first
    flag,        \* _WRAPPED_FLAG
    before,      \* what a mount or an adapter found
    installed,   \* what it left, or Nothing
    covered      \* history: adapters that have wrapped a mount's wrapper

vars == <<life, methods, flag, before, installed, covered>>

Who == Mounts \cup Adapters
Fields == IF HasBudget THEN {"complete", "budget"} ELSE {"complete"}
Stacks == {s \in UNION {[1 .. n -> Who] : n \in 0 .. Cardinality(Who)} : IsInjective(s)}
Bare == [field \in Fields |-> <<>>]
Nothing == [field \in {} |-> <<>>]

Init ==
    /\ life = [m \in Mounts |-> "no"]
    /\ methods = Bare /\ flag = FALSE
    /\ before = [w \in Who |-> Nothing] /\ installed = [w \in Who |-> Nothing]
    /\ covered = {}

On(field) == ToSet(methods[field]) \cap Mounts
Reachable == UNION {On(field) : field \in Fields}

\* mount registers its handlers; when a registration fails it takes back the others.
Mount(m) ==
    /\ life[m] = "no"
    /\ life' = [life EXCEPT ![m] = "on"]
    /\ UNCHANGED <<methods, flag, before, installed, covered>>

\* Mutant: the flag is not looked at.
WrapAgain(m) ==
    /\ life[m] = "on" /\ installed[m] = Nothing
    /\ before' = [before EXCEPT ![m] = methods]
    /\ methods' = [field \in Fields |-> Append(methods[field], m)]
    /\ installed' = [installed EXCEPT ![m] = methods']
    /\ flag' = TRUE
    /\ UNCHANGED <<life, covered>>

\* provider:request, with a tool that takes screenshots.  A flagged provider is
\* taken to be wrapped.
Wrap(m) ==
    /\ life[m] = "on" /\ ~flag
    /\ before' = [before EXCEPT ![m] = methods]
    /\ methods' = [field \in Fields |-> Append(methods[field], m)]
    /\ installed' = [installed EXCEPT ![m] = methods']
    /\ flag' = TRUE
    /\ UNCHANGED <<life, covered>>

\* Restored: each of its methods that is still the installed one.
Restored(w) ==
    [field \in Fields |->
       IF field \in DOMAIN installed[w] /\ methods[field] = installed[w][field]
       THEN before[w][field] ELSE methods[field]]

\* Mutant: only the handlers are taken back.
CleanupForgets(m) ==
    /\ life[m] = "on"
    /\ life' = [life EXCEPT ![m] = "gone"]
    /\ UNCHANGED <<methods, flag, before, installed, covered>>

\* Mutant: the flag is cleared in any case.
CleanupUnflags(m) ==
    /\ life[m] = "on"
    /\ life' = [life EXCEPT ![m] = "gone"]
    /\ methods' = Restored(m)
    /\ flag' = IF installed[m] # Nothing THEN FALSE ELSE flag
    /\ installed' = [installed EXCEPT ![m] = Nothing]
    /\ before' = [before EXCEPT ![m] = Nothing]
    /\ UNCHANGED covered

\* Mutant: what was found is put back, whatever is there now.
CleanupOverwrites(m) ==
    /\ life[m] = "on"
    /\ life' = [life EXCEPT ![m] = "gone"]
    /\ methods' = IF installed[m] = Nothing THEN methods ELSE before[m]
    /\ flag' = IF installed[m] # Nothing THEN FALSE ELSE flag
    /\ installed' = [installed EXCEPT ![m] = Nothing]
    /\ before' = [before EXCEPT ![m] = Nothing]
    /\ UNCHANGED covered

\* The cleanup of a mount: handlers first, then its wrappers; the flag goes only
\* if both of them were still in place.
Cleanup(m) ==
    /\ life[m] = "on"
    /\ life' = [life EXCEPT ![m] = "gone"]
    /\ methods' = Restored(m)
    /\ flag' = IF installed[m] # Nothing /\ methods = installed[m] THEN FALSE ELSE flag
    /\ installed' = [installed EXCEPT ![m] = Nothing]
    /\ before' = [before EXCEPT ![m] = Nothing]
    /\ UNCHANGED covered

\* An adapter wraps some of the methods, and later undoes it with the same care.
Adapt(a) ==
    /\ \A field \in Fields : a \notin ToSet(methods[field])
    /\ \E some \in (SUBSET Fields) \ {{}} :
         /\ before' = [before EXCEPT ![a] = [field \in some |-> methods[field]]]
         /\ methods' = [field \in Fields |->
                          IF field \in some THEN Append(methods[field], a) ELSE methods[field]]
         /\ installed' = [installed EXCEPT ![a] = [field \in some |-> methods'[field]]]
    /\ covered' = IF Reachable # {} THEN covered \cup {a} ELSE covered
    /\ UNCHANGED <<life, flag>>

Undo(a) ==
    /\ installed[a] # Nothing
    /\ methods' = Restored(a)
    /\ installed' = [installed EXCEPT ![a] = Nothing]
    /\ before' = [before EXCEPT ![a] = Nothing]
    /\ UNCHANGED <<life, flag, covered>>

Next ==
    \/ \E m \in Mounts : Mount(m) \/ Wrap(m) \/ Cleanup(m)
    \/ \E a \in Adapters : Adapt(a) \/ Undo(a)

Spec == Init /\ [][Next]_vars

-----------------------------------------------------------------------------
\* Every variable has its type.
TypeOK ==
    /\ life \in [Mounts -> {"no", "on", "gone"}] /\ flag \in BOOLEAN
    /\ methods \in [Fields -> Stacks]
    /\ \A w \in Who : DOMAIN before[w] \subseteq Fields /\ DOMAIN installed[w] \subseteq Fields
    /\ covered \subseteq Adapters

\* A request is projected at most once, however many mounts there are.
OneProjection == \A field \in Fields : Cardinality(On(field)) <= 1

\* The flag tells the truth: "do not ... clear the flag while those wrappers
\* remain reachable", nor leave it on a provider that has none.
FlagTruthful == flag <=> Reachable # {}

\* "Do not overwrite its methods": the cleanup of a mount never takes an adapter
\* off the provider.
AdaptersKept ==
    [][\A m \in Mounts : Cleanup(m) =>
         \A field \in Fields : ToSet(methods[field]) \cap Adapters = ToSet(methods'[field]) \cap Adapters]_vars

\* When all mounts are gone and nobody has wrapped over one, nothing is left.
LeftAsFound ==
    (\A m \in Mounts : life[m] # "on") /\ covered = {} => Reachable = {} /\ ~flag

\* "rather than silently blind it": a provider that a mount takes to be wrapped is
\* wrapped by one that is still mounted.  (Broken by a wrapper that an adapter kept.)
NeverBlind ==
    flag => \A field \in Fields : \E m \in On(field) : life[m] = "on"

\* What sharing a provider promises the other mounts and adapters.
ProviderShared ==
    [](TypeOK /\ OneProjection /\ FlagTruthful /\ LeftAsFound) /\ AdaptersKept
=============================================================================
