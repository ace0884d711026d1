----------------------------- MODULE Selection -----------------------------
(***************************************************************************)
(* What a request selects (src/refresh_engine/selectors.py, contracts.py,  *)
(* models.py, engine.py): applications combine selectors with &, | and ~,  *)
(* put them into requests, and the coordinator merges two requests into    *)
(* one that does the work of both (coordinator.py, coalesce).              *)
(*                                                                         *)
(* A selector is a tree of records.  Its operands never change, so what a  *)
(* combination of them matches is settled when it is made (`matched`);     *)
(* `meant` keeps, beside each selector that was combined, the resources    *)
(* that its formula says.                                                  *)
(***************************************************************************)
EXTENDS Naturals, Sequences, SequencesExt

CONSTANTS
    Resources,      \* the resources that were discovered
    Named,          \* the sets of IDs that requests name
    TagsOf,         \* resource -> what metadata["tags"] holds: a text, a
                    \*   collection, or nothing
    Leaves,         \* the selectors that applications begin with
    MaxOperators    \* bound: operators applied

LeafKinds == {"id", "tag", "predicate", "foreign"}
Combinations == {"all", "any", "not"}
ASSUME LeavesAssumption == \A s \in Leaves : s.kind \in LeafKinds

VARIABLES
    selector,       \* two selectors under construction, if any
    meant,          \* what each of them ought to match
    operators       \* for the bound

selectionVars == <<selector, meant, operators>>

----------------------------------------------------------------------------
(* Selectors *)

NoSelector == [kind |-> "none"]

\* Every class but a foreign one, which only has a matches() method, derives
\* from ResourceSelectorABC.
IsABC(s) == s.kind # "foreign"

\* TagSelector: a text is one tag, a collection holds tags, all else holds none.
Tags(r) ==
    CASE TagsOf[r].holds = "text" -> {TagsOf[r].value}
      [] TagsOf[r].holds = "collection" -> TagsOf[r].value
      [] TagsOf[r].holds = "nothing" -> {}

Tagged(s, r) ==
    IF s.match_all THEN s.tags \subseteq Tags(r) ELSE s.tags \cap Tags(r) # {}

Matches(s, r) ==
    CASE s.kind = "id" -> r \in s.ids
      [] s.kind = "tag" -> Tagged(s, r)
      [] s.kind \in {"predicate", "foreign"} -> r \in s.accepts
      [] s.kind \in Combinations -> r \in s.matched

MatchesAll(selectors) ==
    [kind |-> "all", selectors |-> selectors,
     matched |-> {r \in Resources : \A s \in ToSet(selectors) : Matches(s, r)}]
MatchesAny(selectors) ==
    [kind |-> "any", selectors |-> selectors,
     matched |-> {r \in Resources : \E s \in ToSet(selectors) : Matches(s, r)}]
MatchesNot(s) ==
    [kind |-> "not", selector |-> s,
     matched |-> {r \in Resources : ~Matches(s, r)}]

\* The operands of s if it is of the kind that is being built.
PartsOfAnyKind(s, kind) ==                                          \* mutant
    IF s.kind \in {"all", "any"} THEN s.selectors ELSE <<s>>
Parts(s, kind) == IF s.kind = kind THEN s.selectors ELSE <<s>>

AllOf(s, t) == MatchesAll(Parts(s, "all") \o Parts(t, "all"))
Union(s, t) == MatchesAny(Parts(s, "any") \o Parts(t, "any"))

AsABC(s) == IF IsABC(s) THEN s ELSE MatchesAll(<<s>>)

Negated(s) == IF s.kind = "not" THEN AsABC(s.selector) ELSE MatchesNot(s)

----------------------------------------------------------------------------
(* Applications combine selectors: s & t, s | t and ~s.  One of the operands *)
(* must know the operator.                                                   *)

SelectionInit ==
    /\ selector \in [1..2 -> Leaves]
    /\ meant = [i \in 1..2 |-> {r \in Resources : Matches(selector[i], r)}]
    /\ operators = 0

Becomes(i, s, meaning) ==
    /\ operators < MaxOperators /\ operators' = operators + 1
    /\ selector' = [selector EXCEPT ![i] = s]
    /\ meant' = [meant EXCEPT ![i] = meaning]

And(i, j) ==
    /\ IsABC(selector[i]) \/ IsABC(selector[j])
    /\ Becomes(i, AllOf(selector[i], selector[j]), meant[i] \cap meant[j])

Or(i, j) ==
    /\ IsABC(selector[i]) \/ IsABC(selector[j])
    /\ Becomes(i, Union(selector[i], selector[j]), meant[i] \cup meant[j])

Invert(i) ==
    /\ IsABC(selector[i])
    /\ Becomes(i, Negated(selector[i]), Resources \ meant[i])

SelectionNext ==
    \/ \E i, j \in DOMAIN selector : And(i, j) \/ Or(i, j)
    \/ \E i \in DOMAIN selector : Invert(i)

SelectionSpec == SelectionInit /\ [][SelectionNext]_selectionVars

----------------------------------------------------------------------------
(* Requests *)

Modes == {"INCREMENTAL", "DEPENDENCY_AWARE", "FULL", "TARGETED"}

Selects(ids, s) == ids # {} \/ s # NoSelector

\* RefreshEngine.refresh: the mode it takes when none is given.
Made(mode, ids, s) ==
    [ids |-> ids, selector |-> s,
     mode |-> IF mode # "none" THEN mode
              ELSE IF Selects(ids, s) THEN "TARGETED" ELSE "INCREMENTAL"]

\* RefreshRequest.__post_init__ raises unless this holds.
Valid(q) == q.mode = "TARGETED" <=> Selects(q.ids, q.selector)

\* The requests an application can make with these selectors.
RequestsOf(selectors) ==
    {q \in {Made(mode, ids, s) : mode \in Modes \cup {"none"},
                                 ids \in Named, s \in selectors} :
        Valid(q)}

\* _COVERS
Covers(mode) ==
    CASE mode = "FULL" -> Modes
      [] mode = "DEPENDENCY_AWARE" -> {"DEPENDENCY_AWARE", "INCREMENTAL"}
      [] OTHER -> {mode}

\* The selector of two merged TARGETED requests.
MergedIfBoth(s, t) ==                                               \* mutant
    IF NoSelector \in {s, t} THEN NoSelector ELSE Union(s, t)
Merged(s, t) ==
    CASE s = NoSelector \/ s = t -> t
      [] t = NoSelector /\ s # t -> s
      [] OTHER -> Union(s, t)

Coalesced(mode, p, q) ==
    IF mode = "TARGETED"
    THEN [mode |-> mode, ids |-> p.ids \cup q.ids,
          selector |-> Merged(p.selector, q.selector)]
    ELSE [mode |-> mode, ids |-> {}, selector |-> NoSelector]

\* coalesce(p, q), a set that is empty if they cannot be merged.
Coalesce(p, q) ==
    IF q.mode \in Covers(p.mode) THEN {Coalesced(p.mode, p, q)}
    ELSE IF p.mode \in Covers(q.mode) THEN {Coalesced(q.mode, p, q)}
    ELSE {}

\* _targets: the resources it names, if they were discovered, and those its
\* selector matches.
Targets(q) ==
    IF q.selector = NoSelector THEN q.ids \cap Resources
    ELSE {r \in Resources : Matches(q.selector, r) \/ r \in q.ids}

----------------------------------------------------------------------------
(* Properties *)

\* However &, | and ~ were combined and flattened, with selectors of the engine
\* or foreign ones, the result matches the resources its formula says
\* (contracts.py, _parts, _AllOf, _AnyOf, __invert__).
SelectsAsWritten ==
    \A i \in DOMAIN selector : {r \in Resources : Matches(selector[i], r)} = meant[i]

\* What a refresh of q does: the changes it acts on and the resources it takes
\* whatever has changed.
Does(q) ==
    CASE q.mode = "FULL" -> [classes |-> {"changed", "impacted"}, always |-> Resources]
      [] q.mode = "DEPENDENCY_AWARE" -> [classes |-> {"changed", "impacted"}, always |-> {}]
      [] q.mode = "INCREMENTAL" -> [classes |-> {"changed"}, always |-> {}]
      [] q.mode = "TARGETED" -> [classes |-> {}, always |-> Targets(q)]

\* Two requests that an application made merge into a request that is valid, so
\* that building it cannot raise in the middle of a submission, and that
\* refreshes, whatever has changed, all that each of them asked for; two
\* TARGETED ones refresh nothing else (coordinator.py, coalesce).
MergeDoesBoth ==
    LET does == [q \in RequestsOf({NoSelector} \cup ToSet(selector)) |-> Does(q)]
    IN  \A p, q \in DOMAIN does : \A m \in Coalesce(p, q) :
            LET done == Does(m)
                asked == does[p].always \cup does[q].always
            IN  /\ Valid(m)
                /\ does[p].classes \cup does[q].classes \subseteq done.classes
                /\ asked \subseteq done.always
                /\ {p.mode, q.mode} = {"TARGETED"} => done.always = asked
=============================================================================
