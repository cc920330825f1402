--------------------------- MODULE ConversionCache ---------------------------
(***************************************************************************)
(* The conversion cache of the conformance publisher                       *)
(* (conformance/publisher/src/conversion_cache.rs) and the keys that       *)
(* pipeline.rs gives it.  One file per key, in a directory that every      *)
(* publisher and indexer of the machine shares.  A key is a digest of      *)
(* everything the conversion reads, so it is modelled by those inputs; a   *)
(* payload is modelled by the version of each source it was made from.     *)
(***************************************************************************)
EXTENDS Integers

CONSTANTS
    Authored,    \* a family's inputs_and_golden.yaml
    Captures,    \* the family's capture files
    MaxVersion   \* bound: versions of a source file; version 0 is "no such file"

Resources == Captures \union {Authored}
Versions == 0..MaxVersion
Names == [Resources -> Versions]

ASSUME ConversionConstants ==
    /\ Authored \notin Captures
    /\ MaxVersion \in Nat \ {0}

VARIABLE cache   \* the files of the directory

\* A fragment holds the records of one capture, resolved along its history and
\* bound to the authored requests; a unit entry the authored family and the list
\* of fragments; a family entry the same, for all units.
Kinds == {"fragment", "unit", "family"}
Keys == [kind : Kinds, capture : Resources, names : Names]
FragmentKey(c, n) == [kind |-> "fragment", capture |-> c, names |-> n]
UnitKey(n) == [kind |-> "unit", capture |-> Authored, names |-> n]
FamilyKey(n) == [kind |-> "family", capture |-> Authored, names |-> n]

\* What a conversion gives when the sources it reads have the versions v.
Scope(k) == IF k.kind = "fragment" THEN {Authored, k.capture} ELSE Resources
Payload(k, v) == [r \in Resources |-> IF r \in Scope(k) THEN v[r] ELSE 0]

\* An entry is whole if its identity and digest are those of what it holds.
Entries == [key : Keys, whole : BOOLEAN, payload : Names]

CacheTypeOK ==
    /\ cache \subseteq Entries
    /\ \A e, f \in cache : e.key = f.key => e = f

CacheInit == cache = {}

\* read(): the whole entries of a key; none whatever is wrong with the file.
Found(k) == {e \in cache : e.key = k /\ e.whole}

Put(k, w, v) ==
    cache' = {e \in cache : e.key # k} \union {[key |-> k, whole |-> w, payload |-> Payload(k, v)]}

\* Mutant: the bytes are written under the final name.
WriteTemporary_InPlace(k, v) == Put(k, FALSE, v)

\* write() fills a temporary file nobody reads, syncs it and renames it.
WriteTemporary(k, v) == UNCHANGED cache
Persist(k, v) == Put(k, TRUE, v)

\* Somebody cleans the directory up, or a file is damaged.
Evict(e) == cache' = cache \ {e}
Damage(e) == e.whole /\ cache' = (cache \ {e}) \union {[e EXCEPT !.whole = FALSE]}
=============================================================================
