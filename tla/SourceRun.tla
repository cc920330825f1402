------------------------------ MODULE SourceRun ------------------------------
(***************************************************************************)
(* A publication or an indexing run of the conformance publisher over      *)
(* source files that others edit meanwhile: what publication.rs reads and  *)
(* rereads around publish_checked, how pipeline.rs converts a family with  *)
(* the shared conversion cache, and how catalog.rs indexes for             *)
(* viewer_catalog.py, which compares the store before and after.  The      *)
(* source lease keeps publishers of the checkout apart, not editors, and   *)
(* an editor never brings an earlier version of a file back.               *)
(***************************************************************************)
EXTENDS ConversionCache

CONSTANTS
    Procs,      \* runs, each of its own process
    Kind,       \* Kind[p]: "publish" or "index"
    Metadata,   \* files whose digests the catalog names: documents, taxonomies
    Assets,     \* the viewer's sources and what builds them
    Late,       \* captures that do not exist at first
    MaxEdits,   \* bound: edits of files
    MaxFaults,  \* bound: kills, evictions and damaged entries
    MaxEvents   \* bound: edits and faults together

Files == Resources \union Metadata \union Assets
Named == Resources \union Metadata

ASSUME SourceConstants ==
    /\ Kind \in [Procs -> {"publish", "index"}]
    /\ Late \subseteq Captures
    /\ Resources \intersect Metadata = {} /\ Named \intersect Assets = {}
    /\ MaxEdits \in Nat /\ MaxFaults \in Nat /\ MaxEvents \in Nat

VARIABLES
    content,    \* content[f]: version of each source file
    catalog,    \* viewer-catalog.json: the version it names for each file
    pc, todo,   \* where each run is, and the files its loop has still to visit
    names,      \* the catalog a publisher read, the inventory an index made
    got,        \* the version of each resource in a run's result
    temp,       \* the keys of the temporary files a run has open
    seen,       \* the assets as asset_graph collected them, the store's
                \* files as the caller of an index found them
    built,      \* the assets as the bundler read them
    moment,     \* ghost: the source between a run's two readings
    disturbed,  \* ghost: something outside changed what the run reads
    edits, faults, tampered

source == <<content, catalog, edits>>
progress == <<pc, todo>>
result == <<names, got, seen, built>>
ghost == <<moment, disturbed>>
bounds == <<faults, tampered>>
vars == <<cache, temp, source, progress, result, ghost, bounds>>

Ended == {"done", "failed", "dead"}
Storing == {"storeRows", "storeUnit", "storeFamily"}
Checking == {"metadata", "familySources", "unitSources", "originals", "sourcesAgain", "metadataAgain"}
Labels == Ended \union Storing \union Checking \union
    {"idle", "identities", "inventory", "identitiesAgain", "layout", "assets", "bundle", "family",
     "familyRows", "authored", "unit", "unitRows", "unitAuthored", "convert", "assemble",
     "catalogAgain", "layoutAgain", "assetsAgain"}

TypeOK ==
    /\ CacheTypeOK
    /\ content \in [Files -> Versions]
    /\ catalog \in [Named -> Versions]
    /\ pc \in [Procs -> Labels]
    /\ todo \in [Procs -> SUBSET Files]
    /\ names \in [Procs -> [Named -> Versions]]
    /\ got \in [Procs -> Names]
    /\ temp \in [Procs -> SUBSET Keys]
    /\ seen \in [Procs -> [Files -> Versions]]
    /\ built \in [Procs -> [Assets -> Versions]]
    /\ moment \in [Procs -> [Files -> Versions]]
    /\ disturbed \in [Procs -> BOOLEAN]
    /\ edits \in 0..MaxEdits /\ faults \in 0..MaxFaults
    /\ tampered \in BOOLEAN

Init ==
    /\ CacheInit
    /\ content = [f \in Files |-> IF f \in Late THEN 0 ELSE 1]
    /\ catalog = [f \in Named |-> content[f]]
    /\ pc = [p \in Procs |-> "idle"]
    /\ todo = [p \in Procs |-> {}]
    /\ names = [p \in Procs |-> [f \in Named |-> 0]]
    /\ got = [p \in Procs |-> [r \in Resources |-> 0]]
    /\ temp = [p \in Procs |-> {}]
    /\ seen = [p \in Procs |-> [f \in Files |-> 0]]
    /\ built = [p \in Procs |-> [a \in Assets |-> 0]]
    /\ moment = [p \in Procs |-> [f \in Files |-> 0]]
    /\ disturbed = [p \in Procs |-> FALSE]
    /\ edits = 0 /\ faults = 0 /\ tampered = FALSE

-----------------------------------------------------------------------------
(* Control.                                                                *)

\* The resources a run's catalog or inventory lists.
Listed(p) == {r \in Resources : names[p][r] # 0}
Rows(p) == Listed(p) \ {Authored}
Keyed(p) == [r \in Resources |-> names[p][r]]

\* The files in the store.
Store == {r \in Resources : content[r] # 0}

\* What the loop at a label visits; index_cached lists the store once.
Work(p, l) ==
    CASE l = "inventory" -> Store
      [] l \in {"identities", "identitiesAgain"} -> Resources
      [] l \in {"metadata", "metadataAgain"} -> Metadata
      [] l \in {"assets", "bundle", "assetsAgain"} -> Assets
      [] l \in {"familyRows", "unitRows", "convert", "storeRows", "assemble"} -> Rows(p)
      [] l \in {"familySources", "unitSources", "originals", "sourcesAgain"} -> Listed(p)
      [] l \in {"authored", "unitAuthored", "storeUnit", "storeFamily"} -> {Authored}
      [] OTHER -> {}

Goto(p, l) ==
    /\ pc' = [pc EXCEPT ![p] = l]
    /\ todo' = [todo EXCEPT ![p] = Work(p, l)]

Visited(p, f) ==
    /\ todo' = [todo EXCEPT ![p] = @ \ {f}]
    /\ UNCHANGED pc

Fail(p) == Goto(p, "failed")

\* Mutant: the entry is written before the fragments it lists.
StoreOrder_EntryFirst == <<"storeUnit", "storeRows">>

\* append_history_snapshots writes the fragments, then converted_family the entry.
StoreOrder == <<"storeRows", "storeUnit">>

\* Where a run goes when the loop at a label has visited everything.
After(p, l) ==
    CASE l = "metadata" -> "layout"            [] l = "assets" -> "bundle"
      [] l = "bundle" -> "family"              [] l = "familyRows" -> "familySources"
      [] l = "familySources" -> "assemble"     [] l = "authored" -> "unit"
      [] l = "unitRows" -> "unitSources"       [] l = "unitAuthored" -> "convert"
      [] l = "convert" -> StoreOrder[1]        [] l = StoreOrder[1] -> StoreOrder[2]
      [] l \in {"unitSources", StoreOrder[2]} ->
            IF Kind[p] = "index" THEN "identitiesAgain" ELSE "storeFamily"
      [] l = "storeFamily" -> "assemble"       [] l = "assemble" -> "originals"
      [] l = "originals" -> "catalogAgain"     [] l = "sourcesAgain" -> "metadataAgain"
      [] l = "metadataAgain" -> "assetsAgain"  [] l = "assetsAgain" -> "done"
      [] l = "identities" -> "inventory"       [] l = "inventory" -> "unit"
      [] l = "identitiesAgain" -> "done"

Loops == Storing \union Checking \union
    {"identities", "inventory", "identitiesAgain", "assets", "bundle", "familyRows", "authored",
     "unitRows", "unitAuthored", "convert", "assemble", "assetsAgain"}

\* The moment a result claims to be of lies between the two readings: after an
\* index has its inventory, before a publisher reads everything again.
Observed(l) == l \in {"inventory", "originals"}

LoopEnd(p) ==
    /\ pc[p] \in Loops
    /\ todo[p] = {}
    /\ Goto(p, After(p, pc[p]))
    /\ moment' = IF Observed(pc[p]) THEN [moment EXCEPT ![p] = content] ELSE moment
    /\ UNCHANGED <<cache, temp, source, result, disturbed, bounds>>

-----------------------------------------------------------------------------
(* Reading the source.                                                     *)

\* publish_prepared reads the catalog first, the caller of an index the store.
Start(p) ==
    /\ pc[p] = "idle"
    /\ IF Kind[p] = "publish"
       THEN /\ names' = [names EXCEPT ![p] = catalog]
            /\ Goto(p, "metadata")
            /\ disturbed' = [disturbed EXCEPT ![p] = \E f \in Named : catalog[f] # content[f]]
       ELSE /\ Goto(p, "identities")
            /\ disturbed' = [disturbed EXCEPT ![p] = FALSE]
            /\ UNCHANGED names
    /\ UNCHANGED <<cache, temp, source, got, seen, built, moment, bounds>>

\* _native_catalog_document_index: the identities of the store's files, of each
\* on its own, before the index.
Identify(p, r) ==
    /\ pc[p] = "identities" /\ r \in todo[p]
    /\ seen' = [seen EXCEPT ![p][r] = content[r]]
    /\ Visited(p, r)
    /\ UNCHANGED <<cache, temp, source, names, got, built, ghost, bounds>>

\* Mutant: only the files the index lists are compared.
IdentifyAgain_ListedOnly(p, r) ==
    /\ pc[p] = "identitiesAgain" /\ r \in todo[p]
    /\ IF r \notin Listed(p) \/ content[r] = seen[p][r] THEN Visited(p, r) ELSE Fail(p)
    /\ UNCHANGED <<cache, temp, source, result, ghost, bounds>>

\* After it they are the same, none is missing and there are no others.
IdentifyAgain(p, r) ==
    /\ pc[p] = "identitiesAgain" /\ r \in todo[p]
    /\ IF content[r] = seen[p][r] THEN Visited(p, r) ELSE Fail(p)
    /\ UNCHANGED <<cache, temp, source, result, ghost, bounds>>

\* Each listed file is read once, and its digest names it from then on.
Inventory(p, f) ==
    /\ pc[p] = "inventory" /\ f \in todo[p]
    /\ names' = [names EXCEPT ![p][f] = content[f]]
    /\ Visited(p, f)
    /\ UNCHANGED <<cache, temp, source, got, seen, built, ghost, bounds>>

\* Mutant: what a cache hit stands for is not read again.
CheckNamed_TrustsHit(p, f) ==
    /\ pc[p] \in Checking /\ f \in todo[p]
    /\ IF pc[p] = "unitSources" \/ content[f] = names[p][f] THEN Visited(p, f) ELSE Fail(p)
    /\ UNCHANGED <<cache, temp, source, result, ghost, bounds>>

\* source::verified, metadata_sources: a file is the one the catalog names.
CheckNamed(p, f) ==
    /\ pc[p] \in Checking /\ f \in todo[p]
    /\ IF content[f] = names[p][f] THEN Visited(p, f) ELSE Fail(p)
    /\ UNCHANGED <<cache, temp, source, result, ghost, bounds>>

\* capture_inventory: the store holds the files the catalog lists, no others.
CheckLayout(p) ==
    /\ pc[p] \in {"layout", "layoutAgain"}
    /\ IF Store = Listed(p)
       THEN Goto(p, IF pc[p] = "layout" THEN "assets" ELSE "sourcesAgain")
       ELSE Fail(p)
    /\ UNCHANGED <<cache, temp, source, result, ghost, bounds>>

\* asset_graph keeps the bytes; the bundler, another process, reads them again.
CollectAsset(p, a) ==
    /\ pc[p] = "assets" /\ a \in todo[p]
    /\ seen' = [seen EXCEPT ![p][a] = content[a]]
    /\ Visited(p, a)
    /\ UNCHANGED <<cache, temp, source, names, got, built, ghost, bounds>>

BundleAsset(p, a) ==
    /\ pc[p] = "bundle" /\ a \in todo[p]
    /\ built' = [built EXCEPT ![p][a] = content[a]]
    /\ Visited(p, a)
    /\ UNCHANGED <<cache, temp, source, names, got, seen, ghost, bounds>>

CheckAsset(p, a) ==
    /\ pc[p] = "assetsAgain" /\ a \in todo[p]
    /\ IF content[a] = seen[p][a] THEN Visited(p, a) ELSE Fail(p)
    /\ UNCHANGED <<cache, temp, source, result, ghost, bounds>>

CheckCatalog(p) ==
    /\ pc[p] = "catalogAgain"
    /\ IF catalog = names[p] THEN Goto(p, "layoutAgain") ELSE Fail(p)
    /\ UNCHANGED <<cache, temp, source, result, ghost, bounds>>

-----------------------------------------------------------------------------
(* Converting the family.                                                  *)

\* read_family_cache: the entry, then every fragment it lists.
Lookup(p) ==
    /\ pc[p] \in {"family", "unit"}
    /\ LET k == IF pc[p] = "family" THEN FamilyKey(Keyed(p)) ELSE UnitKey(Keyed(p)) IN
       \/ /\ Found(k) = {}
          /\ Goto(p, IF pc[p] = "family" THEN "authored" ELSE "unitAuthored")
          /\ UNCHANGED got
       \/ \E e \in Found(k) :
          /\ got' = [got EXCEPT ![p] = e.payload]
          /\ Goto(p, IF pc[p] = "family" THEN "familyRows" ELSE "unitRows")
    /\ UNCHANGED <<cache, temp, source, names, seen, built, ghost, bounds>>

LookupRow(p, c) ==
    /\ pc[p] \in {"familyRows", "unitRows"} /\ c \in todo[p]
    /\ IF Found(FragmentKey(c, Keyed(p))) # {}
       THEN Visited(p, c)
       ELSE Goto(p, IF pc[p] = "familyRows" THEN "authored" ELSE "unitAuthored")
    /\ UNCHANGED <<cache, temp, source, result, ghost, bounds>>

\* Mutant: a source is read without its descriptor.
Read_Unverified(p, r) ==
    /\ pc[p] \in {"authored", "unitAuthored", "convert"} /\ r \in todo[p]
    /\ got' = [got EXCEPT ![p] = [s \in Resources |->
                   IF s = r THEN content[r] ELSE IF r = Authored THEN 0 ELSE @[s]]]
    /\ Visited(p, r)
    /\ UNCHANGED <<cache, temp, source, names, seen, built, ghost, bounds>>

\* converted_family reads the authored file and then the captures, verified.
Read(p, r) ==
    /\ pc[p] \in {"authored", "unitAuthored", "convert"} /\ r \in todo[p]
    /\ IF content[r] = names[p][r]
       THEN /\ got' = [got EXCEPT ![p] = [s \in Resources |->
                          IF s = r THEN content[r] ELSE IF r = Authored THEN 0 ELSE @[s]]]
            /\ Visited(p, r)
       ELSE Fail(p) /\ UNCHANGED got
    /\ UNCHANGED <<cache, temp, source, names, seen, built, ghost, bounds>>

\* Fragments first, then the entry that lists them, then the family's.
StoreKey(p, f) ==
    CASE pc[p] = "storeRows" -> FragmentKey(f, Keyed(p))
      [] pc[p] = "storeUnit" -> UnitKey(Keyed(p))
      [] OTHER -> FamilyKey(Keyed(p))

BeginStore(p, f) ==
    /\ pc[p] \in Storing /\ f \in todo[p] /\ temp[p] = {}
    /\ temp' = [temp EXCEPT ![p] = {StoreKey(p, f)}]
    /\ WriteTemporary(StoreKey(p, f), got[p])
    /\ UNCHANGED <<source, progress, result, ghost, bounds>>

EndStore(p, f) ==
    /\ pc[p] \in Storing /\ f \in todo[p] /\ temp[p] = {StoreKey(p, f)}
    /\ temp' = [temp EXCEPT ![p] = {}]
    /\ Persist(StoreKey(p, f), got[p])
    /\ Visited(p, f)
    /\ UNCHANGED <<source, result, ghost, bounds>>

\* The fragments are read once more, where the selected captures need them.
Assemble(p, c) ==
    /\ pc[p] = "assemble" /\ c \in todo[p]
    /\ \/ Found(FragmentKey(c, Keyed(p))) = {} /\ Fail(p) /\ UNCHANGED got
       \/ \E e \in Found(FragmentKey(c, Keyed(p))) :
          /\ got' = [got EXCEPT ![p][c] = e.payload[c]]
          /\ Visited(p, c)
    /\ UNCHANGED <<cache, temp, source, names, seen, built, ghost, bounds>>

Step(p) ==
    \/ Start(p) \/ LoopEnd(p) \/ CheckLayout(p) \/ CheckCatalog(p) \/ Lookup(p)
    \/ \E f \in todo[p] :
        \/ Identify(p, f) \/ Inventory(p, f) \/ IdentifyAgain(p, f)
        \/ CheckNamed(p, f) \/ CollectAsset(p, f) \/ BundleAsset(p, f)
        \/ CheckAsset(p, f) \/ LookupRow(p, f) \/ Read(p, f) \/ BeginStore(p, f)
        \/ EndStore(p, f) \/ Assemble(p, f)

-----------------------------------------------------------------------------
(* The world around.                                                       *)

\* Every run under way is disturbed.
Disturb == disturbed' = [p \in Procs |-> disturbed[p] \/ pc[p] \notin Ended \union {"idle"}]

\* An editor rewrites, or adds, a file.
Edit(f) ==
    /\ content[f] < MaxVersion /\ edits < MaxEdits /\ edits + faults < MaxEvents
    /\ content' = [content EXCEPT ![f] = @ + 1]
    /\ edits' = edits + 1
    /\ Disturb
    /\ UNCHANGED <<cache, temp, catalog, progress, result, moment, bounds>>

\* Somebody generates the catalog again.
Regenerate ==
    /\ \E f \in Named : catalog[f] # content[f]
    /\ catalog' = [f \in Named |-> content[f]]
    /\ Disturb
    /\ UNCHANGED <<cache, temp, content, edits, progress, result, moment, bounds>>

Kill(p) ==
    /\ pc[p] \notin Ended \union {"idle"} /\ faults < MaxFaults /\ edits + faults < MaxEvents
    /\ faults' = faults + 1
    /\ Goto(p, "dead")
    /\ UNCHANGED <<cache, temp, source, result, ghost, tampered>>

\* The next run of the same command is a new process.
Again(p) ==
    /\ pc[p] \in Ended
    /\ Goto(p, "idle")
    /\ temp' = [temp EXCEPT ![p] = {}]
    /\ names' = [names EXCEPT ![p] = [f \in Named |-> 0]]
    /\ got' = [got EXCEPT ![p] = [r \in Resources |-> 0]]
    /\ seen' = [seen EXCEPT ![p] = [f \in Files |-> 0]]
    /\ built' = [built EXCEPT ![p] = [a \in Assets |-> 0]]
    /\ moment' = [moment EXCEPT ![p] = [f \in Files |-> 0]]
    /\ disturbed' = [disturbed EXCEPT ![p] = FALSE]
    /\ UNCHANGED <<cache, source, bounds>>

Tamper ==
    /\ faults < MaxFaults /\ edits + faults < MaxEvents
    /\ faults' = faults + 1 /\ tampered' = TRUE
    /\ \E e \in cache : Evict(e) \/ Damage(e)
    /\ Disturb
    /\ UNCHANGED <<temp, source, progress, result, moment>>

Next ==
    \/ \E p \in Procs : Step(p) \/ Kill(p) \/ Again(p)
    \/ \E f \in Files : Edit(f)
    \/ Regenerate \/ Tamper

Spec == Init /\ [][Next]_vars

-----------------------------------------------------------------------------

\* What index_cached itself returns: the files it lists are converted as they
\* were at one moment.  It lists the store once, so of the set of files it
\* promises nothing; that is for its caller to find out.
IndexedFilesAgree ==
    \A p \in Procs : pc[p] = "identitiesAgain" =>
        \A r \in Listed(p) : names[p][r] = moment[p][r] /\ got[p][r] = moment[p][r]

\* What a run publishes, and what a caller accepts of an index, is the source
\* as it was at one moment, whatever was edited meanwhile and whatever came from
\* the cache: the set of the store's files, what each of them was converted to,
\* and for a publication the metadata and the assets as bundled.  An index not
\* yet accepted is IndexedFilesAgree.
ResultIsASnapshot ==
    /\ IndexedFilesAgree
    /\ \A p \in Procs : pc[p] = "done" =>
        /\ \A r \in Resources : names[p][r] = moment[p][r] /\ got[p][r] = moment[p][r]
        /\ Kind[p] = "publish" =>
            /\ \A f \in Metadata : names[p][f] = moment[p][f]
            /\ \A a \in Assets : built[p][a] = moment[p][a]

\* A whole entry holds exactly what converting its key's sources gives, so a hit
\* is as good as a conversion, whichever process wrote the entry and when.
EntriesAreExact == \A e \in cache : e.whole => e.payload = Payload(e.key, e.key.names)

\* Killed publishers leave no entry that lists fragments which were never
\* written: until somebody tampers with the directory, it is closed.
EntriesAreClosed ==
    ~tampered => \A e \in cache : e.key.kind # "fragment" =>
        \A c \in Captures : e.key.names[c] # 0 => Found(FragmentKey(c, e.key.names)) # {}

\* Runs that share the cache never make each other fail: a run fails only if
\* somebody else changed the source or the cache, or it began with a catalog
\* that did not fit the source.
RunsDoNotDisturb == \A p \in Procs : pc[p] = "failed" => disturbed[p]
=============================================================================
