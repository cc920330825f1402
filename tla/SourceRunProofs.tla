--------------------------- MODULE SourceRunProofs ---------------------------
(***************************************************************************)
(* What holds of SourceRun for any number of runs, files, edits and        *)
(* faults: a result is a snapshot of the source and a cache entry is what  *)
(* its key says; and what runs that share the cache do to each other:      *)
(* nothing.  The first is a double collect.  Versions only grow, so a file *)
(* that has the same version before and after a moment had it at that      *)
(* moment; the invariant says which files each label has compared so far.  *)
(* An index lists the store once and its caller compares before and after, *)
(* so it is what the caller accepts that has the set of one moment.        *)
(* For the second, a run writes an entry only after it has seen or written *)
(* every fragment the entry lists, and a fragment that was whole once      *)
(* stays so until somebody tampers with the directory.                     *)
(***************************************************************************)
EXTENDS SourceRun, TLAPS

-----------------------------------------------------------------------------
(* The inductive invariant.                                                *)

Early == {"identities", "inventory"}
IndexLabels == {"identities", "inventory", "unit", "unitRows", "unitSources", "unitAuthored",
                "convert", "storeRows", "storeUnit", "identitiesAgain"}
Again1 == {"catalogAgain", "layoutAgain", "sourcesAgain", "metadataAgain", "assetsAgain"}
AfterBundle == {"family", "familyRows", "familySources", "authored", "storeFamily", "assemble",
                "originals", "done"} \union Again1 \union (IndexLabels \ Early)
Converted == {"familyRows", "familySources", "unitRows", "unitSources", "assemble", "originals",
              "identitiesAgain", "done"} \union Storing \union Again1

\* Which labels a kind of run visits.
KindOK(p) ==
    /\ Kind[p] = "index" => pc[p] \in IndexLabels \union Ended \union {"idle"}
    /\ Kind[p] = "publish" => pc[p] \notin Early \union {"identitiesAgain"}

\* A loop visits the files its label is for.
TodoOK(p) == todo[p] \subseteq IF pc[p] = "inventory" THEN Resources ELSE Work(p, pc[p])

\* Whatever was read is not newer than the source.
OldOK(p) ==
    /\ \A f \in Named : names[p][f] <= content[f]
    /\ \A f \in Files : moment[p][f] <= content[f]
    /\ \A f \in Files : seen[p][f] <= content[f]
    /\ \A a \in Assets : built[p][a] <= content[a]

\* The bundler read each asset after it was collected.
BundleOK(p) ==
    /\ pc[p] = "bundle" => \A a \in Assets \ todo[p] : seen[p][a] <= built[p][a]
    /\ Kind[p] = "publish" /\ pc[p] \in AfterBundle => \A a \in Assets : seen[p][a] <= built[p][a]

\* The result is made of the versions the catalog names.
GotOK(p) ==
    /\ pc[p] \in Converted => \A r \in Resources : got[p][r] = names[p][r]
    /\ pc[p] = "convert" => \A r \in Resources \ todo[p] : got[p][r] = names[p][r]
    /\ pc[p] = "unitAuthored" /\ todo[p] = {} =>
        \A r \in Resources : got[p][r] = IF r = Authored THEN names[p][r] ELSE 0

\* The first reading came before the moment.
MomentOK(p) ==
    /\ Kind[p] = "publish" /\ pc[p] \in Again1 \union {"done"} =>
        /\ \A f \in Named : names[p][f] <= moment[p][f]
        /\ \A a \in Assets : seen[p][a] <= moment[p][a] /\ built[p][a] <= moment[p][a]
    /\ Kind[p] = "index" /\ pc[p] \in (IndexLabels \ Early) \union {"done"} =>
        \A r \in Resources : names[p][r] <= moment[p][r]

\* The second reading found the same, for the files it has visited.
SameOK(p) ==
    /\ Kind[p] = "publish" =>
        /\ pc[p] \in {"sourcesAgain", "metadataAgain", "assetsAgain", "done"} =>
            \A r \in Resources : names[p][r] = 0 => moment[p][r] = 0
        /\ pc[p] = "sourcesAgain" => \A r \in Listed(p) \ todo[p] : names[p][r] = moment[p][r]
        /\ pc[p] \in {"metadataAgain", "assetsAgain", "done"} =>
            \A r \in Resources : names[p][r] = moment[p][r]
        /\ pc[p] = "metadataAgain" => \A f \in Metadata \ todo[p] : names[p][f] = moment[p][f]
        /\ pc[p] \in {"assetsAgain", "done"} => \A f \in Metadata : names[p][f] = moment[p][f]
        /\ pc[p] = "assetsAgain" => \A a \in Assets \ todo[p] : built[p][a] = moment[p][a]
        /\ pc[p] = "done" => \A a \in Assets : built[p][a] = moment[p][a]
    /\ Kind[p] = "index" =>
        /\ pc[p] \in {"unitSources", "convert"} =>
            \A r \in Listed(p) \ todo[p] : names[p][r] = moment[p][r]
        /\ pc[p] = "unitAuthored" /\ todo[p] = {} => names[p][Authored] = moment[p][Authored]
        /\ pc[p] \in {"storeRows", "storeUnit", "identitiesAgain", "done"} =>
            \A r \in Listed(p) : names[p][r] = moment[p][r]

\* A file an index does not list was not there when its caller first looked, and
\* is not there when the caller looks again.
IdentOK(p) == Kind[p] = "index" =>
    /\ pc[p] = "inventory" =>
        \A r \in Resources \ todo[p] : names[p][r] = 0 => seen[p][r] = 0
    /\ pc[p] \in (IndexLabels \ Early) \union {"done"} =>
        \A r \in Resources : seen[p][r] <= moment[p][r] /\ (names[p][r] = 0 => seen[p][r] = 0)
    /\ pc[p] = "identitiesAgain" => \A r \in Resources \ todo[p] : seen[p][r] = moment[p][r]
    /\ pc[p] = "done" => \A r \in Resources : seen[p][r] = moment[p][r]

RunOK(p) ==
    /\ KindOK(p) /\ TodoOK(p) /\ OldOK(p) /\ BundleOK(p) /\ GotOK(p) /\ MomentOK(p) /\ SameOK(p)
    /\ IdentOK(p)

CatalogOK == \A f \in Named : catalog[f] <= content[f]

IInv == TypeOK /\ CatalogOK /\ EntriesAreExact /\ \A p \in Procs : RunOK(p)

-----------------------------------------------------------------------------
(* The initial state and the frame of a step.                              *)

LEMMA InitIInv == Init => IInv
<1> SUFFICES ASSUME Init PROVE IInv
  OBVIOUS
<1>0. 0 \in Versions /\ 1 \in Versions /\ Late \subseteq Files /\ Named \subseteq Files
  BY ConversionConstants, SourceConstants DEF Versions, Files, Named, Resources
<1>1. content \in [Files -> Versions] /\ catalog \in [Named -> Versions]
  BY <1>0 DEF Init
<1>2. TypeOK
  <2>1. CacheTypeOK
    BY DEF Init, CacheInit, CacheTypeOK
  <2>7. "idle" \in Labels
    BY DEF Labels
  <2>2. pc \in [Procs -> Labels] /\ todo \in [Procs -> SUBSET Files] /\ temp \in [Procs -> SUBSET Keys]
    BY <2>7 DEF Init
  <2>3. [r \in Resources |-> 0] \in Names /\ [f \in Named |-> 0] \in [Named -> Versions]
    BY <1>0 DEF Names
  <2>4. names \in [Procs -> [Named -> Versions]] /\ got \in [Procs -> Names]
    BY <2>3 DEF Init
  <2>5. /\ seen \in [Procs -> [Files -> Versions]] /\ built \in [Procs -> [Assets -> Versions]]
        /\ moment \in [Procs -> [Files -> Versions]]
    BY <1>0 DEF Init
  <2>6. disturbed \in [Procs -> BOOLEAN] /\ tampered \in BOOLEAN
    BY DEF Init
  <2>8. edits \in 0..MaxEdits /\ faults \in 0..MaxFaults
    BY SourceConstants DEF Init
  <2> QED
    BY <1>1, <2>1, <2>2, <2>4, <2>5, <2>6, <2>8 DEF TypeOK
<1>3. CatalogOK
  BY <1>0, <1>1 DEF Init, CatalogOK, Versions
<1>4. EntriesAreExact
  BY DEF Init, CacheInit, EntriesAreExact
<1>5. ASSUME NEW p \in Procs PROVE RunOK(p)
  <2>1. pc[p] = "idle" /\ todo[p] = {}
    BY DEF Init
  <2>2. OldOK(p)
    BY <1>0, <1>1 DEF Init, OldOK, Versions, Files
  <2> QED
    BY <2>1, <2>2 DEF RunOK, KindOK, TodoOK, BundleOK, GotOK, MomentOK, SameOK, IdentOK, Again1,
      AfterBundle, Converted, IndexLabels, Early, Storing, Ended
<1> QED
  BY <1>2, <1>3, <1>4, <1>5 DEF IInv

\* A run that does nothing keeps what it knows while the source grows older.
LEMMA Frame ==
  ASSUME NEW p \in Procs, RunOK(p), TypeOK,
         content' \in [Files -> Versions], \A f \in Files : content[f] <= content'[f],
         pc'[p] = pc[p], todo'[p] = todo[p], names'[p] = names[p], got'[p] = got[p],
         seen'[p] = seen[p], built'[p] = built[p], moment'[p] = moment[p]
  PROVE  RunOK(p)'
<1>0. Named \subseteq Files /\ Assets \subseteq Files /\ Versions \subseteq Int
  BY ConversionConstants DEF Files, Named, Versions
<1>1. OldOK(p)'
  <2>1. \A f \in Files : content[f] \in Int /\ content'[f] \in Int
    BY <1>0 DEF TypeOK
  <2>2. /\ \A f \in Named : names[p][f] \in Int
        /\ \A f \in Files : moment[p][f] \in Int /\ seen[p][f] \in Int
        /\ \A a \in Assets : built[p][a] \in Int
    BY <1>0 DEF TypeOK
  <2>3. OldOK(p)
    BY DEF RunOK
  <2> QED
    BY <1>0, <2>1, <2>2, <2>3 DEF OldOK
<1>2. Listed(p)' = Listed(p) /\ TodoOK(p)'
  BY DEF RunOK, TodoOK, Work, Listed, Rows
<1> QED
  BY <1>1, <1>2 DEF RunOK, KindOK, BundleOK, GotOK, MomentOK, SameOK, IdentOK

-----------------------------------------------------------------------------
(* Facts about the control.                                                *)

LEMMA AfterTable ==
  ASSUME NEW p \in Procs
  PROVE  /\ After(p, "metadata") = "layout" /\ After(p, "assets") = "bundle"
         /\ After(p, "bundle") = "family" /\ After(p, "familyRows") = "familySources"
         /\ After(p, "familySources") = "assemble" /\ After(p, "authored") = "unit"
         /\ After(p, "unitRows") = "unitSources" /\ After(p, "unitAuthored") = "convert"
         /\ After(p, "convert") = "storeRows" /\ After(p, "storeRows") = "storeUnit"
         /\ After(p, "unitSources") = IF Kind[p] = "index" THEN "identitiesAgain" ELSE "storeFamily"
         /\ After(p, "storeUnit") = IF Kind[p] = "index" THEN "identitiesAgain" ELSE "storeFamily"
         /\ After(p, "storeFamily") = "assemble" /\ After(p, "assemble") = "originals"
         /\ After(p, "originals") = "catalogAgain" /\ After(p, "sourcesAgain") = "metadataAgain"
         /\ After(p, "metadataAgain") = "assetsAgain" /\ After(p, "assetsAgain") = "done"
         /\ After(p, "identities") = "inventory" /\ After(p, "inventory") = "unit"
         /\ After(p, "identitiesAgain") = "done"
<1>1. StoreOrder[1] = "storeRows" /\ StoreOrder[2] = "storeUnit"
  BY DEF StoreOrder
<1> QED
  BY <1>1 DEF After

LEMMA WorkTable ==
  ASSUME NEW p \in Procs
  PROVE  /\ Work(p, "metadata") = Metadata /\ Work(p, "metadataAgain") = Metadata
         /\ Work(p, "assets") = Assets /\ Work(p, "bundle") = Assets
         /\ Work(p, "assetsAgain") = Assets
         /\ Work(p, "familyRows") = Rows(p) /\ Work(p, "unitRows") = Rows(p)
         /\ Work(p, "convert") = Rows(p) /\ Work(p, "storeRows") = Rows(p)
         /\ Work(p, "assemble") = Rows(p)
         /\ Work(p, "familySources") = Listed(p) /\ Work(p, "unitSources") = Listed(p)
         /\ Work(p, "originals") = Listed(p) /\ Work(p, "sourcesAgain") = Listed(p)
         /\ Work(p, "authored") = {Authored} /\ Work(p, "unitAuthored") = {Authored}
         /\ Work(p, "storeUnit") = {Authored} /\ Work(p, "storeFamily") = {Authored}
         /\ Work(p, "layout") = {} /\ Work(p, "layoutAgain") = {}
         /\ Work(p, "catalogAgain") = {} /\ Work(p, "family") = {} /\ Work(p, "unit") = {}
         /\ Work(p, "done") = {} /\ Work(p, "failed") = {} /\ Work(p, "dead") = {}
         /\ Work(p, "idle") = {} /\ Work(p, "inventory") = Store
         /\ Work(p, "identities") = Resources /\ Work(p, "identitiesAgain") = Resources
BY DEF Work

\* Every label's work is files, and never more than that.
LEMMA WorkIsFiles ==
  ASSUME NEW p \in Procs, NEW l
  PROVE  Work(p, l) \subseteq Files
BY DEF Work, Files, Rows, Listed, Resources, Store

LEMMA GotoFacts ==
  ASSUME NEW p \in Procs, NEW l, l # "inventory", TypeOK, Goto(p, l)
  PROVE  /\ pc'[p] = l /\ todo'[p] = Work(p, l)
         /\ names'[p] = names[p] => TodoOK(p)' /\ Listed(p)' = Listed(p)
         /\ \A q \in Procs \ {p} : pc'[q] = pc[q] /\ todo'[q] = todo[q]
<1>1. pc'[p] = l /\ todo'[p] = Work(p, l)
  BY DEF Goto, TypeOK
<1>2. \A q \in Procs \ {p} : pc'[q] = pc[q] /\ todo'[q] = todo[q]
  BY DEF Goto, TypeOK
<1>3. names'[p] = names[p] => Work(p, l)' = Work(p, l) /\ Listed(p)' = Listed(p)
  BY DEF Work, Rows, Listed
<1> QED
  BY <1>1, <1>2, <1>3 DEF TodoOK

LEMMA VisitedFacts ==
  ASSUME NEW p \in Procs, NEW f, TypeOK, Visited(p, f)
  PROVE  /\ pc'[p] = pc[p] /\ todo'[p] = todo[p] \ {f}
         /\ names'[p] = names[p] /\ TodoOK(p) => TodoOK(p)' /\ Listed(p)' = Listed(p)
         /\ \A q \in Procs \ {p} : pc'[q] = pc[q] /\ todo'[q] = todo[q]
<1>1. pc'[p] = pc[p] /\ todo'[p] = todo[p] \ {f}
  BY DEF Visited, TypeOK
<1>2. \A q \in Procs \ {p} : pc'[q] = pc[q] /\ todo'[q] = todo[q]
  BY DEF Visited, TypeOK
<1>3. names'[p] = names[p] =>
        Listed(p)' = Listed(p) /\ (pc[p] # "inventory" => Work(p, pc[p])' = Work(p, pc[p]))
  BY <1>1 DEF Work, Rows, Listed
<1> QED
  BY <1>1, <1>2, <1>3 DEF TodoOK

-----------------------------------------------------------------------------
(* The run that takes a step.                                              *)

\* A step that reads nothing leaves the age of what was read alone.
LEMMA OldKept ==
  ASSUME NEW p \in Procs, OldOK(p), content' = content, names'[p] = names[p],
         moment'[p] = moment[p], seen'[p] = seen[p], built'[p] = built[p]
  PROVE  OldOK(p)'
BY DEF OldOK

\* The store is listed after the caller looked at it, so a file the index will
\* not list was not there then.
LEMMA ListingRun ==
  ASSUME NEW p \in Procs, IInv, LoopEnd(p), pc[p] = "identities"
  PROVE  RunOK(p)'
<1>1. TypeOK /\ KindOK(p) /\ OldOK(p) /\ Goto(p, "inventory")
  BY AfterTable DEF IInv, RunOK, LoopEnd
<1>2. content' = content /\ UNCHANGED <<names, seen, built>> /\ moment' = moment
  BY DEF LoopEnd, source, result, Observed
<1>3. pc'[p] = "inventory" /\ todo'[p] = Store
  BY <1>1, WorkTable DEF Goto, TypeOK
<1>4. OldOK(p)'
  BY <1>1, <1>2, OldKept
<1>5. \A r \in Resources \ Store : seen[p][r] = 0
  <2>1. Resources \subseteq Files /\ Versions \subseteq Nat
    BY ConversionConstants DEF Files, Versions
  <2>2. \A r \in Resources : seen[p][r] \in Nat /\ seen[p][r] <= content[r]
    BY <1>1, <2>1 DEF TypeOK, OldOK
  <2> QED
    BY <2>2 DEF Store
<1>6. IdentOK(p)'
  BY <1>2, <1>3, <1>5 DEF IdentOK, IndexLabels, Early
<1>7. TodoOK(p)'
  BY <1>3 DEF TodoOK, Store
<1> QED
  BY <1>1, <1>3, <1>4, <1>6, <1>7 DEF RunOK, KindOK, BundleOK, GotOK, MomentOK, SameOK, Again1,
    AfterBundle, Converted, IndexLabels, Early, Storing, Ended

LEMMA LoopEndRun ==
  ASSUME NEW p \in Procs, IInv, LoopEnd(p), pc[p] # "identities"
  PROVE  RunOK(p)'
<1> DEFINE l == pc[p]
           n == After(p, l)
<1>1. TypeOK /\ RunOK(p) /\ l \in Loops /\ todo[p] = {} /\ Goto(p, n)
  BY DEF IInv, LoopEnd
<1>2. /\ content' = content /\ names' = names /\ got' = got /\ seen' = seen /\ built' = built
      /\ moment'[p] = IF Observed(l) THEN content ELSE moment[p]
  BY DEF IInv, TypeOK, LoopEnd, source, result
<1>3. /\ KindOK(p) /\ OldOK(p) /\ BundleOK(p) /\ GotOK(p) /\ MomentOK(p) /\ SameOK(p) /\ TodoOK(p)
      /\ IdentOK(p)
  BY <1>1 DEF RunOK
<1>4. \A f \in Files : content[f] \in Int
  BY <1>1, ConversionConstants DEF TypeOK, Versions
<1>0. Named \subseteq Files /\ Assets \subseteq Files /\ Resources \subseteq Named /\ Metadata \subseteq Named
  BY DEF Files, Named
<1>5. OldOK(p)'
  BY <1>0, <1>2, <1>3, <1>4 DEF OldOK
<1>6. n # "inventory" /\ n # "identities"
  BY <1>1, AfterTable DEF Loops, Storing, Checking
<1>7. pc'[p] = n /\ todo'[p] = Work(p, n) /\ TodoOK(p)' /\ Listed(p)' = Listed(p)
  BY <1>1, <1>2, <1>6, GotoFacts
<1>8. Kind[p] \in {"publish", "index"}
  BY SourceConstants
<1>9. KindOK(p)'
  BY <1>1, <1>3, <1>7, <1>8, AfterTable DEF KindOK, Loops, Storing, Checking, IndexLabels, Early, Ended
<1>10. BundleOK(p)'
  <2>1. CASE l = "assets"
    BY <2>1, <1>2, <1>7, AfterTable, WorkTable DEF BundleOK, AfterBundle, Again1, IndexLabels, Early
  <2>2. CASE l = "bundle"
    BY <2>2, <1>1, <1>2, <1>3, <1>7, AfterTable DEF BundleOK
  <2>3. CASE l \in {"metadata"}
    BY <2>3, <1>2, <1>7, AfterTable DEF BundleOK, AfterBundle, Again1, IndexLabels, Early
  <2>4. CASE l = "inventory"
    BY <2>4, <1>3, <1>7, <1>8, AfterTable DEF BundleOK, KindOK, Early
  <2>5. CASE l \in AfterBundle
    BY <2>5, <1>1, <1>2, <1>3, <1>7, AfterTable
      DEF BundleOK, Loops, Storing, Checking, AfterBundle, Again1, IndexLabels, Early
  <2> QED
    BY <2>1, <2>2, <2>3, <2>4, <2>5, <1>1
      DEF Loops, Storing, Checking, AfterBundle, Again1, IndexLabels, Early
<1>11. GotOK(p)'
  <2>1. CASE l = "unitAuthored"
    <3>1. \A r \in Resources \ Rows(p) : got[p][r] = names[p][r]
      BY <2>1, <1>1, <1>3 DEF GotOK, Rows, Listed
    <3> QED
      BY <3>1, <2>1, <1>2, <1>7, AfterTable, WorkTable DEF GotOK, Converted, Again1, Storing
  <2>2. CASE l = "convert"
    BY <2>2, <1>1, <1>2, <1>3, <1>7, AfterTable DEF GotOK
  <2>3. CASE l \in {"metadata", "assets", "bundle", "authored", "inventory"}
    BY <2>3, <1>7, AfterTable DEF GotOK, Converted, Again1, Storing
  <2>4. CASE l \in Converted
    BY <2>4, <1>1, <1>2, <1>3, <1>7, AfterTable
      DEF GotOK, Loops, Storing, Checking, Converted, Again1
  <2> QED
    BY <2>1, <2>2, <2>3, <2>4, <1>1 DEF Loops, Storing, Checking, Converted, Again1
<1>12. MomentOK(p)'
  <2>1. CASE l \in {"originals", "inventory"}
    BY <2>1, <1>0, <1>2, <1>3 DEF OldOK, MomentOK, Observed
  <2>2. CASE l \notin {"originals", "inventory"}
    <3>1. moment'[p] = moment[p]
      BY <2>2, <1>2 DEF Observed
    <3>2. CASE Kind[p] = "publish"
      BY <3>1, <3>2, <2>2, <1>1, <1>2, <1>3, <1>7, AfterTable
        DEF MomentOK, KindOK, Early, Loops, Storing, Checking, Again1
    <3>3. CASE Kind[p] = "index"
      BY <3>1, <3>3, <2>2, <1>1, <1>2, <1>3, <1>7, AfterTable
        DEF MomentOK, KindOK, Loops, Storing, Checking, IndexLabels, Early, Ended
    <3> QED
      BY <3>2, <3>3, <1>8
  <2> QED
    BY <2>1, <2>2
<1>13. SameOK(p)'
  <2>1. CASE Kind[p] = "publish"
    <3>1. CASE l \in {"sourcesAgain", "metadataAgain", "assetsAgain"}
      <4>1. moment'[p] = moment[p]
        BY <3>1, <1>2 DEF Observed
      <4>2. l = "sourcesAgain" => \A r \in Resources : names[p][r] = moment[p][r]
        BY <2>1, <1>1, <1>3 DEF SameOK, Listed
      <4> QED
        BY <4>1, <4>2, <2>1, <3>1, <1>1, <1>2, <1>3, <1>7, AfterTable, WorkTable DEF SameOK
    <3>2. CASE l \notin {"sourcesAgain", "metadataAgain", "assetsAgain"}
      <4>1. n \notin {"sourcesAgain", "metadataAgain", "assetsAgain", "done"}
        BY <3>2, <2>1, <1>1, <1>3, AfterTable DEF KindOK, Early, Loops, Storing, Checking
      <4> QED
        BY <4>1, <2>1, <1>7 DEF SameOK
    <3> QED
      BY <3>1, <3>2
  <2>2. CASE Kind[p] = "index"
    <3>1. CASE l \in {"unitSources", "unitAuthored", "convert", "storeRows", "storeUnit",
                      "identitiesAgain"}
      <4>1. moment'[p] = moment[p]
        BY <3>1, <1>2 DEF Observed
      <4>2. l = "unitAuthored" => \A r \in Listed(p) \ Rows(p) : names[p][r] = moment[p][r]
        BY <2>2, <1>1, <1>3 DEF SameOK, Rows
      <4> QED
        BY <4>1, <4>2, <2>2, <3>1, <1>1, <1>2, <1>3, <1>7, AfterTable, WorkTable DEF SameOK
    <3>2. CASE l \in {"inventory", "unitRows"}
      BY <3>2, <2>2, <1>7, AfterTable, WorkTable DEF SameOK
    <3> QED
      BY <3>1, <3>2, <2>2, <1>1, <1>3 DEF KindOK, Loops, Storing, Checking, IndexLabels, Early, Ended
  <2> QED
    BY <2>1, <2>2, <1>8
<1>14. IdentOK(p)'
  <2> SUFFICES ASSUME Kind[p] = "index" PROVE IdentOK(p)'
    BY DEF IdentOK
  <2>1. CASE l = "inventory"
    <3>1. \A r \in Resources : r \in Files
      BY DEF Files
    <3> QED
      BY <2>1, <3>1, <1>1, <1>2, <1>3, <1>7, AfterTable DEF IdentOK, OldOK, Observed
  <2>2. CASE l = "identitiesAgain"
    BY <2>2, <1>1, <1>2, <1>3, <1>7, AfterTable DEF IdentOK, Observed, IndexLabels, Early
  <2>3. CASE l \in IndexLabels \ (Early \union {"identitiesAgain"})
    <3>1. moment'[p] = moment[p] /\ l # "identitiesAgain"
      BY <2>3, <1>2 DEF Observed, IndexLabels, Early
    <3>2. pc'[p] \in IndexLabels \ Early
      BY <2>3, <1>1, <1>7, AfterTable DEF IndexLabels, Early, Loops, Storing, Checking
    <3>3. pc'[p] = "identitiesAgain" => todo'[p] = Resources
      BY <1>7, WorkTable
    <3> QED
      BY <2>3, <3>1, <3>2, <3>3, <1>2, <1>3 DEF IdentOK, IndexLabels, Early
  <2> QED
    BY <2>1, <2>2, <2>3, <1>1, <1>3 DEF KindOK, Loops, Storing, Checking, IndexLabels, Early, Ended
<1> QED
  BY <1>5, <1>7, <1>9, <1>10, <1>11, <1>12, <1>13, <1>14 DEF RunOK

\* A run that ends without a result owes nothing any more.
LEMMA FailRun ==
  ASSUME NEW p \in Procs, IInv, NEW l \in {"failed", "dead"}, Goto(p, l), content' = content,
         UNCHANGED <<names, moment, seen, built>>
  PROVE  RunOK(p)'
<1>1. TypeOK /\ OldOK(p)
  BY DEF IInv, RunOK
<1>2. pc'[p] = l /\ TodoOK(p)'
  BY <1>1, GotoFacts
<1>3. OldOK(p)'
  BY <1>1, OldKept
<1> QED
  BY <1>2, <1>3 DEF RunOK, KindOK, BundleOK, GotOK, MomentOK, SameOK, IdentOK, Again1, AfterBundle,
    Converted, IndexLabels, Early, Storing, Ended

\* Outside the loops that compare, a visit teaches nothing.
LEMMA VisitRun ==
  ASSUME NEW p \in Procs, IInv, NEW f, Visited(p, f), content' = content,
         UNCHANGED <<names, moment, seen, built>>, got'[p] = got[p],
         pc[p] \notin {"bundle", "convert", "unitAuthored", "sourcesAgain", "metadataAgain",
                      "assetsAgain", "unitSources", "inventory", "identitiesAgain"}
  PROVE  RunOK(p)'
<1>1. TypeOK /\ RunOK(p) /\ OldOK(p)
  BY DEF IInv, RunOK
<1>2. pc'[p] = pc[p] /\ todo'[p] = todo[p] \ {f} /\ TodoOK(p)' /\ Listed(p)' = Listed(p)
  BY <1>1, VisitedFacts DEF RunOK
<1>3. OldOK(p)'
  BY <1>1, OldKept
<1>4. CASE pc[p] \notin {"storeRows", "storeUnit"}
  BY <1>1, <1>2, <1>3, <1>4 DEF RunOK, KindOK, BundleOK, GotOK, MomentOK, SameOK, IdentOK
<1>5. CASE pc[p] \in {"storeRows", "storeUnit"}
  BY <1>1, <1>2, <1>3, <1>5 DEF RunOK, KindOK, BundleOK, GotOK, MomentOK, SameOK, IdentOK
<1> QED
  BY <1>4, <1>5

LEMMA StartRun ==
  ASSUME NEW p \in Procs, IInv, Start(p)
  PROVE  RunOK(p)'
<1>1. TypeOK /\ RunOK(p) /\ CatalogOK /\ OldOK(p)
  BY DEF IInv, RunOK
<1>2. content' = content /\ UNCHANGED <<moment, seen, built>>
  BY DEF Start, source
<1>3. CASE Kind[p] = "publish"
  <2>1. Goto(p, "metadata") /\ names'[p] = catalog
    BY <1>1, <1>3 DEF Start, TypeOK
  <2>2. pc'[p] = "metadata" /\ todo'[p] = Metadata
    BY <2>1, <1>1, GotoFacts, WorkTable
  <2>3. TodoOK(p)'
    BY <2>2 DEF TodoOK, Work
  <2>4. OldOK(p)'
    BY <1>1, <1>2, <2>1 DEF OldOK, CatalogOK
  <2> QED
    BY <1>3, <2>2, <2>3, <2>4 DEF RunOK, KindOK, BundleOK, GotOK, MomentOK, SameOK, IdentOK, Again1,
      AfterBundle, Converted, IndexLabels, Early, Storing
<1>4. CASE Kind[p] = "index"
  <2>1. pc'[p] = "identities" /\ todo'[p] = Resources /\ names' = names
    BY <1>1, <1>4, GotoFacts, WorkTable DEF Start
  <2>2. OldOK(p)'
    BY <1>1, <1>2, <2>1, OldKept
  <2> QED
    BY <1>4, <2>1, <2>2, WorkTable DEF RunOK, KindOK, TodoOK, Work, BundleOK, GotOK, MomentOK, SameOK, IdentOK, Again1,
      AfterBundle, Converted, IndexLabels, Early, Storing
<1> QED
  BY <1>3, <1>4, SourceConstants

LEMMA InventoryRun ==
  ASSUME NEW p \in Procs, IInv, NEW f \in todo[p], Inventory(p, f)
  PROVE  RunOK(p)'
<1>1. TypeOK /\ RunOK(p) /\ OldOK(p) /\ pc[p] = "inventory" /\ TodoOK(p) /\ KindOK(p)
  BY DEF IInv, RunOK, Inventory
<1>2. content' = content /\ UNCHANGED <<moment, seen, built>>
  BY DEF Inventory, source, ghost
<1>3. f \in Resources /\ f \in Named /\ f \in Files
  BY <1>1 DEF TodoOK, Named, Files
<1>4. names'[p] = [names[p] EXCEPT ![f] = content[f]]
  BY <1>1 DEF Inventory, TypeOK
<1>5. pc'[p] = "inventory" /\ todo'[p] = todo[p] \ {f}
  BY <1>1, VisitedFacts DEF Inventory
<1>6. content[f] \in Int /\ names[p] \in [Named -> Versions]
  BY <1>1, <1>3 DEF TypeOK, Versions
<1>7. \A g \in Named : names'[p][g] = IF g = f THEN content[f] ELSE names[p][g]
  BY <1>3, <1>4, <1>6
<1>8. OldOK(p)'
  BY <1>1, <1>2, <1>6, <1>7 DEF OldOK
<1>9. IdentOK(p)'
  <2>1. seen[p][f] \in Nat /\ seen[p][f] <= content[f]
    BY <1>1, <1>3, ConversionConstants DEF TypeOK, OldOK, Versions
  <2>2. content[f] = 0 => seen[p][f] = 0
    BY <1>6, <2>1
  <2>3. \A g \in Resources : g \in Named
    BY DEF Named
  <2> QED
    BY <1>1, <1>2, <1>5, <1>7, <2>2, <2>3 DEF IdentOK, IndexLabels, Early, RunOK
<1> QED
  BY <1>1, <1>5, <1>8, <1>9 DEF RunOK, KindOK, TodoOK, BundleOK, GotOK, MomentOK, SameOK, IdentOK, Again1,
    AfterBundle, Converted, IndexLabels, Early, Storing, Ended

LEMMA CheckNamedRun ==
  ASSUME NEW p \in Procs, IInv, NEW f \in todo[p], CheckNamed(p, f)
  PROVE  RunOK(p)'
<1>1. /\ TypeOK /\ RunOK(p) /\ KindOK(p) /\ TodoOK(p) /\ OldOK(p) /\ BundleOK(p) /\ GotOK(p)
      /\ MomentOK(p) /\ SameOK(p) /\ pc[p] \in Checking
  BY DEF IInv, RunOK, CheckNamed
<1>2. content' = content /\ got' = got /\ UNCHANGED <<names, moment, seen, built>>
  BY DEF CheckNamed, source, result, ghost
<1>3. CASE Fail(p)
  BY <1>2, <1>3, FailRun DEF Fail
<1>4. CASE Visited(p, f) /\ content[f] = names[p][f]
  <2>1. CASE pc[p] \notin {"sourcesAgain", "metadataAgain", "unitSources"}
    BY <1>1, <1>2, <1>4, <2>1, VisitRun DEF Checking
  <2>2. CASE pc[p] \in {"sourcesAgain", "metadataAgain", "unitSources"}
    <3>1. pc'[p] = pc[p] /\ todo'[p] = todo[p] \ {f} /\ TodoOK(p)' /\ Listed(p)' = Listed(p)
      BY <1>1, <1>2, <1>4, VisitedFacts
    <3>2. f \in Named /\ (pc[p] # "metadataAgain" => f \in Resources) /\ f \in Files
      BY <1>1, <2>2, WorkTable DEF TodoOK, Listed, Named, Files
    <3> DEFINE Again2 == (Kind[p] = "publish") = (pc[p] # "unitSources")
    <3>3. Again2 => names[p][f] <= moment[p][f]
      BY <1>1, <2>2, <3>2, SourceConstants DEF MomentOK, Again1, IndexLabels, Early
    <3>4. names[p][f] \in Int /\ moment[p][f] \in Int /\ content[f] \in Int
      BY <1>1, <3>2 DEF TypeOK, Versions
    <3>5. Again2 => names[p][f] = moment[p][f]
      BY <1>1, <1>4, <3>2, <3>3, <3>4 DEF OldOK
    <3>6. SameOK(p)'
      BY <1>1, <1>2, <2>2, <3>1, <3>5 DEF SameOK
    <3>7. OldOK(p)'
      BY <1>1, <1>2, OldKept
    <3> QED
      BY <1>1, <1>2, <2>2, <3>1, <3>6, <3>7 DEF RunOK, KindOK, BundleOK, GotOK, MomentOK, IdentOK
  <2> QED
    BY <2>1, <2>2
<1> QED
  BY <1>3, <1>4 DEF CheckNamed

LEMMA CheckLayoutRun ==
  ASSUME NEW p \in Procs, IInv, CheckLayout(p)
  PROVE  RunOK(p)'
<1>1. /\ TypeOK /\ RunOK(p) /\ KindOK(p) /\ OldOK(p) /\ GotOK(p) /\ MomentOK(p)
      /\ BundleOK(p) /\ pc[p] \in {"layout", "layoutAgain"}
  BY DEF IInv, RunOK, CheckLayout
<1>2. content' = content /\ got' = got /\ UNCHANGED <<names, moment, seen, built>>
  BY DEF CheckLayout, source, result, ghost
<1>3. Kind[p] = "publish" /\ Kind[p] # "index"
  BY <1>1, SourceConstants DEF KindOK, IndexLabels, Early, Ended
<1>4. CASE Fail(p)
  BY <1>2, <1>4, FailRun DEF Fail
<1>5. CASE ~Fail(p)
  <2> DEFINE n == IF pc[p] = "layout" THEN "assets" ELSE "sourcesAgain"
  <2>1. Goto(p, n) /\ {r \in Resources : content[r] # 0} = Listed(p)
    BY <1>5 DEF CheckLayout, Store
  <2>2. pc'[p] = n /\ todo'[p] = Work(p, n) /\ TodoOK(p)' /\ Listed(p)' = Listed(p)
    BY <1>1, <1>2, <2>1, GotoFacts
  <2>3. \A r \in Resources : names[p][r] = 0 => content[r] = 0
    BY <2>1 DEF Listed
  <2>4. \A r \in Resources : r \in Files /\ content[r] \in Nat /\ moment[p][r] \in Nat
    BY <1>1, ConversionConstants DEF TypeOK, Files, Named, Versions
  <2>5. \A r \in Resources : names[p][r] = 0 => moment[p][r] = 0
    BY <1>1, <2>3, <2>4 DEF OldOK
  <2>6. OldOK(p)'
    BY <1>1, <1>2, OldKept
  <2>7. SameOK(p)'
    BY <1>2, <1>3, <2>2, <2>5, WorkTable DEF SameOK
  <2>8. GotOK(p)' /\ BundleOK(p)'
    BY <1>1, <1>2, <1>3, <2>2 DEF GotOK, Converted, Again1, Storing, BundleOK, AfterBundle, IndexLabels
  <2>9. MomentOK(p)' /\ KindOK(p)'
    BY <1>1, <1>2, <1>3, <2>2 DEF MomentOK, Again1, KindOK, Early
  <2> QED
    BY <1>3, <2>2, <2>6, <2>7, <2>8, <2>9 DEF RunOK, IdentOK
<1> QED
  BY <1>4, <1>5

LEMMA CheckCatalogRun ==
  ASSUME NEW p \in Procs, IInv, CheckCatalog(p)
  PROVE  RunOK(p)'
<1>1. /\ TypeOK /\ RunOK(p) /\ KindOK(p) /\ OldOK(p) /\ GotOK(p) /\ MomentOK(p)
      /\ BundleOK(p) /\ pc[p] = "catalogAgain"
  BY DEF IInv, RunOK, CheckCatalog
<1>2. content' = content /\ got' = got /\ UNCHANGED <<names, moment, seen, built>>
  BY DEF CheckCatalog, source, result, ghost
<1>3. Kind[p] = "publish" /\ Kind[p] # "index"
  BY <1>1, SourceConstants DEF KindOK, IndexLabels, Early, Ended
<1>4. CASE Fail(p)
  BY <1>2, <1>4, FailRun DEF Fail
<1>5. CASE Goto(p, "layoutAgain")
  <2>1. pc'[p] = "layoutAgain" /\ TodoOK(p)' /\ OldOK(p)'
    BY <1>1, <1>2, <1>5, GotoFacts, OldKept
  <2> QED
    BY <1>1, <1>2, <1>3, <2>1 DEF RunOK, GotOK, Converted, BundleOK, AfterBundle, MomentOK, Again1,
      KindOK, SameOK, IdentOK, Early, Storing
<1> QED
  BY <1>4, <1>5 DEF CheckCatalog

LEMMA IdentifyRun ==
  ASSUME NEW p \in Procs, IInv, NEW f \in todo[p], Identify(p, f)
  PROVE  RunOK(p)'
<1>1. TypeOK /\ RunOK(p) /\ KindOK(p) /\ OldOK(p) /\ TodoOK(p) /\ pc[p] = "identities"
  BY DEF IInv, RunOK, Identify
<1>2. content' = content /\ UNCHANGED <<names, moment, built>>
  BY DEF Identify, source, ghost
<1>3. f \in Files /\ content[f] \in Int
  BY <1>1, WorkTable DEF TodoOK, TypeOK, Files, Named, Versions
<1>4. pc'[p] = "identities" /\ TodoOK(p)' /\ Listed(p)' = Listed(p)
  BY <1>1, <1>2, VisitedFacts DEF Identify
<1>5. \A g \in Files : seen'[p][g] = IF g = f THEN content[f] ELSE seen[p][g]
  BY <1>1, <1>3 DEF Identify, TypeOK
<1>6. OldOK(p)'
  BY <1>1, <1>2, <1>3, <1>5 DEF OldOK
<1>7. Kind[p] = "index"
  BY <1>1, SourceConstants DEF KindOK, Early
<1> QED
  BY <1>1, <1>4, <1>6, <1>7 DEF RunOK, KindOK, BundleOK, GotOK, MomentOK, SameOK, IdentOK, Again1,
    AfterBundle, Converted, IndexLabels, Early, Storing, Ended

\* What the caller saw before the moment and sees again after it was there then.
LEMMA IdentifyAgainRun ==
  ASSUME NEW p \in Procs, IInv, NEW f \in todo[p], IdentifyAgain(p, f)
  PROVE  RunOK(p)'
<1>1. /\ TypeOK /\ RunOK(p) /\ KindOK(p) /\ TodoOK(p) /\ OldOK(p) /\ IdentOK(p)
      /\ pc[p] = "identitiesAgain"
  BY DEF IInv, RunOK, IdentifyAgain
<1>2. content' = content /\ got' = got /\ UNCHANGED <<names, moment, seen, built>>
  BY DEF IdentifyAgain, source, result, ghost
<1>3. CASE Fail(p)
  BY <1>2, <1>3, FailRun DEF Fail
<1>4. CASE Visited(p, f) /\ content[f] = seen[p][f]
  <2>1. pc'[p] = pc[p] /\ todo'[p] = todo[p] \ {f} /\ TodoOK(p)' /\ Listed(p)' = Listed(p)
    BY <1>1, <1>2, <1>4, VisitedFacts
  <2>2. f \in Resources /\ f \in Files
    BY <1>1, WorkTable DEF TodoOK, Files, Named
  <2>3. Kind[p] = "index"
    BY <1>1, SourceConstants DEF KindOK
  <2>4. seen[p][f] \in Int /\ moment[p][f] \in Int /\ content[f] \in Int
    BY <1>1, <2>2 DEF TypeOK, Versions
  <2>5. seen[p][f] <= moment[p][f] /\ moment[p][f] <= content[f]
    BY <1>1, <2>2, <2>3 DEF IdentOK, OldOK, IndexLabels, Early
  <2>6. seen[p][f] = moment[p][f]
    BY <1>4, <2>4, <2>5
  <2>7. IdentOK(p)'
    BY <1>1, <1>2, <2>1, <2>3, <2>6 DEF IdentOK
  <2>8. OldOK(p)'
    BY <1>1, <1>2, OldKept
  <2> QED
    BY <1>1, <1>2, <2>1, <2>7, <2>8 DEF RunOK, KindOK, BundleOK, GotOK, MomentOK, SameOK
<1> QED
  BY <1>3, <1>4 DEF IdentifyAgain

LEMMA CollectAssetRun ==
  ASSUME NEW p \in Procs, IInv, NEW a \in todo[p], CollectAsset(p, a)
  PROVE  RunOK(p)'
<1>1. TypeOK /\ RunOK(p) /\ KindOK(p) /\ OldOK(p) /\ TodoOK(p) /\ pc[p] = "assets"
  BY DEF IInv, RunOK, CollectAsset
<1>2. content' = content /\ UNCHANGED <<names, moment, built>>
  BY DEF CollectAsset, source, ghost
<1>3. a \in Assets /\ content[a] \in Int
  BY <1>1, WorkTable DEF TodoOK, TypeOK, Files, Versions
<1>4. pc'[p] = "assets" /\ TodoOK(p)' /\ Listed(p)' = Listed(p)
  BY <1>1, <1>2, VisitedFacts DEF CollectAsset
<1>5. \A b \in Files : seen'[p][b] = IF b = a THEN content[a] ELSE seen[p][b]
  BY <1>1, <1>3 DEF CollectAsset, TypeOK
<1>6. OldOK(p)'
  BY <1>1, <1>2, <1>3, <1>5 DEF OldOK
<1> QED
  BY <1>1, <1>4, <1>6 DEF RunOK, KindOK, BundleOK, GotOK, MomentOK, SameOK, IdentOK, Again1, AfterBundle,
    Converted, IndexLabels, Early, Storing, Ended

LEMMA BundleAssetRun ==
  ASSUME NEW p \in Procs, IInv, NEW a \in todo[p], BundleAsset(p, a)
  PROVE  RunOK(p)'
<1>1. TypeOK /\ RunOK(p) /\ KindOK(p) /\ OldOK(p) /\ TodoOK(p) /\ BundleOK(p) /\ pc[p] = "bundle"
  BY DEF IInv, RunOK, BundleAsset
<1>2. content' = content /\ UNCHANGED <<names, moment, seen>>
  BY DEF BundleAsset, source, ghost
<1>3. a \in Assets /\ content[a] \in Int
  BY <1>1, WorkTable DEF TodoOK, TypeOK, Files, Versions
<1>4. pc'[p] = "bundle" /\ todo'[p] = todo[p] \ {a} /\ TodoOK(p)' /\ Listed(p)' = Listed(p)
  BY <1>1, <1>2, VisitedFacts DEF BundleAsset
<1>5. \A b \in Assets : built'[p][b] = IF b = a THEN content[a] ELSE built[p][b]
  BY <1>1, <1>3 DEF BundleAsset, TypeOK
<1>6. OldOK(p)'
  BY <1>1, <1>2, <1>3, <1>5 DEF OldOK
<1>7. \A b \in Assets \ todo'[p] : seen'[p][b] <= built'[p][b]
  BY <1>1, <1>2, <1>4, <1>5 DEF BundleOK, OldOK, Files
<1> QED
  BY <1>1, <1>4, <1>6, <1>7 DEF RunOK, KindOK, BundleOK, GotOK, MomentOK, SameOK, IdentOK, Again1, AfterBundle,
    Converted, IndexLabels, Early, Storing, Ended

LEMMA CheckAssetRun ==
  ASSUME NEW p \in Procs, IInv, NEW a \in todo[p], CheckAsset(p, a)
  PROVE  RunOK(p)'
<1>1. /\ TypeOK /\ RunOK(p) /\ KindOK(p) /\ TodoOK(p) /\ OldOK(p) /\ BundleOK(p) /\ GotOK(p)
      /\ MomentOK(p) /\ SameOK(p) /\ pc[p] = "assetsAgain"
  BY DEF IInv, RunOK, CheckAsset
<1>2. content' = content /\ got' = got /\ UNCHANGED <<names, moment, seen, built>>
  BY DEF CheckAsset, source, result, ghost
<1>3. CASE Fail(p)
  BY <1>2, <1>3, FailRun DEF Fail
<1>4. CASE Visited(p, a) /\ content[a] = seen[p][a]
  <2>1. pc'[p] = pc[p] /\ todo'[p] = todo[p] \ {a} /\ TodoOK(p)' /\ Listed(p)' = Listed(p)
    BY <1>1, <1>2, <1>4, VisitedFacts
  <2>2. a \in Assets /\ a \in Files
    BY <1>1, WorkTable DEF TodoOK, Files
  <2>3. Kind[p] = "publish"
    BY <1>1, SourceConstants DEF KindOK, IndexLabels, Early, Ended
  <2>4. seen[p][a] \in Int /\ built[p][a] \in Int /\ moment[p][a] \in Int /\ content[a] \in Int
    BY <1>1, <2>2 DEF TypeOK, Versions
  <2>5. built[p][a] <= moment[p][a] /\ moment[p][a] <= content[a]
    BY <1>1, <2>2, <2>3 DEF MomentOK, OldOK, Again1
  <2>6. seen[p][a] <= built[p][a]
    BY <1>1, <2>2, <2>3 DEF BundleOK, AfterBundle, Again1
  <2>7. built[p][a] = moment[p][a]
    BY <1>4, <2>4, <2>5, <2>6
  <2>8. SameOK(p)'
    BY <1>1, <1>2, <2>1, <2>3, <2>7 DEF SameOK
  <2>9. OldOK(p)'
    BY <1>1, <1>2, OldKept
  <2> QED
    BY <1>1, <1>2, <2>1, <2>8, <2>9 DEF RunOK, KindOK, BundleOK, GotOK, MomentOK, IdentOK
<1> QED
  BY <1>3, <1>4 DEF CheckAsset

LEMMA Payloads ==
  ASSUME NEW p \in Procs, IInv, NEW k \in Keys, k.kind # "fragment", NEW e \in Found(k), NEW r \in Resources
  PROVE  e.payload[r] = k.names[r]
BY DEF IInv, EntriesAreExact, Found, Payload, Scope

LEMMA KeysAreKeys ==
  ASSUME TypeOK, NEW p \in Procs
  PROVE  /\ Keyed(p) \in Names /\ \A r \in Resources : Keyed(p)[r] = names[p][r]
         /\ UnitKey(Keyed(p)) \in Keys /\ FamilyKey(Keyed(p)) \in Keys
         /\ \A c \in Resources : FragmentKey(c, Keyed(p)) \in Keys
<1>1. Keyed(p) \in Names /\ \A r \in Resources : Keyed(p)[r] = names[p][r]
  BY DEF TypeOK, Keyed, Names, Named
<1>2. Authored \in Resources
  BY DEF Resources
<1> QED
  BY <1>1, <1>2 DEF UnitKey, FamilyKey, FragmentKey, Keys, Kinds

LEMMA LookupRun ==
  ASSUME NEW p \in Procs, IInv, Lookup(p)
  PROVE  RunOK(p)'
<1>1. /\ TypeOK /\ RunOK(p) /\ KindOK(p) /\ OldOK(p) /\ MomentOK(p) /\ BundleOK(p)
      /\ pc[p] \in {"family", "unit"}
  BY DEF IInv, RunOK, Lookup
<1>2. content' = content /\ UNCHANGED <<names, moment, seen, built>>
  BY DEF Lookup, source, ghost
<1> DEFINE k == IF pc[p] = "family" THEN FamilyKey(Keyed(p)) ELSE UnitKey(Keyed(p))
<1>3. k \in Keys /\ k.kind # "fragment" /\ \A r \in Resources : k.names[r] = names[p][r]
  BY KeysAreKeys, <1>1 DEF FamilyKey, UnitKey
<1>4. CASE Goto(p, IF pc[p] = "family" THEN "authored" ELSE "unitAuthored")
  <2> DEFINE n == IF pc[p] = "family" THEN "authored" ELSE "unitAuthored"
  <2>1. pc'[p] = n /\ todo'[p] = Work(p, n) /\ TodoOK(p)' /\ OldOK(p)' /\ Listed(p)' = Listed(p)
    BY <1>1, <1>2, <1>4, GotoFacts, OldKept
  <2>2. todo'[p] = {Authored}
    BY <2>1, WorkTable
  <2>3. n \notin Converted
    BY DEF Converted, Again1, Storing
  <2>4. KindOK(p)' /\ MomentOK(p)' /\ BundleOK(p)'
    BY <1>1, <1>2, <2>1 DEF KindOK, MomentOK, BundleOK, IndexLabels, Early, Ended, Again1, AfterBundle
  <2>5. IdentOK(p)'
    BY <1>1, <1>2, <2>1 DEF RunOK, IdentOK, KindOK, IndexLabels, Early, Ended
  <2> QED
    BY <2>1, <2>2, <2>3, <2>4, <2>5 DEF RunOK, GotOK, SameOK
<1>5. ASSUME NEW e \in Found(k), got' = [got EXCEPT ![p] = e.payload],
             Goto(p, IF pc[p] = "family" THEN "familyRows" ELSE "unitRows")
      PROVE  RunOK(p)'
  <2> DEFINE n == IF pc[p] = "family" THEN "familyRows" ELSE "unitRows"
  <2>1. pc'[p] = n /\ todo'[p] = Work(p, n) /\ TodoOK(p)' /\ OldOK(p)' /\ Listed(p)' = Listed(p)
    BY <1>1, <1>2, <1>5, GotoFacts, OldKept
  <2>2. \A r \in Resources : got'[p][r] = names[p][r]
    BY <1>1, <1>3, <1>5, Payloads DEF TypeOK
  <2>3. KindOK(p)' /\ MomentOK(p)' /\ BundleOK(p)'
    BY <1>1, <1>2, <2>1 DEF KindOK, MomentOK, BundleOK, IndexLabels, Early, Ended, Again1, AfterBundle
  <2>4. IdentOK(p)'
    BY <1>1, <1>2, <2>1 DEF RunOK, IdentOK, KindOK, IndexLabels, Early, Ended
  <2> QED
    BY <1>2, <2>1, <2>2, <2>3, <2>4 DEF RunOK, GotOK, SameOK
<1> QED
  BY <1>4, <1>5 DEF Lookup

LEMMA LookupRowRun ==
  ASSUME NEW p \in Procs, IInv, NEW c \in todo[p], LookupRow(p, c)
  PROVE  RunOK(p)'
<1>1. /\ TypeOK /\ RunOK(p) /\ KindOK(p) /\ OldOK(p) /\ MomentOK(p) /\ BundleOK(p)
      /\ pc[p] \in {"familyRows", "unitRows"}
  BY DEF IInv, RunOK, LookupRow
<1>2. content' = content /\ got' = got /\ UNCHANGED <<names, moment, seen, built>>
  BY DEF LookupRow, source, result, ghost
<1>3. CASE Visited(p, c)
  BY <1>1, <1>2, <1>3, VisitRun
<1>4. CASE Goto(p, IF pc[p] = "familyRows" THEN "authored" ELSE "unitAuthored")
  <2> DEFINE n == IF pc[p] = "familyRows" THEN "authored" ELSE "unitAuthored"
  <2>1. pc'[p] = n /\ todo'[p] = Work(p, n) /\ TodoOK(p)' /\ OldOK(p)'
    BY <1>1, <1>2, <1>4, GotoFacts, OldKept
  <2>2. todo'[p] = {Authored}
    BY <2>1, WorkTable
  <2>3. n \notin Converted
    BY DEF Converted, Again1, Storing
  <2>4. KindOK(p)' /\ MomentOK(p)' /\ BundleOK(p)'
    BY <1>1, <1>2, <2>1 DEF KindOK, MomentOK, BundleOK, IndexLabels, Early, Ended, Again1, AfterBundle
  <2>5. IdentOK(p)'
    BY <1>1, <1>2, <2>1 DEF RunOK, IdentOK, KindOK, IndexLabels, Early, Ended
  <2> QED
    BY <2>1, <2>2, <2>3, <2>4, <2>5 DEF RunOK, GotOK, SameOK
<1> QED
  BY <1>3, <1>4 DEF LookupRow

LEMMA ReadRun ==
  ASSUME NEW p \in Procs, IInv, NEW r \in todo[p], Read(p, r)
  PROVE  RunOK(p)'
<1>1. /\ TypeOK /\ RunOK(p) /\ KindOK(p) /\ TodoOK(p) /\ OldOK(p) /\ BundleOK(p) /\ GotOK(p)
      /\ MomentOK(p) /\ SameOK(p) /\ pc[p] \in {"authored", "unitAuthored", "convert"}
  BY DEF IInv, RunOK, Read
<1>2. content' = content /\ UNCHANGED <<names, moment, seen, built>>
  BY DEF Read, source, ghost
<1>3. CASE Fail(p)
  BY <1>2, <1>3, FailRun DEF Fail
<1>4. CASE /\ content[r] = names[p][r] /\ Visited(p, r)
           /\ got' = [got EXCEPT ![p] = [s \in Resources |->
                         IF s = r THEN content[r] ELSE IF r = Authored THEN 0 ELSE @[s]]]
  <2>1. pc'[p] = pc[p] /\ todo'[p] = todo[p] \ {r} /\ TodoOK(p)' /\ Listed(p)' = Listed(p)
    BY <1>1, <1>2, <1>4, VisitedFacts
  <2>2. /\ r \in Resources /\ r \in Named /\ r \in Files
        /\ IF pc[p] = "convert" THEN r # Authored /\ r \in Listed(p) ELSE r = Authored
    BY <1>1, WorkTable DEF TodoOK, Rows, Listed, Named, Files, Resources
  <2>3. \A s \in Resources :
          got'[p][s] = IF s = r THEN content[r] ELSE IF r = Authored THEN 0 ELSE got[p][s]
    BY <1>1, <1>4 DEF TypeOK
  <2>4. GotOK(p)'
    <3>1. CASE pc[p] = "convert"
      BY <1>1, <1>2, <1>4, <2>1, <2>2, <2>3, <3>1 DEF GotOK, Converted, Again1, Storing
    <3>2. CASE pc[p] = "unitAuthored"
      BY <1>1, <1>2, <1>4, <2>1, <2>2, <2>3, <3>2 DEF GotOK, Converted, Again1, Storing
    <3>3. CASE pc[p] = "authored"
      BY <2>1, <3>3 DEF GotOK, Converted, Again1, Storing
    <3> QED
      BY <1>1, <3>1, <3>2, <3>3
  <2>5. Kind[p] = "index" => names[p][r] = moment[p][r]
    <3>1. names[p][r] \in Int /\ moment[p][r] \in Int /\ content[r] \in Int
      BY <1>1, <2>2 DEF TypeOK, Versions
    <3>2. Kind[p] = "index" => names[p][r] <= moment[p][r] /\ moment[p][r] <= content[r]
      BY <1>1, <2>2 DEF MomentOK, KindOK, OldOK, IndexLabels, Early, Ended
    <3> QED
      BY <1>4, <3>1, <3>2
  <2>6. SameOK(p)'
    BY <1>1, <1>2, <2>1, <2>2, <2>5 DEF SameOK
  <2>7. OldOK(p)'
    BY <1>1, <1>2, OldKept
  <2>8. IdentOK(p)'
    BY <1>1, <1>2, <2>1 DEF RunOK, IdentOK
  <2> QED
    BY <1>1, <1>2, <2>1, <2>4, <2>6, <2>7, <2>8 DEF RunOK, KindOK, BundleOK, MomentOK
<1> QED
  BY <1>3, <1>4 DEF Read

LEMMA AssembleRun ==
  ASSUME NEW p \in Procs, IInv, NEW c \in todo[p], Assemble(p, c)
  PROVE  RunOK(p)'
<1>1. TypeOK /\ RunOK(p) /\ TodoOK(p) /\ GotOK(p) /\ EntriesAreExact /\ pc[p] = "assemble"
  BY DEF IInv, RunOK, Assemble
<1>2. content' = content /\ UNCHANGED <<names, moment, seen, built>>
  BY DEF Assemble, source, ghost
<1>3. CASE Fail(p)
  BY <1>2, <1>3, FailRun DEF Fail
<1>4. ASSUME NEW e \in Found(FragmentKey(c, Keyed(p))), Visited(p, c),
             got' = [got EXCEPT ![p][c] = e.payload[c]]
      PROVE  RunOK(p)'
  <2>1. c \in Resources
    BY <1>1, WorkTable DEF TodoOK, Rows, Listed
  <2>2. e.payload[c] = names[p][c]
    <3>1. e \in cache /\ e.whole /\ e.key = FragmentKey(c, Keyed(p))
      BY DEF Found
    <3>2. e.payload = Payload(e.key, e.key.names)
      BY <1>1, <3>1 DEF EntriesAreExact
    <3>3. e.key.kind = "fragment" /\ e.key.capture = c /\ e.key.names = Keyed(p)
      BY <3>1 DEF FragmentKey
    <3> QED
      BY <2>1, <3>2, <3>3 DEF Payload, Scope, Keyed
  <2>3. got'[p] = got[p]
    <3>1. got[p] \in Names /\ got[p][c] = names[p][c]
      BY <1>1, <2>1 DEF TypeOK, GotOK, Converted
    <3>2. got'[p] = [got[p] EXCEPT ![c] = got[p][c]]
      BY <1>1, <1>4, <2>2, <3>1 DEF TypeOK
    <3> QED
      BY <3>1, <3>2 DEF Names
  <2> QED
    BY <1>1, <1>2, <1>4, <2>3, VisitRun
<1> QED
  BY <1>3, <1>4 DEF Assemble

LEMMA StoreRun ==
  ASSUME NEW p \in Procs, IInv, NEW f \in todo[p], BeginStore(p, f) \/ EndStore(p, f)
  PROVE  RunOK(p)'
<1>1. TypeOK /\ RunOK(p) /\ pc[p] \in Storing
  BY DEF IInv, RunOK, BeginStore, EndStore
<1>2. content' = content /\ got' = got /\ UNCHANGED <<names, moment, seen, built>>
  BY DEF BeginStore, EndStore, source, result, ghost
<1>3. CASE BeginStore(p, f)
  <2>1. pc' = pc /\ todo' = todo /\ content' \in [Files -> Versions]
    BY <1>1, <1>2, <1>3 DEF BeginStore, progress, TypeOK
  <2>2. \A g \in Files : content[g] <= content'[g]
    BY <1>1, <1>2 DEF TypeOK, Versions
  <2> QED
    BY <1>1, <1>2, <2>1, <2>2, Frame
<1>4. CASE EndStore(p, f)
  BY <1>1, <1>2, <1>4, VisitRun DEF EndStore, Storing
<1> QED
  BY <1>3, <1>4

LEMMA KillRun ==
  ASSUME NEW p \in Procs, IInv, Kill(p)
  PROVE  RunOK(p)'
BY FailRun DEF Kill, source, result, ghost

LEMMA AgainRun ==
  ASSUME NEW p \in Procs, IInv, Again(p)
  PROVE  RunOK(p)'
<1>1. TypeOK /\ content' = content
  BY DEF IInv, Again, source
<1>2. pc'[p] = "idle" /\ todo'[p] = {}
  BY <1>1, GotoFacts, WorkTable DEF Again
<1>3. /\ names'[p] = [f \in Named |-> 0] /\ seen'[p] = [f \in Files |-> 0]
      /\ built'[p] = [a \in Assets |-> 0] /\ moment'[p] = [f \in Files |-> 0]
  BY <1>1 DEF Again, TypeOK
<1>4. \A f \in Files : content[f] \in Nat
  BY <1>1, ConversionConstants DEF TypeOK, Versions
<1>5. OldOK(p)'
  <2>1. Named \subseteq Files /\ Assets \subseteq Files
    BY DEF Files, Named
  <2> QED
    BY <1>1, <1>3, <1>4, <2>1 DEF OldOK
<1> QED
  BY <1>2, <1>5 DEF RunOK, KindOK, TodoOK, BundleOK, GotOK, MomentOK, SameOK, IdentOK, Again1, AfterBundle,
    Converted, IndexLabels, Early, Storing, Ended

LEMMA ActingRun ==
  ASSUME NEW p \in Procs, IInv, Step(p) \/ Kill(p) \/ Again(p)
  PROVE  RunOK(p)'
BY StartRun, ListingRun, LoopEndRun, CheckLayoutRun, CheckCatalogRun, LookupRun, IdentifyRun,
   InventoryRun, IdentifyAgainRun, CheckNamedRun, CollectAssetRun, BundleAssetRun, CheckAssetRun, LookupRowRun, ReadRun, StoreRun, AssembleRun,
   KillRun, AgainRun DEF Step

-----------------------------------------------------------------------------
(* The other runs, and the world around.                                   *)

LEMMA OthersRun ==
  ASSUME NEW p \in Procs, NEW q \in Procs \ {p}, TypeOK, Step(p) \/ Kill(p) \/ Again(p)
  PROVE  /\ pc'[q] = pc[q] /\ todo'[q] = todo[q] /\ names'[q] = names[q] /\ got'[q] = got[q]
         /\ seen'[q] = seen[q] /\ built'[q] = built[q] /\ moment'[q] = moment[q]
<1>1. \A l : Goto(p, l) => pc'[q] = pc[q] /\ todo'[q] = todo[q]
  BY DEF Goto, TypeOK
<1>2. \A f : Visited(p, f) => pc'[q] = pc[q] /\ todo'[q] = todo[q]
  BY DEF Visited, TypeOK
<1>3. CASE Start(p)
  BY <1>1, <1>3 DEF Start, TypeOK
<1>4. CASE LoopEnd(p)
  BY <1>1, <1>4 DEF LoopEnd, TypeOK, result
<1>5. CASE CheckLayout(p) \/ CheckCatalog(p) \/ Kill(p)
  BY <1>1, <1>5 DEF CheckLayout, CheckCatalog, Kill, Fail, result, ghost
<1>6. CASE Lookup(p)
  BY <1>1, <1>6 DEF Lookup, TypeOK, ghost
<1>7. CASE Again(p)
  BY <1>1, <1>7 DEF Again, TypeOK
<1>8. ASSUME NEW f \in todo[p],
             \/ Identify(p, f) \/ Inventory(p, f) \/ CollectAsset(p, f) \/ BundleAsset(p, f)
             \/ Read(p, f) \/ Assemble(p, f)
      PROVE  /\ pc'[q] = pc[q] /\ todo'[q] = todo[q] /\ names'[q] = names[q] /\ got'[q] = got[q]
             /\ seen'[q] = seen[q] /\ built'[q] = built[q] /\ moment'[q] = moment[q]
  BY <1>1, <1>2, <1>8 DEF Identify, Inventory, CollectAsset, BundleAsset, Read, Assemble, Fail, TypeOK, ghost
<1>9. ASSUME NEW f \in todo[p],
             \/ CheckNamed(p, f) \/ CheckAsset(p, f) \/ LookupRow(p, f) \/ BeginStore(p, f)
             \/ EndStore(p, f) \/ IdentifyAgain(p, f)
      PROVE  /\ pc'[q] = pc[q] /\ todo'[q] = todo[q] /\ names'[q] = names[q] /\ got'[q] = got[q]
             /\ seen'[q] = seen[q] /\ built'[q] = built[q] /\ moment'[q] = moment[q]
  BY <1>1, <1>2, <1>9
    DEF IdentifyAgain, CheckNamed, CheckAsset, LookupRow, BeginStore, EndStore, Fail, result, ghost, progress
<1> QED
  BY <1>3, <1>4, <1>5, <1>6, <1>7, <1>8, <1>9 DEF Step

\* Persisting a run's result writes what the key says.
LEMMA StoredIsExact ==
  ASSUME NEW p \in Procs, IInv, NEW f \in todo[p], EndStore(p, f)
  PROVE  EntriesAreExact'
<1>1. TypeOK /\ RunOK(p) /\ EntriesAreExact /\ pc[p] \in Storing
  BY DEF IInv, EndStore
<1> DEFINE k == StoreKey(p, f)
           e1 == [key |-> k, whole |-> TRUE, payload |-> Payload(k, got[p])]
<1>2. cache' = {e \in cache : e.key # k} \union {e1}
  BY DEF EndStore, Persist, Put
<1>3. k.names = Keyed(p)
  BY DEF StoreKey, FragmentKey, UnitKey, FamilyKey
<1>4. \A r \in Resources : got[p][r] = Keyed(p)[r]
  BY <1>1 DEF RunOK, GotOK, Converted, Storing, Keyed
<1>5. Payload(k, got[p]) = Payload(k, k.names)
  BY <1>3, <1>4 DEF Payload
<1>6. \A e \in cache' : e.whole => e.payload = Payload(e.key, e.key.names)
  BY <1>1, <1>2, <1>5 DEF EntriesAreExact
<1> QED
  BY <1>6 DEF EntriesAreExact

LEMMA ExactKept ==
  ASSUME IInv, [Next]_vars
  PROVE  EntriesAreExact'
<1>1. EntriesAreExact
  BY DEF IInv
<1>2. CASE cache' \subseteq cache
  BY <1>1, <1>2 DEF EntriesAreExact, Payload, Scope
<1>3. ASSUME NEW p \in Procs, NEW f \in todo[p], EndStore(p, f)
      PROVE  EntriesAreExact'
  BY <1>3, StoredIsExact
<1>4. CASE Tamper
  <2>1. PICK e \in cache : Evict(e) \/ Damage(e)
    BY <1>4 DEF Tamper
  <2>2. CASE Damage(e)
    <3>1. cache' = (cache \ {e}) \union {[e EXCEPT !.whole = FALSE]}
      BY <2>2 DEF Damage
    <3>2. [e EXCEPT !.whole = FALSE].whole = FALSE
      BY DEF IInv, TypeOK, CacheTypeOK, Entries
    <3>3. \A d \in cache' : d.whole => d \in cache
      BY <3>1, <3>2
    <3> QED
      BY <1>1, <3>3 DEF EntriesAreExact, Payload, Scope
  <2> QED
    BY <1>2, <2>1, <2>2 DEF Evict
<1>5. ASSUME NEW p \in Procs, Step(p), \A f \in todo[p] : ~EndStore(p, f)
      PROVE  cache' = cache
  BY <1>5 DEF Step, Start, LoopEnd, CheckLayout, CheckCatalog, Lookup, Identify, Inventory,
    IdentifyAgain, CheckNamed,
    CollectAsset, BundleAsset, CheckAsset, LookupRow, Read, BeginStore, WriteTemporary, Assemble
<1>6. ASSUME NEW p \in Procs, Kill(p) \/ Again(p)
      PROVE  cache' = cache
  BY <1>6 DEF Kill, Again
<1>7. CASE Regenerate \/ (\E f \in Files : Edit(f)) \/ UNCHANGED vars
  BY <1>2, <1>7 DEF Regenerate, Edit, vars
<1> QED
  BY <1>2, <1>3, <1>4, <1>5, <1>6, <1>7 DEF Next

\* What a step may write to the cache directory.
LEMMA PutTypes ==
  ASSUME CacheTypeOK, NEW k \in Keys, NEW w \in BOOLEAN, NEW v \in Names, Put(k, w, v)
  PROVE  CacheTypeOK'
<1> DEFINE e1 == [key |-> k, whole |-> w, payload |-> Payload(k, v)]
<1>1. cache' = {e \in cache : e.key # k} \union {e1}
  BY DEF Put
<1>2. Payload(k, v) \in Names
  BY ConversionConstants DEF Payload, Names, Versions
<1>3. e1 \in Entries
  BY <1>2 DEF Entries
<1>4. cache' \subseteq Entries
  BY <1>1, <1>3 DEF CacheTypeOK
<1>5. \A e, f \in cache' : e.key = f.key => e = f
  BY <1>1 DEF CacheTypeOK
<1> QED
  BY <1>4, <1>5 DEF CacheTypeOK, Entries, Keys, Kinds, Names

LEMMA TamperTypes ==
  ASSUME CacheTypeOK, NEW e \in cache, Evict(e) \/ Damage(e)
  PROVE  CacheTypeOK'
<1>1. CASE Evict(e)
  BY <1>1 DEF Evict, CacheTypeOK, Entries, Keys, Kinds, Names
<1>2. CASE Damage(e)
  <2> DEFINE d == [e EXCEPT !.whole = FALSE]
  <2>1. e \in Entries /\ cache' = (cache \ {e}) \union {d}
    BY <1>2 DEF Damage, CacheTypeOK
  <2>2. d \in Entries /\ d.key = e.key
    BY <2>1 DEF Entries
  <2>3. cache' \subseteq Entries
    BY <2>1, <2>2 DEF CacheTypeOK
  <2>4. \A g, h \in cache' : g.key = h.key => g = h
    BY <2>1, <2>2 DEF CacheTypeOK
  <2> QED
    BY <2>3, <2>4 DEF CacheTypeOK, Entries, Keys, Kinds, Names
<1> QED
  BY <1>1, <1>2

LEMMA GotoTypes ==
  ASSUME TypeOK, NEW p \in Procs, NEW l \in Labels, Goto(p, l)
  PROVE  pc' \in [Procs -> Labels] /\ todo' \in [Procs -> SUBSET Files]
<1>1. Work(p, l) \in SUBSET Files
  BY WorkIsFiles
<1> QED
  BY <1>1 DEF TypeOK, Goto

LEMMA VisitedTypes ==
  ASSUME TypeOK, NEW p \in Procs, NEW f, Visited(p, f)
  PROVE  pc' \in [Procs -> Labels] /\ todo' \in [Procs -> SUBSET Files]
<1>1. todo[p] \ {f} \in SUBSET Files
  BY DEF TypeOK
<1> QED
  BY <1>1 DEF TypeOK, Visited

\* The labels a step can go to.
LEMMA NextLabels ==
  ASSUME NEW p \in Procs
  PROVE  /\ \A l \in Loops : After(p, l) \in Labels
         /\ {"failed", "dead", "idle", "metadata", "assets", "sourcesAgain", "layoutAgain", "authored",
             "unitAuthored", "familyRows", "unitRows", "inventory", "identities"} \subseteq Labels
<1>1. ASSUME NEW l \in Loops PROVE After(p, l) \in Labels
  BY AfterTable DEF Loops, Labels, Storing, Checking, Ended
<1> QED
  BY <1>1 DEF Labels, Storing, Checking, Ended

LEMMA TypesOfSteps ==
  ASSUME IInv, NEW p \in Procs, Step(p) \/ Kill(p) \/ Again(p)
  PROVE  /\ pc' \in [Procs -> Labels] /\ todo' \in [Procs -> SUBSET Files]
         /\ CacheTypeOK' /\ temp' \in [Procs -> SUBSET Keys]
<1> USE NextLabels
<1>0. TypeOK
  BY DEF IInv
<1>1. ASSUME UNCHANGED cache PROVE CacheTypeOK'
  BY <1>0, <1>1 DEF TypeOK, CacheTypeOK, Entries, Keys, Kinds, Names
<1>2. ASSUME UNCHANGED temp PROVE temp' \in [Procs -> SUBSET Keys]
  BY <1>0, <1>2 DEF TypeOK, Keys, Kinds, Names
<1>3. CASE Start(p)
  <2>1. Goto(p, "metadata") \/ Goto(p, "identities")
    BY <1>3 DEF Start
  <2> QED
    BY <2>1, <1>1, <1>2, <1>3, <1>0, GotoTypes DEF Start
<1>4. CASE LoopEnd(p)
  BY <1>1, <1>2, <1>4, <1>0, GotoTypes DEF LoopEnd
<1>5. CASE CheckLayout(p)
  BY <1>1, <1>2, <1>5, <1>0, GotoTypes DEF CheckLayout, Fail
<1>6. CASE CheckCatalog(p)
  BY <1>1, <1>2, <1>6, <1>0, GotoTypes DEF CheckCatalog, Fail
<1>7. CASE Lookup(p)
  <2>1. \/ Goto(p, "authored") \/ Goto(p, "unitAuthored") \/ Goto(p, "familyRows") \/ Goto(p, "unitRows")
    BY <1>7 DEF Lookup
  <2> QED
    BY <2>1, <1>1, <1>2, <1>7, <1>0, GotoTypes DEF Lookup
<1>8. CASE Kill(p)
  BY <1>1, <1>2, <1>8, <1>0, GotoTypes DEF Kill
<1>9. CASE Again(p)
  BY <1>1, <1>9, <1>0, GotoTypes DEF Again, TypeOK
<1>10. ASSUME NEW f \in todo[p],
              \/ Identify(p, f) \/ Inventory(p, f) \/ IdentifyAgain(p, f)
              \/ CheckNamed(p, f) \/ CollectAsset(p, f) \/ BundleAsset(p, f)
              \/ CheckAsset(p, f) \/ LookupRow(p, f) \/ Read(p, f) \/ Assemble(p, f)
       PROVE  /\ pc' \in [Procs -> Labels] /\ todo' \in [Procs -> SUBSET Files]
              /\ CacheTypeOK' /\ temp' \in [Procs -> SUBSET Keys]
  <2>1. \/ Visited(p, f) \/ Goto(p, "failed") \/ Goto(p, "authored") \/ Goto(p, "unitAuthored")
    BY <1>10 DEF Identify, Inventory, IdentifyAgain, CheckNamed, CollectAsset, BundleAsset, CheckAsset,
      LookupRow, Read, Assemble, Fail
  <2>2. UNCHANGED <<cache, temp>>
    BY <1>10 DEF Identify, Inventory, IdentifyAgain, CheckNamed, CollectAsset, BundleAsset, CheckAsset,
      LookupRow, Read, Assemble
  <2> QED
    BY <2>1, <2>2, <1>1, <1>2, <1>0, GotoTypes, VisitedTypes
<1>11. ASSUME NEW f \in todo[p], BeginStore(p, f) \/ EndStore(p, f)
       PROVE  /\ pc' \in [Procs -> Labels] /\ todo' \in [Procs -> SUBSET Files]
              /\ CacheTypeOK' /\ temp' \in [Procs -> SUBSET Keys]
  <2>1. pc[p] \in Storing
    BY <1>11 DEF BeginStore, EndStore
  <2>2. StoreKey(p, f) \in Keys
    <3>1. pc[p] = "storeRows" => f \in Resources
      BY WorkTable DEF IInv, RunOK, TodoOK, Rows, Listed
    <3> QED
      BY <1>0, KeysAreKeys, <3>1 DEF StoreKey
  <2>3. CASE BeginStore(p, f)
    <3>1. UNCHANGED <<cache, pc, todo>> /\ temp' = [temp EXCEPT ![p] = {StoreKey(p, f)}]
      BY <2>3 DEF BeginStore, WriteTemporary, progress
    <3> QED
      BY <1>0, <1>1, <2>2, <3>1 DEF TypeOK
  <2>4. CASE EndStore(p, f)
    <3>1. Visited(p, f) /\ temp' = [temp EXCEPT ![p] = {}] /\ Put(StoreKey(p, f), TRUE, got[p])
      BY <2>4 DEF EndStore, Persist
    <3>2. got[p] \in Names /\ CacheTypeOK
      BY <1>0 DEF TypeOK
    <3>3. CacheTypeOK'
      BY <2>2, <3>1, <3>2, PutTypes
    <3>4. temp' \in [Procs -> SUBSET Keys]
      BY <1>0, <3>1 DEF TypeOK
    <3> QED
      BY <1>0, <3>1, <3>3, <3>4, VisitedTypes
  <2> QED
    BY <1>11, <2>3, <2>4
<1> QED
  BY <1>3, <1>4, <1>5, <1>6, <1>7, <1>8, <1>9, <1>10, <1>11 DEF Step

LEMMA DataOfSteps ==
  ASSUME IInv, NEW p \in Procs, Step(p) \/ Kill(p) \/ Again(p)
  PROVE  /\ names' \in [Procs -> [Named -> Versions]] /\ got' \in [Procs -> Names]
         /\ seen' \in [Procs -> [Files -> Versions]] /\ built' \in [Procs -> [Assets -> Versions]]
         /\ moment' \in [Procs -> [Files -> Versions]] /\ disturbed' \in [Procs -> BOOLEAN]
<1> DEFINE Fine == /\ names' \in [Procs -> [Named -> Versions]] /\ got' \in [Procs -> Names]
                   /\ seen' \in [Procs -> [Files -> Versions]]
                   /\ built' \in [Procs -> [Assets -> Versions]]
                   /\ moment' \in [Procs -> [Files -> Versions]] /\ disturbed' \in [Procs -> BOOLEAN]
<1>0. TypeOK /\ TodoOK(p)
  BY DEF IInv, RunOK
<1>1. 0 \in Versions /\ Resources \subseteq Named /\ Named \subseteq Files /\ Assets \subseteq Files
  BY ConversionConstants DEF Versions, Named, Files
<1>2. CASE Start(p)
  BY <1>0, <1>2 DEF Start, TypeOK
<1>3. CASE LoopEnd(p)
  BY <1>0, <1>3 DEF LoopEnd, TypeOK, result
<1>4. CASE CheckLayout(p) \/ CheckCatalog(p) \/ Kill(p)
  BY <1>0, <1>4 DEF CheckLayout, CheckCatalog, Kill, TypeOK, result, ghost
<1>5. CASE Lookup(p)
  <2>1. \A k : \A e \in Found(k) : e.payload \in Names
    BY <1>0 DEF Found, TypeOK, CacheTypeOK, Entries
  <2> QED
    BY <1>0, <1>5, <2>1 DEF Lookup, TypeOK, ghost
<1>6. CASE Again(p)
  <2>1. [r \in Resources |-> 0] \in Names
    BY <1>1 DEF Names
  <2> QED
    BY <1>0, <1>1, <1>6, <2>1 DEF Again, TypeOK
<1>7. ASSUME NEW f \in todo[p],
             \/ CheckNamed(p, f) \/ CheckAsset(p, f) \/ LookupRow(p, f) \/ BeginStore(p, f)
             \/ EndStore(p, f) \/ IdentifyAgain(p, f)
      PROVE  Fine
  BY <1>0, <1>7 DEF IdentifyAgain, CheckNamed, CheckAsset, LookupRow, BeginStore, EndStore, TypeOK, result, ghost
<1>8. ASSUME NEW f \in todo[p], Inventory(p, f)
      PROVE  Fine
  <2>1. f \in Named /\ content[f] \in Versions
    BY <1>0, <1>1, <1>8 DEF Inventory, TodoOK, TypeOK
  <2> QED
    BY <1>0, <1>8, <2>1 DEF Inventory, TypeOK, ghost
<1>9. ASSUME NEW f \in todo[p], Identify(p, f) \/ CollectAsset(p, f) \/ BundleAsset(p, f)
      PROVE  Fine
  <2>1. f \in Files /\ content[f] \in Versions /\ (BundleAsset(p, f) => f \in Assets)
    BY <1>0, <1>1, <1>9, WorkTable DEF Identify, CollectAsset, BundleAsset, TodoOK, TypeOK
  <2>2. CASE Identify(p, f) \/ CollectAsset(p, f)
    <3>1. seen' = [seen EXCEPT ![p] = [seen[p] EXCEPT ![f] = content[f]]]
      BY <2>2 DEF Identify, CollectAsset
    <3>2. [seen[p] EXCEPT ![f] = content[f]] \in [Files -> Versions]
      BY <1>0, <2>1 DEF TypeOK
    <3> QED
      BY <1>0, <2>2, <3>1, <3>2 DEF Identify, CollectAsset, TypeOK, ghost
  <2>3. CASE BundleAsset(p, f)
    <3>1. built' = [built EXCEPT ![p] = [built[p] EXCEPT ![f] = content[f]]]
      BY <2>3 DEF BundleAsset
    <3>2. [built[p] EXCEPT ![f] = content[f]] \in [Assets -> Versions]
      BY <1>0, <2>1, <2>3 DEF TypeOK
    <3> QED
      BY <1>0, <2>3, <3>1, <3>2 DEF BundleAsset, TypeOK, ghost
  <2> QED
    BY <1>9, <2>2, <2>3
<1>10. ASSUME NEW f \in todo[p], Read(p, f)
       PROVE  Fine
  <2>1. content[f] \in Versions
    BY <1>0 DEF TypeOK
  <2>2. [s \in Resources |-> IF s = f THEN content[f] ELSE IF f = Authored THEN 0 ELSE got[p][s]] \in Names
    BY <1>0, <1>1, <2>1 DEF TypeOK, Names
  <2> QED
    BY <1>0, <1>10, <2>2 DEF Read, TypeOK, ghost
<1>11. ASSUME NEW f \in todo[p], Assemble(p, f)
       PROVE  Fine
  <2>1. \A k : \A e \in Found(k) : e.payload \in Names
    BY <1>0 DEF Found, TypeOK, CacheTypeOK, Entries
  <2>3. f \in Resources
    BY <1>0, <1>11, WorkTable DEF Assemble, TodoOK, Rows, Listed
  <2>2. \A e \in Found(FragmentKey(f, Keyed(p))) : [got[p] EXCEPT ![f] = e.payload[f]] \in Names
    <3> TAKE e \in Found(FragmentKey(f, Keyed(p)))
    <3>1. e.payload \in [Resources -> Versions] /\ got[p] \in [Resources -> Versions]
      BY <1>0, <2>1 DEF TypeOK, Names
    <3> QED
      BY <2>3, <3>1 DEF Names
  <2> QED
    BY <1>0, <1>11, <2>2 DEF Assemble, TypeOK, ghost
<1> QED
  BY <1>2, <1>3, <1>4, <1>5, <1>6, <1>7, <1>8, <1>9, <1>10, <1>11 DEF Step

LEMMA SourceOfSteps ==
  ASSUME TypeOK, NEW p \in Procs, Step(p) \/ Kill(p) \/ Again(p)
  PROVE  /\ UNCHANGED <<content, catalog, edits, tampered>>
         /\ faults' \in 0..MaxFaults
<1>1. UNCHANGED <<content, catalog, edits, tampered>>
  BY DEF Step, Start, LoopEnd, CheckLayout, CheckCatalog, Lookup, Identify, Inventory,
    IdentifyAgain, CheckNamed, CollectAsset,
    BundleAsset, CheckAsset, LookupRow, Read, BeginStore, EndStore, Assemble, Kill, Again, source, bounds
<1>2. faults' = faults \/ (faults < MaxFaults /\ faults' = faults + 1)
  BY DEF Step, Start, LoopEnd, CheckLayout, CheckCatalog, Lookup, Identify, Inventory,
    IdentifyAgain, CheckNamed, CollectAsset,
    BundleAsset, CheckAsset, LookupRow, Read, BeginStore, EndStore, Assemble, Kill, Again, source, bounds
<1>3. faults \in 0..MaxFaults /\ MaxFaults \in Nat
  BY SourceConstants DEF TypeOK
<1> QED
  BY <1>1, <1>2, <1>3

-----------------------------------------------------------------------------
(* The invariant is inductive.                                             *)

LEMMA RunStep ==
  ASSUME IInv, NEW p \in Procs, Step(p) \/ Kill(p) \/ Again(p)
  PROVE  IInv'
<1>1. TypeOK /\ CatalogOK
  BY DEF IInv
<1>2. UNCHANGED <<content, catalog, edits, tampered>> /\ faults' \in 0..MaxFaults
  BY <1>1, SourceOfSteps
<1>3. TypeOK'
  <2>1. content' \in [Files -> Versions] /\ catalog' \in [Named -> Versions]
    BY <1>1, <1>2 DEF TypeOK
  <2>2. edits' \in 0..MaxEdits /\ tampered' \in BOOLEAN
    BY <1>1, <1>2 DEF TypeOK
  <2>3. /\ pc' \in [Procs -> Labels] /\ todo' \in [Procs -> SUBSET Files]
        /\ CacheTypeOK' /\ temp' \in [Procs -> SUBSET Keys]
    BY TypesOfSteps
  <2>4. /\ names' \in [Procs -> [Named -> Versions]] /\ got' \in [Procs -> Names]
        /\ seen' \in [Procs -> [Files -> Versions]] /\ built' \in [Procs -> [Assets -> Versions]]
        /\ moment' \in [Procs -> [Files -> Versions]] /\ disturbed' \in [Procs -> BOOLEAN]
    BY DataOfSteps
  <2> QED
    BY <1>2, <2>1, <2>2, <2>3, <2>4 DEF TypeOK, Files, Named, Resources, Versions, Labels, Names, Keys,
      Kinds, Ended, Storing, Checking
<1>4. CatalogOK'
  BY <1>1, <1>2 DEF CatalogOK, Named, Resources
<1>5. EntriesAreExact'
  <2>1. Next
    BY DEF Next
  <2> QED
    BY <2>1, ExactKept
<1>6. RunOK(p)'
  BY ActingRun
<1>7. ASSUME NEW q \in Procs \ {p} PROVE RunOK(q)'
  <2>1. /\ pc'[q] = pc[q] /\ todo'[q] = todo[q] /\ names'[q] = names[q] /\ got'[q] = got[q]
        /\ seen'[q] = seen[q] /\ built'[q] = built[q] /\ moment'[q] = moment[q]
    BY <1>1, OthersRun
  <2>2. content' \in [Files -> Versions] /\ \A f \in Files : content[f] <= content'[f]
    BY <1>1, <1>2 DEF TypeOK, Versions
  <2>3. RunOK(q)
    BY DEF IInv
  <2> QED
    BY <1>1, <2>1, <2>2, <2>3, Frame
<1> QED
  BY <1>3, <1>4, <1>5, <1>6, <1>7 DEF IInv

LEMMA WorldStep ==
  ASSUME IInv, (\E f \in Files : Edit(f)) \/ Regenerate \/ Tamper \/ UNCHANGED vars
  PROVE  IInv'
<1>1. TypeOK /\ CatalogOK
  BY DEF IInv
<1>2. UNCHANGED <<pc, todo, names, got, seen, built, moment, temp>>
  BY DEF Edit, Regenerate, Tamper, vars, progress, result, source, ghost
<1>3. content' \in [Files -> Versions] /\ \A f \in Files : content[f] <= content'[f]
  <2>1. \A f \in Files : content[f] \in Int
    BY <1>1 DEF TypeOK, Versions
  <2>2. ASSUME NEW f \in Files, Edit(f)
        PROVE  content' \in [Files -> Versions] /\ \A g \in Files : content[g] <= content'[g]
    <3>1. content[f] + 1 \in Versions
      BY <1>1, <2>2, ConversionConstants DEF Edit, TypeOK, Versions
    <3>2. content' = [content EXCEPT ![f] = content[f] + 1]
      BY <2>2 DEF Edit
    <3> QED
      BY <1>1, <2>1, <3>1, <3>2 DEF TypeOK
  <2>3. CASE Regenerate \/ Tamper \/ UNCHANGED vars
    <3>1. content' = content
      BY <2>3 DEF Regenerate, Tamper, vars, source
    <3> QED
      BY <1>1, <2>1, <3>1 DEF TypeOK
  <2> QED
    BY <2>2, <2>3
<1>4. catalog' \in [Named -> Versions] /\ CatalogOK'
  <2>5. Named \subseteq Files
    BY DEF Files, Named
  <2>6. \A f \in Files : content[f] \in Int
    BY <1>1 DEF TypeOK, Versions
  <2>7. \A f \in Files : content'[f] \in Int
    <3>1. Versions \subseteq Int
      BY DEF Versions
    <3> QED
      BY <1>3, <3>1
  <2>1. Named \subseteq Files /\ \A f \in Files : content[f] \in Int /\ content'[f] \in Int
    BY <2>5, <2>6, <2>7
  <2>2. \A f \in Named : catalog[f] \in Int
    BY <1>1 DEF TypeOK, Versions
  <2>3. CASE catalog' = catalog
    BY <1>1, <1>3, <2>1, <2>2, <2>3 DEF CatalogOK, TypeOK, Named, Resources
  <2>4. CASE Regenerate
    <3>1. catalog' = [f \in Named |-> content[f]] /\ content' = content
      BY <2>4 DEF Regenerate
    <3> QED
      BY <1>1, <2>1, <3>1 DEF CatalogOK, TypeOK, Named, Resources
  <2> QED
    BY <2>3, <2>4 DEF Edit, Tamper, vars, source
<1>5. CacheTypeOK'
  <2>1. CASE UNCHANGED cache
    BY <1>1, <2>1 DEF TypeOK, CacheTypeOK, Entries, Keys, Kinds, Names
  <2>2. CASE Tamper
    BY <1>1, <2>2, TamperTypes DEF Tamper, TypeOK
  <2> QED
    BY <2>1, <2>2 DEF Edit, Regenerate, vars
<1>6. disturbed' \in [Procs -> BOOLEAN] /\ tampered' \in BOOLEAN
  <2>1. Disturb => disturbed' \in [Procs -> BOOLEAN]
    BY <1>1 DEF Disturb, TypeOK
  <2> QED
    BY <1>1, <2>1 DEF Edit, Regenerate, Tamper, vars, ghost, bounds, TypeOK
<1>7. edits' \in 0..MaxEdits /\ faults' \in 0..MaxFaults
  <2>1. edits \in 0..MaxEdits /\ faults \in 0..MaxFaults /\ MaxEdits \in Nat /\ MaxFaults \in Nat
    BY <1>1, SourceConstants DEF TypeOK
  <2>2. edits' = edits \/ (edits < MaxEdits /\ edits' = edits + 1)
    BY DEF Edit, Regenerate, Tamper, vars, source
  <2>3. faults' = faults \/ (faults < MaxFaults /\ faults' = faults + 1)
    BY DEF Edit, Regenerate, Tamper, vars, bounds
  <2> QED
    BY <2>1, <2>2, <2>3
<1>8. TypeOK'
  <2>1. /\ pc' \in [Procs -> Labels] /\ todo' \in [Procs -> SUBSET Files]
        /\ temp' \in [Procs -> SUBSET Keys] /\ names' \in [Procs -> [Named -> Versions]]
        /\ got' \in [Procs -> Names] /\ seen' \in [Procs -> [Files -> Versions]]
        /\ built' \in [Procs -> [Assets -> Versions]] /\ moment' \in [Procs -> [Files -> Versions]]
    BY <1>1, <1>2 DEF TypeOK
  <2> QED
    BY <1>3, <1>4, <1>5, <1>6, <1>7, <2>1 DEF TypeOK, Files, Named, Resources, Versions, Labels, Names,
      Keys, Kinds, Ended, Storing, Checking
<1>9. EntriesAreExact'
  <2>1. [Next]_vars
    BY DEF Next
  <2> QED
    BY <2>1, ExactKept
<1>10. ASSUME NEW p \in Procs PROVE RunOK(p)'
  <2>1. RunOK(p)
    BY DEF IInv
  <2> QED
    BY <1>1, <1>2, <1>3, <2>1, Frame
<1> QED
  BY <1>4, <1>8, <1>9, <1>10 DEF IInv

LEMMA InductiveIInv == IInv /\ [Next]_vars => IInv'
<1> SUFFICES ASSUME IInv, [Next]_vars PROVE IInv'
  OBVIOUS
<1> QED
  BY RunStep, WorldStep DEF Next

LEMMA AlwaysIInv == Spec => []IInv
BY InitIInv, InductiveIInv, PTL DEF Spec

-----------------------------------------------------------------------------
(* The theorems.                                                           *)

\* The variables keep their types, and a cache directory has one entry for a
\* key, whatever the runs, the editors and the faults do.
THEOREM TypeCorrect == Spec => []TypeOK
<1>1. IInv => TypeOK
  BY DEF IInv
<1> QED
  BY <1>1, AlwaysIInv, PTL

\* A whole entry is what its key says: publishers of any number that write and
\* read the cache at any time never leave another conversion under a key.
THEOREM EntriesExact == Spec => []EntriesAreExact
<1>1. IInv => EntriesAreExact
  BY DEF IInv
<1> QED
  BY <1>1, AlwaysIInv, PTL

\* What index_cached returns by itself agrees for the files it lists.
LEMMA IndexAgrees == ASSUME IInv PROVE IndexedFilesAgree
<1> SUFFICES ASSUME NEW p \in Procs, pc[p] = "identitiesAgain", NEW r \in Listed(p)
             PROVE  names[p][r] = moment[p][r] /\ got[p][r] = moment[p][r]
  BY DEF IndexedFilesAgree
<1>1. GotOK(p) /\ SameOK(p) /\ KindOK(p) /\ r \in Resources
  BY DEF IInv, RunOK, Listed
<1>2. Kind[p] = "index"
  BY <1>1, SourceConstants DEF KindOK
<1> QED
  BY <1>1, <1>2 DEF GotOK, Converted, SameOK

\* A result is the source of one moment, its set of files included: what was
\* compared before and after that moment did not change in between, and the cache
\* added nothing of its own.  For an index it is the caller who compares.
THEOREM Snapshot == Spec => []ResultIsASnapshot
<1>1. ASSUME IInv PROVE ResultIsASnapshot
  <2> SUFFICES ASSUME NEW p \in Procs, pc[p] = "done"
               PROVE  /\ \A r \in Resources : names[p][r] = moment[p][r] /\ got[p][r] = moment[p][r]
                      /\ Kind[p] = "publish" =>
                          /\ \A f \in Metadata : names[p][f] = moment[p][f]
                          /\ \A a \in Assets : built[p][a] = moment[p][a]
    BY <1>1, IndexAgrees DEF ResultIsASnapshot
  <2>1. GotOK(p) /\ SameOK(p) /\ IdentOK(p)
    BY <1>1 DEF IInv, RunOK
  <2>2. \A r \in Resources : got[p][r] = names[p][r]
    BY <2>1 DEF GotOK, Converted
  <2>3. CASE Kind[p] = "publish"
    BY <2>1, <2>2, <2>3 DEF SameOK
  <2>4. CASE Kind[p] = "index"
    <3>1. \A r \in Resources : names[p][r] = 0 => moment[p][r] = 0
      BY <2>1, <2>4 DEF IdentOK
    <3> QED
      BY <2>1, <2>2, <2>4, <3>1 DEF SameOK, Listed
  <2> QED
    BY <2>3, <2>4, SourceConstants
<1> QED
  BY <1>1, AlwaysIInv, PTL

-----------------------------------------------------------------------------
(* The inductive invariant, on top of IInv.                                *)

Active(p) == pc[p] \notin Ended \union {"idle"}

Fragments(p, S) == \A c \in S : Found(FragmentKey(c, Keyed(p))) # {}

\* The fragments a run has seen or written so far are in the directory.
RowLoops == {"familyRows", "unitRows", "storeRows"}
RowsPassed == {"familySources", "unitSources", "storeUnit", "storeFamily", "assemble"}
StoredOK(p) ==
    /\ pc[p] \in RowLoops => Fragments(p, Rows(p) \ todo[p])
    /\ pc[p] \in RowsPassed => Fragments(p, Rows(p))

\* A run nobody disturbed has read what the source still is.
NamesFresh(p) ==
    /\ Active(p) /\ Kind[p] = "publish" =>
        \A f \in Named : names[p][f] = content[f] /\ catalog[f] = content[f]
    /\ Active(p) /\ Kind[p] = "index" /\ pc[p] # "identities" =>
        \A r \in Resources : (pc[p] = "inventory" /\ r \in todo[p]) \/ names[p][r] = content[r]

BeforeAssets == {"metadata", "layout", "assets"}
AssetsFresh(p) ==
    /\ pc[p] = "assets" => \A a \in Assets \ todo[p] : seen[p][a] = content[a]
    /\ Active(p) /\ Kind[p] = "publish" /\ pc[p] \notin BeforeAssets =>
        \A a \in Assets : seen[p][a] = content[a]
    /\ pc[p] = "identities" => \A r \in Resources \ todo[p] : seen[p][r] = content[r]
    /\ Active(p) /\ Kind[p] = "index" /\ pc[p] # "identities" =>
        \A r \in Resources : seen[p][r] = content[r]

IdleOK(p) == pc[p] \in {"idle", "identities"} => \A f \in Named : names[p][f] = 0

FreshOK(p) == pc[p] # "failed" /\ NamesFresh(p) /\ AssetsFresh(p)

SharedInv ==
    /\ EntriesAreClosed
    /\ \A p \in Procs : ~tampered \/ ~disturbed[p] => StoredOK(p)
    /\ \A p \in Procs : IdleOK(p) /\ (~disturbed[p] => FreshOK(p))

-----------------------------------------------------------------------------
(* What the directory keeps.                                               *)

LEMMA OnlyEndStoreWrites ==
  ASSUME NEW p \in Procs, Step(p) \/ Kill(p) \/ Again(p), \A f \in todo[p] : ~EndStore(p, f)
  PROVE  cache' = cache
<1>1. CASE Step(p)
  BY <1>1 DEF Step, Start, LoopEnd, CheckLayout, CheckCatalog, Lookup, Identify, Inventory,
    IdentifyAgain, CheckNamed,
    CollectAsset, BundleAsset, CheckAsset, LookupRow, Read, BeginStore, WriteTemporary, Assemble
<1> QED
  BY <1>1 DEF Kill, Again

\* Renaming a file into place makes its key found and loses no other.
LEMMA PutKeepsFound ==
  ASSUME NEW k, NEW v, Put(k, TRUE, v)
  PROVE  Found(k)' # {} /\ \A q : Found(q) # {} => Found(q)' # {}
<1> DEFINE new == [key |-> k, whole |-> TRUE, payload |-> Payload(k, v)]
<1>1. cache' = {e \in cache : e.key # k} \union {new}
  BY DEF Put
<1>2. new \in cache' /\ new.key = k /\ new.whole
  BY <1>1
<1>3. Found(k)' # {}
  BY <1>2 DEF Found
<1>4. ASSUME NEW q, Found(q) # {}, q # k PROVE Found(q)' # {}
  <2>1. PICK e \in cache : e.key = q /\ e.whole
    BY <1>4 DEF Found
  <2>2. e \in cache'
    BY <1>1, <1>4, <2>1
  <2> QED
    BY <2>1, <2>2 DEF Found
<1> QED
  BY <1>3, <1>4

\* No step of a run makes a fragment disappear.
LEMMA FoundKept ==
  ASSUME NEW p \in Procs, Step(p) \/ Kill(p) \/ Again(p)
  PROVE  \A q : Found(q) # {} => Found(q)' # {}
<1>1. CASE \E f \in todo[p] : EndStore(p, f)
  BY <1>1, PutKeepsFound DEF EndStore, Persist
<1>2. CASE \A f \in todo[p] : ~EndStore(p, f)
  BY <1>2, OnlyEndStoreWrites DEF Found
<1> QED
  BY <1>1, <1>2

\* A run that does not move keeps its fragments.
LEMMA StoredFrame ==
  ASSUME NEW p \in Procs, StoredOK(p), pc'[p] = pc[p], todo'[p] = todo[p], names'[p] = names[p],
         \A q : Found(q) # {} => Found(q)' # {}
  PROVE  StoredOK(p)'
<1>1. Keyed(p)' = Keyed(p) /\ Rows(p)' = Rows(p)
  BY DEF Keyed, Rows, Listed
<1> QED
  BY <1>1 DEF StoredOK, Fragments, FragmentKey

-----------------------------------------------------------------------------
(* The run that takes a step.                                              *)

LEMMA StoredStep ==
  ASSUME IInv, NEW p \in Procs, StoredOK(p), Step(p) \/ Kill(p) \/ Again(p)
  PROVE  StoredOK(p)'
<1> DEFINE Storers == RowLoops \union RowsPassed
<1> USE DEF RowLoops, RowsPassed
<1>1. TypeOK /\ \A q : Found(q) # {} => Found(q)' # {}
  BY FoundKept DEF IInv
<1>2. pc'[p] \notin Storers => StoredOK(p)'
  BY DEF StoredOK
<1>3. names'[p] = names[p] => Keyed(p)' = Keyed(p) /\ Rows(p)' = Rows(p)
  BY DEF Keyed, Rows, Listed
<1>4. \A l : Goto(p, l) => pc'[p] = l /\ todo'[p] = Work(p, l)
  BY <1>1 DEF Goto, TypeOK
<1>5. \A f : Visited(p, f) => pc'[p] = pc[p] /\ todo'[p] = todo[p] \ {f}
  BY <1>1 DEF Visited, TypeOK
<1>6. \A l : names'[p] = names[p] /\ Goto(p, l) /\ l \in RowLoops => StoredOK(p)'
  BY <1>3, <1>4, WorkTable DEF StoredOK, Fragments
<1>7. CASE Start(p)
  BY <1>1, <1>2, <1>4, <1>7 DEF Start, TypeOK
<1>8. CASE LoopEnd(p)
  <2>1. /\ Goto(p, After(p, pc[p])) /\ names' = names /\ pc[p] \in Loops /\ todo[p] = {}
    BY <1>8 DEF LoopEnd, result
  <2>2. pc'[p] = After(p, pc[p]) /\ todo'[p] = Work(p, After(p, pc[p]))
    BY <1>4, <2>1
  <2>3. CASE pc[p] \in Storers
    <3>1. Fragments(p, Rows(p))
      BY <2>1, <2>3 DEF StoredOK
    <3>2. Fragments(p, Rows(p))'
      BY <1>1, <1>3, <2>1, <3>1 DEF Fragments, FragmentKey
    <3> QED
      BY <3>2 DEF StoredOK, Fragments
  <2>4. CASE pc[p] = "convert"
    BY <1>6, <2>1, <2>4, AfterTable
  <2>5. CASE pc[p] \notin Storers \union {"convert"}
    BY <1>2, <2>1, <2>2, <2>5, AfterTable DEF Loops, Storing, Checking
  <2> QED
    BY <2>3, <2>4, <2>5
<1>9. CASE CheckLayout(p) \/ CheckCatalog(p) \/ Kill(p) \/ Again(p)
  BY <1>2, <1>4, <1>9 DEF CheckLayout, CheckCatalog, Kill, Again, Fail
<1>10. CASE Lookup(p)
  BY <1>2, <1>4, <1>6, <1>10 DEF Lookup
<1>11. ASSUME NEW f \in todo[p], LookupRow(p, f)
       PROVE  StoredOK(p)'
  <2>1. names' = names /\ pc[p] \in {"familyRows", "unitRows"}
    BY <1>11 DEF LookupRow, result
  <2>2. CASE Found(FragmentKey(f, Keyed(p))) # {}
    <3>1. pc'[p] = pc[p] /\ todo'[p] = todo[p] \ {f}
      BY <1>5, <1>11, <2>2 DEF LookupRow
    <3>2. Fragments(p, Rows(p) \ todo'[p])
      BY <2>1, <2>2, <3>1 DEF StoredOK, Fragments
    <3>3. Fragments(p, Rows(p) \ todo[p])'
      BY <1>1, <1>3, <2>1, <3>2 DEF Fragments, FragmentKey
    <3> QED
      BY <2>1, <3>1, <3>3 DEF StoredOK
  <2>3. CASE Found(FragmentKey(f, Keyed(p))) = {}
    BY <1>2, <1>4, <1>11, <2>3 DEF LookupRow
  <2> QED
    BY <2>2, <2>3
<1>12. ASSUME NEW f \in todo[p], EndStore(p, f)
       PROVE  StoredOK(p)'
  <2>1. /\ names' = names /\ pc[p] \in Storing /\ pc'[p] = pc[p] /\ todo'[p] = todo[p] \ {f}
        /\ Put(StoreKey(p, f), TRUE, got[p])
    BY <1>5, <1>12 DEF EndStore, Persist, result
  <2>2. CASE pc[p] = "storeRows"
    <3>1. Found(FragmentKey(f, Keyed(p)))' # {}
      <4> DEFINE new == [key |-> FragmentKey(f, Keyed(p)), whole |-> TRUE,
                         payload |-> Payload(StoreKey(p, f), got[p])]
      <4>1. StoreKey(p, f) = FragmentKey(f, Keyed(p))
        BY <2>2 DEF StoreKey
      <4>2. new \in cache'
        BY <2>1, <4>1 DEF Put
      <4>3. FragmentKey(f, Keyed(p))' = FragmentKey(f, Keyed(p))
        BY <1>3, <2>1 DEF FragmentKey
      <4>4. new.key = FragmentKey(f, Keyed(p))' /\ new.whole
        BY <4>3
      <4> QED
        BY <4>2, <4>4 DEF Found
    <3>2. \A c \in Rows(p) \ todo[p] : Found(FragmentKey(c, Keyed(p)))' # {}
      BY <1>1, <1>3, <2>1, <2>2 DEF StoredOK, Fragments, FragmentKey
    <3> QED
      BY <1>3, <2>1, <2>2, <3>1, <3>2 DEF StoredOK, Fragments
  <2>3. CASE pc[p] \in {"storeUnit", "storeFamily"}
    BY <1>1, <1>3, <2>1, <2>3 DEF StoredOK, Fragments, FragmentKey
  <2> QED
    BY <2>1, <2>2, <2>3 DEF Storing
<1>13. ASSUME NEW f \in todo[p], BeginStore(p, f)
       PROVE  StoredOK(p)'
  BY <1>1, <1>13, StoredFrame DEF BeginStore, progress, result
<1>14. ASSUME NEW f \in todo[p],
              \/ Identify(p, f) \/ Inventory(p, f) \/ IdentifyAgain(p, f) \/ CollectAsset(p, f)
              \/ BundleAsset(p, f) \/ CheckAsset(p, f) \/ Read(p, f)
       PROVE  StoredOK(p)'
  BY <1>2, <1>4, <1>5, <1>14
    DEF Identify, Inventory, IdentifyAgain, CollectAsset, BundleAsset, CheckAsset, Read, Fail
<1>15. ASSUME NEW f \in todo[p], CheckNamed(p, f) \/ Assemble(p, f)
       PROVE  StoredOK(p)'
  <2>1. names' = names /\ pc[p] \in Checking \union {"assemble"}
    BY <1>15 DEF CheckNamed, Assemble, result
  <2>2. Goto(p, "failed") \/ Visited(p, f)
    BY <1>15 DEF CheckNamed, Assemble, Fail
  <2>3. CASE Visited(p, f) /\ pc[p] \in RowsPassed
    BY <1>1, <1>3, <1>5, <2>1, <2>3 DEF StoredOK, Fragments, FragmentKey, Checking
  <2> QED
    BY <1>2, <1>4, <1>5, <2>1, <2>2, <2>3 DEF Checking
<1> QED
  BY <1>7, <1>8, <1>9, <1>10, <1>11, <1>12, <1>13, <1>14, <1>15 DEF Step

-----------------------------------------------------------------------------
(* A run that nobody disturbs.                                             *)

\* Only the beginning of a run says anew whether it is disturbed.
LEMMA DisturbedOfSteps ==
  ASSUME TypeOK, NEW p \in Procs, Step(p) \/ Kill(p) \/ Again(p)
  PROVE  /\ \A q \in Procs \ {p} : disturbed'[q] = disturbed[q]
         /\ ~Start(p) /\ ~Again(p) => disturbed' = disturbed
<1>1. CASE Start(p) \/ Again(p)
  BY <1>1 DEF Start, Again, TypeOK
<1>2. CASE LoopEnd(p) \/ CheckLayout(p) \/ CheckCatalog(p) \/ Lookup(p) \/ Kill(p)
  BY <1>2 DEF LoopEnd, CheckLayout, CheckCatalog, Lookup, Kill, ghost
<1>3. ASSUME NEW f \in todo[p],
             \/ Identify(p, f) \/ Inventory(p, f) \/ IdentifyAgain(p, f)
             \/ CheckNamed(p, f) \/ CollectAsset(p, f) \/ BundleAsset(p, f)
             \/ CheckAsset(p, f) \/ LookupRow(p, f) \/ Read(p, f) \/ BeginStore(p, f)
             \/ EndStore(p, f) \/ Assemble(p, f)
      PROVE  disturbed' = disturbed
  BY <1>3 DEF Identify, Inventory, IdentifyAgain, CheckNamed, CollectAsset, BundleAsset, CheckAsset, LookupRow, Read, BeginStore,
    EndStore, Assemble, ghost
<1> QED
  BY <1>1, <1>2, <1>3 DEF Step

\* A run that does not move, while nobody changes the source either.
LEMMA FreshFrame ==
  ASSUME NEW p \in Procs, FreshOK(p), content' = content, catalog' = catalog,
         pc'[p] = pc[p], todo'[p] = todo[p], names'[p] = names[p], seen'[p] = seen[p]
  PROVE  FreshOK(p)'
BY DEF FreshOK, NamesFresh, AssetsFresh, Active

\* The comparisons of an undisturbed run find what they look for.
LEMMA FreshChecks ==
  ASSUME IInv, NEW p \in Procs, FreshOK(p), StoredOK(p)
  PROVE  /\ ~(CheckLayout(p) /\ Fail(p)) /\ ~(CheckCatalog(p) /\ Fail(p))
         /\ \A f \in todo[p] : /\ ~(CheckNamed(p, f) /\ Fail(p)) /\ ~(CheckAsset(p, f) /\ Fail(p))
                              /\ ~(IdentifyAgain(p, f) /\ Fail(p))
                              /\ ~(Read(p, f) /\ Fail(p)) /\ ~(Assemble(p, f) /\ Fail(p))
<1>1. TypeOK /\ KindOK(p) /\ TodoOK(p) /\ NamesFresh(p) /\ AssetsFresh(p)
  BY DEF IInv, RunOK, FreshOK
<1>2. Kind[p] \in {"publish", "index"} /\ Resources \subseteq Named
  BY SourceConstants DEF Named
<1>3. Fail(p) => pc'[p] = "failed"
  BY <1>1 DEF Fail, Goto, TypeOK
<1>4. \A f : Visited(p, f) => pc'[p] = pc[p]
  BY <1>1 DEF Visited, TypeOK
<1>5. ASSUME NEW f \in todo[p], pc[p] \in Checking \union {"authored", "unitAuthored", "convert"}
      PROVE  names[p][f] = content[f]
  <2>1. f \in Named /\ (pc[p] \notin {"metadata", "metadataAgain"} => f \in Resources)
    BY <1>1, <1>5, WorkTable
      DEF TodoOK, Checking, Named, Rows, Listed, Resources
  <2>2. Active(p)
    BY <1>5 DEF Active, Ended, Checking
  <2>3. Kind[p] = "index" => pc[p] \notin {"metadata", "metadataAgain"}
    BY <1>1 DEF KindOK, IndexLabels, Early, Ended
  <2> QED
    BY <1>1, <1>2, <1>5, <2>1, <2>2, <2>3 DEF NamesFresh, Checking
<1>6. ~(CheckLayout(p) /\ Fail(p))
  <2> SUFFICES ASSUME CheckLayout(p) PROVE pc'[p] # "failed"
    BY <1>3
  <2>1. Active(p) /\ Kind[p] = "publish"
    BY <1>1, <1>2 DEF CheckLayout, KindOK, IndexLabels, Early, Ended, Active
  <2>2. Store = Listed(p)
    BY <1>1, <1>2, <2>1 DEF NamesFresh, Listed, Store
  <2>3. Goto(p, "assets") \/ Goto(p, "sourcesAgain")
    BY <2>2 DEF CheckLayout
  <2> QED
    BY <1>1, <2>3 DEF Goto, TypeOK
<1>7. ~(CheckCatalog(p) /\ Fail(p))
  <2> SUFFICES ASSUME CheckCatalog(p) PROVE pc'[p] # "failed"
    BY <1>3
  <2>1. Active(p) /\ Kind[p] = "publish"
    BY <1>1, <1>2 DEF CheckCatalog, KindOK, IndexLabels, Early, Ended, Active
  <2>2. catalog = names[p]
    <3>1. catalog \in [Named -> Versions] /\ names[p] \in [Named -> Versions]
      BY <1>1 DEF TypeOK
    <3>2. \A f \in Named : catalog[f] = names[p][f]
      BY <1>1, <2>1 DEF NamesFresh
    <3> QED
      BY <3>1, <3>2
  <2>3. Goto(p, "layoutAgain")
    BY <2>2 DEF CheckCatalog
  <2> QED
    BY <1>1, <2>3 DEF Goto, TypeOK
<1>8. ASSUME NEW f \in todo[p]
      PROVE  ~(CheckNamed(p, f) /\ Fail(p)) /\ ~(Read(p, f) /\ Fail(p))
  <2>1. CASE CheckNamed(p, f)
    BY <1>3, <1>4, <1>5, <1>8, <2>1 DEF CheckNamed, Checking
  <2>2. CASE Read(p, f)
    BY <1>3, <1>4, <1>5, <1>8, <2>2 DEF Read
  <2> QED
    BY <2>1, <2>2
<1>9. ASSUME NEW f \in todo[p], CheckAsset(p, f), Fail(p)
      PROVE  FALSE
  <2>1. pc[p] = "assetsAgain" /\ f \in Assets
    BY <1>1, <1>9, WorkTable DEF CheckAsset, TodoOK
  <2>2. content[f] = seen[p][f]
    BY <1>1, <1>2, <2>1 DEF AssetsFresh, Active, Ended, BeforeAssets, KindOK, IndexLabels
  <2> QED
    BY <1>3, <1>4, <1>9, <2>1, <2>2 DEF CheckAsset
<1>10. ASSUME NEW f \in todo[p], Assemble(p, f), Fail(p)
      PROVE  FALSE
  <2>1. pc[p] = "assemble" /\ f \in Rows(p)
    BY <1>1, <1>10, WorkTable DEF Assemble, TodoOK
  <2>2. Found(FragmentKey(f, Keyed(p))) # {}
    BY <2>1 DEF StoredOK, Fragments, RowsPassed
  <2> QED
    BY <1>3, <1>4, <1>10, <2>1, <2>2 DEF Assemble
<1>11. ASSUME NEW f \in todo[p], IdentifyAgain(p, f), Fail(p)
       PROVE  FALSE
  <2>1. pc[p] = "identitiesAgain" /\ f \in Resources
    BY <1>1, <1>11, WorkTable DEF IdentifyAgain, TodoOK
  <2>2. content[f] = seen[p][f]
    BY <1>1, <1>2, <2>1 DEF AssetsFresh, Active, Ended, KindOK
  <2> QED
    BY <1>3, <1>4, <1>11, <2>1, <2>2 DEF IdentifyAgain
<1> QED
  BY <1>6, <1>7, <1>8, <1>9, <1>10, <1>11

LEMMA FreshStart ==
  ASSUME IInv, NEW p \in Procs, IdleOK(p), Start(p), ~disturbed'[p]
  PROVE  FreshOK(p)'
<1>1. TypeOK /\ Kind[p] \in {"publish", "index"} /\ pc[p] = "idle" /\ content' = content /\ catalog' = catalog
  BY SourceConstants DEF IInv, Start, source
<1>2. CASE Kind[p] = "publish"
  <2>1. pc'[p] = "metadata" /\ names'[p] = catalog
    BY <1>1, <1>2 DEF Start, Goto, TypeOK
  <2>2. \A f \in Named : catalog[f] = content[f]
    BY <1>1, <1>2 DEF Start, TypeOK
  <2> QED
    BY <1>1, <1>2, <2>1, <2>2 DEF FreshOK, NamesFresh, AssetsFresh, BeforeAssets
<1>3. CASE Kind[p] = "index"
  <2>1. pc'[p] = "identities" /\ todo'[p] = Resources
    BY <1>1, <1>3, GotoFacts, WorkTable DEF Start
  <2> QED
    BY <1>1, <1>3, <2>1 DEF FreshOK, NamesFresh, AssetsFresh
<1> QED
  BY <1>1, <1>2, <1>3

\* What a run that goes on to another label keeps.
LEMMA FreshGoto ==
  ASSUME TypeOK, NEW p \in Procs, FreshOK(p), Active(p), KindOK(p), content' = content, catalog' = catalog,
         names'[p] = names[p], seen'[p] = seen[p],
         pc[p] = "inventory" \/ pc[p] = "assets" => todo[p] = {}, pc[p] # "identities",
         NEW l, l \notin {"failed", "inventory", "identities"}, Goto(p, l),
         l = "assets" \/ (pc[p] \in BeforeAssets => l \in BeforeAssets \/ pc[p] = "assets")
  PROVE  FreshOK(p)'
<1>1. pc'[p] = l /\ todo'[p] = Work(p, l)
  BY DEF Goto, TypeOK
<1>2. NamesFresh(p)'
  BY <1>1 DEF FreshOK, NamesFresh, Active
<1>3. AssetsFresh(p)'
  <2>1. l = "assets" => todo'[p] = Assets
    BY <1>1, WorkTable
  <2> QED
    BY <1>1, <2>1 DEF FreshOK, AssetsFresh, Active, BeforeAssets
<1> QED
  BY <1>1, <1>2, <1>3 DEF FreshOK

\* As long as nobody disturbs it, a run has read what the source still is, and
\* does not fail.
LEMMA FreshStep ==
  ASSUME IInv, NEW p \in Procs, IdleOK(p), ~disturbed[p] => FreshOK(p) /\ StoredOK(p),
         Step(p) \/ Kill(p) \/ Again(p), ~disturbed'[p]
  PROVE  FreshOK(p)'
<1>1. TypeOK /\ KindOK(p) /\ TodoOK(p) /\ content' = content /\ catalog' = catalog
  <2>1. TypeOK
    BY DEF IInv
  <2> QED
    BY <2>1, SourceOfSteps DEF IInv, RunOK
<1>2. CASE Start(p)
  BY <1>2, FreshStart
<1>3. CASE Again(p) \/ Kill(p)
  <2>1. pc'[p] \in {"idle", "dead"}
    BY <1>1, <1>3 DEF Again, Kill, Goto, TypeOK
  <2> QED
    BY <2>1 DEF FreshOK, NamesFresh, AssetsFresh, Active, Ended
<1>4. SUFFICES ASSUME Step(p), ~Start(p), FreshOK(p), StoredOK(p) PROVE FreshOK(p)'
  <2>1. ~Start(p) /\ ~Again(p) => disturbed' = disturbed
    BY <1>1, DisturbedOfSteps
  <2> QED
    BY <1>2, <1>3, <2>1
<1>5. \A f : Visited(p, f) => pc'[p] = pc[p] /\ todo'[p] = todo[p] \ {f}
  BY <1>1 DEF Visited, TypeOK
<1>15. CASE LoopEnd(p) /\ pc[p] = "identities"
  <2>1. Goto(p, "inventory") /\ names' = names /\ seen' = seen /\ todo[p] = {}
    BY <1>15, AfterTable DEF LoopEnd, result
  <2>2. pc'[p] = "inventory" /\ todo'[p] = Store
    BY <1>1, <2>1, WorkTable DEF Goto, TypeOK
  <2>3. \A r \in Resources : names[p][r] = 0
    BY <1>15 DEF IdleOK, Named
  <2>4. \A r \in Resources \ Store : names[p][r] = content[r]
    BY <2>3 DEF Store
  <2>5. Kind[p] = "index"
    BY <1>1, <1>15, SourceConstants DEF KindOK, Early
  <2>6. NamesFresh(p)'
    BY <1>1, <2>1, <2>2, <2>4, <2>5 DEF NamesFresh
  <2> QED
    BY <1>1, <1>4, <1>15, <2>1, <2>2, <2>5, <2>6 DEF FreshOK, AssetsFresh
<1>6. CASE LoopEnd(p) /\ pc[p] # "identities"
  <2>1. /\ Goto(p, After(p, pc[p])) /\ names' = names /\ seen' = seen
        /\ pc[p] \in Loops /\ todo[p] = {}
    BY <1>6 DEF LoopEnd, result
  <2> DEFINE l == After(p, pc[p])
  <2>2. Active(p) /\ l \notin {"failed", "inventory", "identities", "assets"}
    BY <1>6, <2>1, AfterTable DEF Active, Ended, Loops, Storing, Checking
  <2>3. pc[p] \in BeforeAssets => l \in BeforeAssets \/ pc[p] = "assets"
    BY <2>1, AfterTable DEF Loops, Storing, Checking, BeforeAssets
  <2> QED
    BY <1>1, <1>4, <1>6, <2>1, <2>2, <2>3, FreshGoto
<1>7. CASE CheckLayout(p)
  <2>1. ~Fail(p) /\ names' = names /\ seen' = seen /\ pc[p] \in {"layout", "layoutAgain"}
    BY <1>4, <1>7, FreshChecks DEF CheckLayout, result
  <2>2. Active(p)
    BY <2>1 DEF Active, Ended
  <2>3. CASE pc[p] = "layout"
    <3>1. Goto(p, "assets")
      BY <1>7, <2>1, <2>3 DEF CheckLayout
    <3> QED
      BY <1>1, <1>4, <2>1, <2>2, <2>3, <3>1, FreshGoto
  <2>4. CASE pc[p] = "layoutAgain"
    <3>1. Goto(p, "sourcesAgain")
      BY <1>7, <2>1, <2>4 DEF CheckLayout
    <3> QED
      BY <1>1, <1>4, <2>1, <2>2, <2>4, <3>1, FreshGoto DEF BeforeAssets
  <2> QED
    BY <2>1, <2>3, <2>4
<1>8. CASE CheckCatalog(p)
  <2>1. /\ Goto(p, "layoutAgain") /\ names' = names /\ seen' = seen /\ pc[p] = "catalogAgain"
    BY <1>4, <1>8, FreshChecks DEF CheckCatalog, result
  <2> QED
    BY <1>1, <1>4, <2>1, FreshGoto DEF BeforeAssets, Active, Ended
<1>9. CASE Lookup(p)
  <2>1. names' = names /\ seen' = seen /\ pc[p] \in {"family", "unit"}
    BY <1>9 DEF Lookup
  <2>2. PICK l \in {"authored", "unitAuthored", "familyRows", "unitRows"} : Goto(p, l)
    BY <1>9 DEF Lookup
  <2> QED
    BY <1>1, <1>4, <2>1, <2>2, FreshGoto DEF BeforeAssets, Active, Ended
<1>10. ASSUME NEW f \in todo[p], LookupRow(p, f)
       PROVE  FreshOK(p)'
  <2>1. names' = names /\ seen' = seen /\ pc[p] \in {"familyRows", "unitRows"}
    BY <1>10 DEF LookupRow, result
  <2>2. CASE Visited(p, f)
    BY <1>1, <1>4, <1>5, <2>1, <2>2 DEF FreshOK, NamesFresh, AssetsFresh, Active
  <2>3. ASSUME NEW l \in {"authored", "unitAuthored"}, Goto(p, l)
        PROVE  FreshOK(p)'
    BY <1>1, <1>4, <2>1, <2>3, FreshGoto DEF BeforeAssets, Active, Ended
  <2> QED
    BY <1>10, <2>2, <2>3 DEF LookupRow
<1>11. ASSUME NEW f \in todo[p], Inventory(p, f)
       PROVE  FreshOK(p)'
  <2>1. /\ pc[p] = "inventory" /\ pc'[p] = "inventory" /\ todo'[p] = todo[p] \ {f}
        /\ f \in Named /\ names' = [names EXCEPT ![p][f] = content[f]]
    BY <1>1, <1>5, <1>11 DEF Inventory, TodoOK, Named
  <2>2. names'[p] = [names[p] EXCEPT ![f] = content[f]]
    BY <1>1, <2>1 DEF TypeOK
  <2>3. \A r \in Named : names'[p][r] = IF r = f THEN content[f] ELSE names[p][r]
    BY <1>1, <2>2 DEF TypeOK
  <2>4. NamesFresh(p)'
    BY <1>1, <1>4, <2>1, <2>3 DEF FreshOK, NamesFresh, Active, KindOK, Named
  <2>5. seen' = seen /\ Kind[p] = "index" /\ Active(p)
    BY <1>1, <1>11, <2>1, SourceConstants DEF Inventory, KindOK, Early, Active, Ended
  <2> QED
    BY <1>1, <1>4, <2>1, <2>4, <2>5 DEF FreshOK, AssetsFresh
<1>12. ASSUME NEW f \in todo[p], CollectAsset(p, f)
       PROVE  FreshOK(p)'
  <2>1. /\ pc[p] = "assets" /\ pc'[p] = "assets" /\ todo'[p] = todo[p] \ {f} /\ names' = names
        /\ f \in Assets /\ seen' = [seen EXCEPT ![p][f] = content[f]]
    BY <1>1, <1>5, <1>12, WorkTable DEF CollectAsset, TodoOK
  <2>2. \A a \in Assets : seen'[p][a] = IF a = f THEN content[f] ELSE seen[p][a]
    BY <1>1, <2>1 DEF TypeOK, Files
  <2>4. Kind[p] = "publish"
    BY <1>1, <2>1, SourceConstants DEF KindOK, IndexLabels, Ended
  <2>3. AssetsFresh(p)'
    BY <1>1, <1>4, <2>1, <2>2, <2>4 DEF FreshOK, AssetsFresh, BeforeAssets
  <2> QED
    BY <1>1, <1>4, <2>1, <2>3 DEF FreshOK, NamesFresh, Active
<1>13. ASSUME NEW f \in todo[p],
              \/ CheckNamed(p, f) \/ CheckAsset(p, f) \/ Read(p, f) \/ Assemble(p, f)
              \/ BundleAsset(p, f) \/ EndStore(p, f) \/ IdentifyAgain(p, f)
       PROVE  FreshOK(p)'
  <2>1. names' = names /\ seen' = seen /\ pc[p] \notin {"inventory", "assets", "identities"}
    BY <1>13 DEF IdentifyAgain, CheckNamed, CheckAsset, Read, Assemble, BundleAsset, EndStore, result, Checking, Storing
  <2>2. Visited(p, f)
    <3>1. CASE \/ CheckNamed(p, f) \/ CheckAsset(p, f) \/ Read(p, f) \/ Assemble(p, f)
               \/ IdentifyAgain(p, f)
      BY <1>4, <3>1, FreshChecks DEF CheckNamed, CheckAsset, Read, Assemble, IdentifyAgain
    <3> QED
      BY <1>13, <3>1 DEF BundleAsset, EndStore
  <2> QED
    BY <1>1, <1>4, <1>5, <2>1, <2>2 DEF FreshOK, NamesFresh, AssetsFresh, Active
<1>14. ASSUME NEW f \in todo[p], BeginStore(p, f)
       PROVE  FreshOK(p)'
  BY <1>1, <1>4, <1>14, FreshFrame DEF BeginStore, progress, result
<1>16. ASSUME NEW f \in todo[p], Identify(p, f)
       PROVE  FreshOK(p)'
  <2>1. /\ pc[p] = "identities" /\ pc'[p] = "identities" /\ todo'[p] = todo[p] \ {f}
        /\ seen' = [seen EXCEPT ![p][f] = content[f]]
    BY <1>1, <1>5, <1>16 DEF Identify
  <2>2. \A r \in Resources : seen'[p][r] = IF r = f THEN content[f] ELSE seen[p][r]
    BY <1>1, <2>1 DEF TypeOK, Files, Named
  <2>3. Kind[p] = "index"
    BY <1>1, <2>1, SourceConstants DEF KindOK, Early
  <2> QED
    BY <1>1, <1>4, <2>1, <2>2, <2>3 DEF FreshOK, NamesFresh, AssetsFresh
<1> QED
  BY <1>4, <1>6, <1>7, <1>8, <1>9, <1>10, <1>11, <1>12, <1>13, <1>14, <1>15, <1>16 DEF Step

\* An idle run has read nothing yet.
LEMMA IdleStep ==
  ASSUME IInv, NEW p \in Procs, IdleOK(p), Step(p) \/ Kill(p) \/ Again(p)
  PROVE  IdleOK(p)'
<1>1. TypeOK
  BY DEF IInv
<1>2. CASE Again(p)
  BY <1>1, <1>2 DEF Again, IdleOK, TypeOK
<1>3. CASE ~Again(p)
  <2>1. \A l : Goto(p, l) => pc'[p] = l
    BY <1>1 DEF Goto, TypeOK
  <2>2. \A f : Visited(p, f) => pc'[p] = pc[p]
    BY <1>1 DEF Visited, TypeOK
  <2>3. CASE Start(p)
    BY <1>1, <2>1, <2>3 DEF Start, IdleOK, TypeOK
  <2>4. CASE LoopEnd(p)
    BY <2>1, <2>4, AfterTable DEF LoopEnd, IdleOK, Loops, Storing, Checking
  <2>5. CASE CheckLayout(p) \/ CheckCatalog(p) \/ Lookup(p) \/ Kill(p)
    BY <2>1, <2>5 DEF CheckLayout, CheckCatalog, Lookup, Kill, Fail, IdleOK
  <2>6. ASSUME NEW f \in todo[p],
               \/ Identify(p, f) \/ Inventory(p, f) \/ IdentifyAgain(p, f)
               \/ CheckNamed(p, f) \/ CollectAsset(p, f) \/ BundleAsset(p, f)
               \/ CheckAsset(p, f) \/ LookupRow(p, f) \/ Read(p, f) \/ BeginStore(p, f)
               \/ EndStore(p, f) \/ Assemble(p, f)
        PROVE  IdleOK(p)'
    BY <1>1, <2>1, <2>2, <2>6
      DEF Identify, Inventory, IdentifyAgain, CheckNamed, CollectAsset, BundleAsset, CheckAsset,
        LookupRow, Read, BeginStore, EndStore, Assemble, Fail, IdleOK, Checking, Storing, progress
  <2> QED
    BY <1>3, <2>3, <2>4, <2>5, <2>6 DEF Step
<1> QED
  BY <1>2, <1>3

-----------------------------------------------------------------------------
(* The invariant is inductive.                                             *)

\* An entry that appears is the fragment, or the entry, the run has just stored.
LEMMA ClosedStep ==
  ASSUME IInv, NEW p \in Procs, ~tampered, SharedInv, Step(p) \/ Kill(p) \/ Again(p)
  PROVE  EntriesAreClosed'
<1>1. EntriesAreClosed /\ StoredOK(p) /\ TypeOK /\ TodoOK(p)
  BY DEF SharedInv, IInv, RunOK
<1>2. \A q : Found(q) # {} => Found(q)' # {}
  BY FoundKept
<1>3. SUFFICES ASSUME NEW e \in cache', e.key.kind # "fragment",
                      NEW c \in Captures, e.key.names[c] # 0
               PROVE  Found(FragmentKey(c, e.key.names))' # {}
  BY DEF EntriesAreClosed, FragmentKey
<1>4. CASE e \in cache
  BY <1>1, <1>2, <1>3, <1>4 DEF EntriesAreClosed
<1>5. CASE e \notin cache
  <2>1. PICK f \in todo[p] : EndStore(p, f)
    BY <1>5, OnlyEndStoreWrites
  <2>2. e.key = StoreKey(p, f)
    BY <1>5, <2>1 DEF EndStore, Persist, Put
  <2>3. pc[p] \in {"storeUnit", "storeFamily"} /\ e.key.names = Keyed(p)
    BY <1>3, <2>1, <2>2 DEF EndStore, Storing, StoreKey, FragmentKey, UnitKey, FamilyKey
  <2>4. c \in Rows(p)
    BY <1>3, <2>3, ConversionConstants DEF Keyed, Rows, Listed, Resources
  <2>5. Found(FragmentKey(c, Keyed(p))) # {}
    BY <1>1, <2>3, <2>4 DEF StoredOK, Fragments, RowsPassed
  <2> QED
    BY <1>2, <2>3, <2>5
<1> QED
  BY <1>4, <1>5

\* Whoever changes the source or the directory disturbs every run under way.
LEMMA WorldShared ==
  ASSUME IInv, SharedInv, (\E f \in Files : Edit(f)) \/ Regenerate \/ Tamper \/ UNCHANGED vars
  PROVE  SharedInv'
<1>1. UNCHANGED <<pc, todo, names, seen>>
  BY DEF Edit, Regenerate, Tamper, vars, progress, result, source, ghost
<1>2. CASE UNCHANGED vars
  <2>1. UNCHANGED <<cache, content, catalog, disturbed, tampered>>
    BY <1>2 DEF vars, source, ghost, bounds
  <2>2. EntriesAreClosed'
    BY <2>1 DEF SharedInv, EntriesAreClosed, Found, FragmentKey
  <2>3. \A k : Found(k) # {} => Found(k)' # {}
    BY <2>1 DEF Found
  <2> QED
    BY <1>1, <2>1, <2>2, <2>3, StoredFrame, FreshFrame DEF SharedInv, IdleOK
<1>3. CASE (\E f \in Files : Edit(f)) \/ Regenerate \/ Tamper
  <2>1. \A p \in Procs : disturbed'[p] = (disturbed[p] \/ Active(p))
    BY <1>3 DEF Edit, Regenerate, Tamper, Disturb, Active
  <2>2. ASSUME NEW p \in Procs PROVE IdleOK(p)' /\ (~disturbed'[p] => FreshOK(p)')
    <3>1. ~Active(p) /\ pc[p] # "failed" => FreshOK(p)'
      BY <1>1 DEF FreshOK, NamesFresh, AssetsFresh, Active, Ended
    <3> QED
      BY <1>1, <2>1, <3>1 DEF SharedInv, IdleOK, FreshOK
  <2>3. CASE Tamper
    <3>1. tampered'
      BY <2>3 DEF Tamper
    <3>2. ASSUME NEW p \in Procs, ~disturbed'[p] PROVE StoredOK(p)'
      BY <1>1, <2>1, <3>2 DEF StoredOK, RowLoops, RowsPassed, Active, Ended
    <3> QED
      BY <2>2, <3>1, <3>2 DEF SharedInv, EntriesAreClosed
  <2>4. CASE (\E f \in Files : Edit(f)) \/ Regenerate
    <3>1. UNCHANGED <<cache, tampered>>
      BY <2>4 DEF Edit, Regenerate, bounds
    <3>2. EntriesAreClosed'
      BY <3>1 DEF SharedInv, EntriesAreClosed, Found, FragmentKey
    <3>3. ASSUME NEW p \in Procs, ~tampered \/ ~disturbed'[p] PROVE StoredOK(p)'
      <4>1. StoredOK(p)
        BY <2>1, <3>3 DEF SharedInv
      <4>2. \A k : Found(k) # {} => Found(k)' # {}
        BY <3>1 DEF Found
      <4> QED
        BY <1>1, <4>1, <4>2, StoredFrame
    <3> QED
      BY <2>2, <3>1, <3>2, <3>3 DEF SharedInv
  <2> QED
    BY <1>3, <2>3, <2>4
<1> QED
  BY <1>2, <1>3

LEMMA RunShared ==
  ASSUME IInv, SharedInv, NEW p \in Procs, Step(p) \/ Kill(p) \/ Again(p)
  PROVE  SharedInv'
<1>1. TypeOK
  BY DEF IInv
<1>2. /\ tampered' = tampered /\ content' = content /\ catalog' = catalog
      /\ \A q \in Procs \ {p} : disturbed'[q] = disturbed[q]
      /\ ~Start(p) /\ ~Again(p) => disturbed' = disturbed
      /\ \A q : Found(q) # {} => Found(q)' # {}
  BY <1>1, SourceOfSteps, DisturbedOfSteps, FoundKept
<1>3. EntriesAreClosed'
  BY <1>2, ClosedStep DEF EntriesAreClosed
<1>4. ~tampered' \/ ~disturbed'[p] => StoredOK(p)'
  <2>1. CASE ~tampered \/ ~disturbed[p]
    BY <2>1, StoredStep DEF SharedInv
  <2>2. CASE tampered /\ disturbed[p] /\ (Start(p) \/ Again(p))
    <3>1. pc'[p] \in {"metadata", "identities", "idle"}
      BY <1>1, <2>2 DEF Start, Again, Goto, TypeOK
    <3> QED
      BY <3>1 DEF StoredOK, RowLoops, RowsPassed
  <2> QED
    BY <1>2, <2>1, <2>2
<1>5. IdleOK(p)' /\ (~disturbed'[p] => FreshOK(p)')
  BY IdleStep, FreshStep DEF SharedInv
<1>6. ASSUME NEW q \in Procs \ {p}
      PROVE  /\ ~tampered' \/ ~disturbed'[q] => StoredOK(q)'
             /\ IdleOK(q)' /\ (~disturbed'[q] => FreshOK(q)')
  <2>1. pc'[q] = pc[q] /\ todo'[q] = todo[q] /\ names'[q] = names[q] /\ seen'[q] = seen[q]
    BY <1>1, OthersRun
  <2> QED
    BY <1>2, <2>1, StoredFrame, FreshFrame DEF SharedInv, IdleOK
<1> QED
  BY <1>3, <1>4, <1>5, <1>6 DEF SharedInv

LEMMA InitShared == Init => SharedInv
<1> SUFFICES ASSUME Init PROVE SharedInv
  OBVIOUS
<1>1. EntriesAreClosed
  BY DEF Init, CacheInit, EntriesAreClosed
<1>2. ASSUME NEW p \in Procs PROVE StoredOK(p) /\ IdleOK(p) /\ FreshOK(p)
  <2>1. pc[p] = "idle" /\ names[p] = [f \in Named |-> 0]
    BY DEF Init
  <2> QED
    BY <2>1 DEF StoredOK, RowLoops, RowsPassed, IdleOK, FreshOK, NamesFresh, AssetsFresh, Active
<1> QED
  BY <1>1, <1>2 DEF SharedInv

LEMMA AlwaysShared == Spec => []SharedInv
<1>1. IInv /\ SharedInv /\ [Next]_vars => SharedInv'
  <2> SUFFICES ASSUME IInv, SharedInv, [Next]_vars PROVE SharedInv'
    OBVIOUS
  <2> QED
    BY RunShared, WorldShared DEF Next
<1> QED
  BY <1>1, InitShared, AlwaysIInv, PTL DEF Spec

-----------------------------------------------------------------------------
(* The theorems.                                                           *)

\* Publishers killed anywhere, and any number of them writing the same entries,
\* leave no entry that lists a fragment nobody wrote.
THEOREM EntriesClosed == Spec => []EntriesAreClosed
<1>1. SharedInv => EntriesAreClosed
  BY DEF SharedInv
<1> QED
  BY <1>1, AlwaysShared, PTL

\* A run fails only when somebody outside changed what it reads: runs that share
\* the cache, at whatever pace, are never the reason.
THEOREM NoDisturbance == Spec => []RunsDoNotDisturb
<1>1. SharedInv => RunsDoNotDisturb
  BY DEF SharedInv, FreshOK, RunsDoNotDisturb
<1> QED
  BY <1>1, AlwaysShared, PTL
=============================================================================
