--------------------------- MODULE AssetPlacement ---------------------------
(***************************************************************************)
(* From a bootstrap's objects to furnished scenes: meshes generated from    *)
(* crops of the video, library assets fitted where none was accepted, the   *)
(* web GLB with them, and the USD that references the same assets through   *)
(* a cache of converted files.  Every script is a process of its own and    *)
(* may die; what it wrote stays.                                            *)
(*                                                                         *)
(* Lengths are in centimetres, extents are <<x, y, z>>.  Modification times *)
(* are kept as what they decide: which files are newer than which.  A mesh  *)
(* that is generated is the newest file; one that replaces a library file   *)
(* may keep a time of its own, older than the conversion of the file it     *)
(* replaces (cp -p, rsync).  The textures beside a converted file are left  *)
(* out: nothing looks at them, the check at the end neither.                *)
(***************************************************************************)
EXTENDS Integers, Sequences, FiniteSets, FiniteSetsExt, SequencesExt

CONSTANTS
  Objects,       \* objects.json: [id, key, tail, size, loc]; key the label, tail its last word or None,
                 \* loc the place of its generated mesh, named by the sanitized id
  Detections,    \* scan_results.json: object |-> set of [view, u, npix]
  Proj,          \* object |-> view |-> where its centroid falls, or None behind the camera
  Generated,     \* object |-> extents of what the model makes of its crop, or None when it fails
  Assets,        \* library files
  Info,          \* asset |-> [source, cls, tier, loc]; loc, <source>/<sanitized id>, names the converted file
  Aabb,          \* asset |-> version |-> extents of the file
  ApiDims,       \* asset |-> extents the API states, in its own order, or None
  Synonyms, SmallSynonyms,   \* label |-> sequence of classes
  RoundClasses,
  MinPix, MaxDist, SmallMax, FloorLamp, MinTarget,
  None,
  MaxVersion, MaxReplaced,   \* bounds on the library's changes
  MaxDeaths                  \* and on the assemblies that die

VARIABLES
  glb,        \* asset |-> version of its file, 0 when absent
  listed,     \* INVENTORY.json: the assets it names
  index,      \* index.json: None or [cands, small, fresh]
  manifest,   \* manifest.json of the crops, a sequence of ids, or None
  made,       \* generated files: id |-> version, 0 when absent
  results,    \* results.json: set of [id, accepted]
  todo,       \* ids the generation has still to do, or None when it does not run
  usd,        \* converted file: loc |-> None or [of, v, newer, state]: newer than the files in
              \* newer; "empty" from its creation until it is saved, then "whole"
  side,       \* its sidecar: loc |-> None or [of, v], whose bounds it states
  local,      \* its copy beside the scene: loc |-> None or [of, v, synced, state]; "torn" when a copy was cut
  aged,       \* (history) files replaced by one that is older than their conversion
  pc,         \* stage of assemble_with_generated
  placed,     \* assets_placed.json, and its GLB: id |-> record
  refs,       \* the USD that is authored: id |-> [loc, of, v]: the file referenced and whose bounds place it
  left,       \* ids whose visual the USD still lacks, in order
  check,      \* assets_usd_check.json: "none", "ok" or "differs"
  replaced,   \* how often a file was replaced
  deaths      \* how many assemblies died

library == <<glb, listed, replaced>>
stageB1 == <<manifest, made, results, todo>>
cache == <<usd, side, local, aged>>
scene == <<placed, refs, left, check, deaths>>
vars == <<glb, listed, index, manifest, made, results, todo, cache, pc, placed, refs, left, check, replaced, deaths>>

Ids == {o.id : o \in Objects}
ObjectOf(id) == CHOOSE o \in Objects : o.id = id
Originals == Assets \union Ids
LocOf(x) == IF x \in Assets THEN Info[x].loc ELSE ObjectOf(x).loc
Locs == {LocOf(x) : x \in Originals}
Abs(n) == IF n < 0 THEN -n ELSE n
Larger(a, b) == IF a < b THEN b ELSE a
Empty == [x \in {} |-> None]

-----------------------------------------------------------------------------
(* Stage B1: object_generation.py, build_real_crops.py, generate_from_manifest_cli.py *)

MatchBestDetection(id) ==
  LET dist(d) == Abs(Proj[id][d.view] - d.u)
      near == {d \in Detections[id] : d.npix >= MinPix /\ d.view \in DOMAIN Proj[id]}
      seen == {d \in near : Proj[id][d.view] # None}
      close == {d \in seen : dist(d) <= MaxDist}
  IN IF close = {} THEN None ELSE CHOOSE d \in close : \A e \in close : dist(d) <= dist(e)

BuildCrops ==
  /\ todo = None
  /\ manifest' = SetToSeq({id \in Ids : MatchBestDetection(id) # None})
  /\ UNCHANGED <<made, results, todo, library, index, cache, pc, scene>>

Sorted(e) == SortSeq(e, LAMBDA a, b : a > b)
(* The generated box, scaled to the measured longest side; thin sides are compared apart. *)
PassesContainment(gen, measured) ==
  LET g == Sorted(gen)  m == Sorted(measured)
      top == g[2] * m[1]  whole == g[1] * m[2]
      thin == g[3] * m[1]  side3 == g[1] * m[3]
  IN /\ m[1] > 0 /\ g[1] > 0 /\ m[2] > 0
     /\ m[3] > 0 => (20 * thin >= side3 /\ thin <= 20 * side3)
     /\ 5 * top >= whole /\ 2 * top <= 3 * whole

StartGeneration ==
  /\ todo = None /\ manifest # None /\ todo' = manifest
  /\ UNCHANGED <<manifest, made, results, library, index, cache, pc, scene>>
(* Generation, library changes and assembly are run one after another (assumed).
   results.json holds this run's entries only, from its first one on. *)
GenerateOne ==
  /\ todo # None /\ todo # <<>> /\ pc = "idle"
  /\ LET id == Head(todo)
         ok == Generated[id] # None /\ PassesContainment(Generated[id], ObjectOf(id).size)
     IN /\ made' = IF ok THEN [made EXCEPT ![id] = IF @ < MaxVersion THEN @ + 1 ELSE @] ELSE made
        /\ usd' = IF ok THEN [l \in Locs |-> IF usd[l] = None THEN None
                                ELSE [usd[l] EXCEPT !.newer = @ \ {id}]] ELSE usd
        /\ results' = (IF Len(todo) = Len(manifest) THEN {} ELSE results) \union {[id |-> id, accepted |-> ok]}
  /\ todo' = Tail(todo)
  /\ UNCHANGED <<manifest, library, index, side, local, aged, pc, scene>>
GenerationEnds ==
  /\ todo # None /\ todo' = None
  /\ UNCHANGED <<manifest, made, results, library, index, cache, pc, scene>>

-----------------------------------------------------------------------------
(* The index: asset_index.py *)

Rank(e, i) == Cardinality({j \in 1 .. 3 : e[j] < e[i] \/ (e[j] = e[i] /\ j < i)})
(* The API gives sides without saying which is which: matched by rank. *)
Canonical(a) ==
  LET box == Aabb[a][glb[a]]
  IN IF ApiDims[a] = None THEN box
     ELSE [i \in 1 .. 3 |-> ApiDims[a][CHOOSE j \in 1 .. 3 : Rank(ApiDims[a], j) = Rank(box, i)]]
Candidate(a) == [asset |-> a, size |-> Canonical(a), round |-> Info[a].cls \in RoundClasses]
ScanLibrary(small) ==
  {Candidate(a) : a \in {a \in listed : glb[a] # 0 /\ (Info[a].tier = "small" => small)}}

CachedIndex(small) == index # None /\ index.fresh /\ index.small = small
BuildIndex(small) == IF CachedIndex(small) THEN index
                     ELSE [cands |-> ScanLibrary(small), small |-> small, fresh |-> TRUE]

Lookup(table, o) == IF o.key \in DOMAIN table THEN table[o.key] ELSE <<>>
LookupTail(table, o) == IF o.tail \in DOMAIN table THEN table[o.tail] ELSE <<>>
ResolveLabel(o) ==
  LET direct == Lookup(Synonyms, o) \o SelectSeq(Lookup(SmallSynonyms, o), LAMBDA c : c \notin ToSet(Lookup(Synonyms, o)))
      tail == LookupTail(Synonyms, o) \o SelectSeq(LookupTail(SmallSynonyms, o), LAMBDA c : c \notin ToSet(LookupTail(Synonyms, o)))
      classes == IF direct # <<>> THEN direct ELSE IF tail # <<>> THEN tail ELSE <<o.key>>
  IN IF Head(classes) = "lamp" /\ o.size[2] >= FloorLamp THEN <<"floor_lamp">> \o classes ELSE classes
IsSmallLabel(o) == o.key \in DOMAIN SmallSynonyms \/ o.tail \in DOMAIN SmallSynonyms

SourcePriority == <<"polyhaven", "mastjie", "kenney", "gso">>
(* The best source that has the class at all, however many others do. *)
ClassCandidates(cls, cands) ==
  LET from(s) == {c \in cands : Info[c.asset].cls = cls /\ Info[c.asset].source = s}
      have == {i \in 1 .. 4 : from(SourcePriority[i]) # {}}
  IN IF have = {} THEN {} ELSE from(SourcePriority[Min(have)])
CandidatesForLabel(o, cands) ==
  LET classes == ResolveLabel(o)
      have == {i \in DOMAIN classes : ClassCandidates(classes[i], cands) # {}}
  IN IF have = {} THEN {} ELSE ClassCandidates(classes[Min(have)], cands)

-----------------------------------------------------------------------------
(* Fitting: asset_fallback.py *)

Apart(n, d) == (100 * Larger(n, d)) \div Larger(1, IF n < d THEN n ELSE d)
Aspect(e) == <<Larger(e[1], e[3]), IF e[1] < e[3] THEN e[1] ELSE e[3]>>
AspectTerm(c, o) == Apart(Aspect(c.size)[1] * Aspect(o.size)[2], Aspect(c.size)[2] * Aspect(o.size)[1])
HeightTerm(c, o) == Apart(c.size[2], o.size[2])
Better(c, d, o) ==
  \/ AspectTerm(c, o) < AspectTerm(d, o)
  \/ AspectTerm(c, o) = AspectTerm(d, o) /\ HeightTerm(c, o) <= HeightTerm(d, o)

SmallFits(o) == IsSmallLabel(o) /\ \A i \in 1 .. 3 : o.size[i] <= SmallMax
SelectCandidate(o, cands) ==
  LET open == {c \in CandidatesForLabel(o, cands) : Info[c.asset].tier = "small" => SmallFits(o)}
  IN IF open = {} THEN None ELSE CHOOSE c \in open : \A d \in open : Better(c, d, o)

FitMeshesToBox(e, size, uniform, align) ==
  LET target == [i \in 1 .. 3 |-> Larger(size[i], MinTarget)]
      turn == align /\ ((e[1] >= e[3]) # (target[1] >= target[3]))
      f == IF turn THEN <<e[3], e[2], e[1]>> ELSE e
      ratio == [i \in 1 .. 3 |-> (100 * target[i]) \div Larger(1, f[i])]
  IN [turn |-> turn, scale |-> IF uniform THEN [i \in 1 .. 3 |-> Min({ratio[j] : j \in 1 .. 3})] ELSE ratio]

(* A record of assets_placed.json: the file, its version as it was loaded, and the fit. *)
NotPlaced(why) == [of |-> None, v |-> 0, loc |-> None, fit |-> None, status |-> why]
PlaceAsset(o, cands) ==
  LET c == SelectCandidate(o, cands)
  IN IF c = None
     THEN NotPlaced(IF CandidatesForLabel(o, cands) = {} THEN "no_candidate" ELSE "small_gated")
     ELSE [of |-> c.asset, v |-> glb[c.asset], loc |-> Info[c.asset].loc, status |-> "placed",
           fit |-> FitMeshesToBox(Aabb[c.asset][glb[c.asset]], o.size, c.round, TRUE)]
LoadGenerated == {r.id : r \in {r \in results : r.accepted /\ made[r.id] # 0}}
FitGenerated(o) == [of |-> o.id, v |-> made[o.id], loc |-> o.loc, status |-> "generated",
                    fit |-> FitMeshesToBox(Generated[o.id], o.size, FALSE, FALSE)]

-----------------------------------------------------------------------------
(* assemble_with_generated.py, and the USD of usd_assets.py *)

(* An indexed file that is gone ends the script, its cache written. *)
Place(small) ==
  LET ix == BuildIndex(small)
      wanted == {SelectCandidate(o, ix.cands) : o \in {o \in Objects : o.id \notin LoadGenerated}} \ {None}
  IN /\ pc = "idle" /\ todo = None /\ index' = ix
     /\ IF \E c \in wanted : glb[c.asset] = 0 THEN UNCHANGED <<pc, placed>>
        ELSE /\ pc' = "export"
             /\ placed' = [id \in Ids |-> IF id \in LoadGenerated THEN FitGenerated(ObjectOf(id))
                                          ELSE PlaceAsset(ObjectOf(id), ix.cands)]
     /\ UNCHANGED <<library, stageB1, cache, refs, left, check, deaths>>

PlacementsById == {id \in DOMAIN placed : placed[id].status \in {"placed", "generated"}}
(* assets_placed.json and the GLB are written; the USD is begun. *)
ExportGlb ==
  /\ pc = "export" /\ pc' = "usd" /\ left' = SetToSeq(PlacementsById) /\ refs' = Empty
  /\ UNCHANGED <<library, index, stageB1, cache, placed, check, deaths>>

(* mutant of Converted: a converted file is taken for good. *)
ConvertedOnce(r) == usd[r.loc] # None /\ side[r.loc] # None
Converted(r) ==
  /\ usd[r.loc] # None /\ side[r.loc] # None
  /\ r.of \in usd[r.loc].newer /\ side[r.loc].of = r.of

Wants(id) == left # <<>> /\ Head(left) = id
VersionOf(r) == IF r.status = "generated" THEN made[r.of] ELSE glb[r.of]
(* A generated mesh is converted beside the scene, where it is shown. *)
Beside(r, new) == IF r.status = "generated" THEN [of |-> r.of, v |-> VersionOf(r), synced |-> TRUE, state |-> new]
                  ELSE IF local[r.loc] = None THEN None ELSE [local[r.loc] EXCEPT !.synced = FALSE]
Author(r, new) ==
  /\ usd' = [usd EXCEPT ![r.loc] = [of |-> r.of, v |-> VersionOf(r), newer |-> Originals, state |-> new]]
  /\ local' = [local EXCEPT ![r.loc] = Beside(r, new)]
(* The file is created empty, with the time of now, replaced whole when it is saved, and its
   sidecar written last: until then the sidecar of the conversion before lies beside it. *)
ConvertGlbToUsd(id) ==
  /\ pc = "usd" /\ Wants(id) /\ ~Converted(placed[id]) /\ pc' = id
  /\ Author(placed[id], "empty") /\ aged' = aged \ {placed[id].of}
  /\ UNCHANGED <<library, index, stageB1, side, scene>>
SaveUsd(id) ==
  /\ pc = id /\ usd[placed[id].loc].state = "empty" /\ Author(placed[id], "whole")
  /\ UNCHANGED <<library, index, stageB1, side, aged, pc, scene>>
WriteSidecar(id) ==
  /\ pc = id /\ usd[placed[id].loc].state = "whole" /\ pc' = "usd"
  /\ side' = [side EXCEPT ![placed[id].loc] = [of |-> placed[id].of, v |-> VersionOf(placed[id])]]
  /\ UNCHANGED <<library, index, stageB1, usd, local, aged, scene>>

Synced(l) == local[l] # None /\ (local[l] # None => local[l].synced)
Copied(l, state) == [of |-> usd[l].of, v |-> usd[l].v, synced |-> TRUE, state |-> state]
SyncDir(l) == IF Synced(l) THEN local[l] ELSE Copied(l, usd[l].state)
AddAssetVisual(id) ==
  /\ pc = "usd" /\ Wants(id) /\ Converted(placed[id])
  /\ LET l == placed[id].loc
     IN /\ local' = [local EXCEPT ![l] = SyncDir(l)]
        /\ refs' = [i \in DOMAIN refs \union {id} |->
                      IF i = id THEN [loc |-> l, of |-> side[l].of, v |-> side[l].v] ELSE refs[i]]
  /\ left' = Tail(left)
  /\ UNCHANGED <<library, index, stageB1, usd, side, aged, pc, placed, check, deaths>>

(* Same ids and classes; a placed object has a mesh that is more than a box, which an empty or
   a torn file has not. *)
CompareGlbUsdObjects ==
  /\ pc = "usd" /\ left = <<>> /\ pc' = "idle"
  /\ check' = IF \A id \in PlacementsById : id \in DOMAIN refs /\ local[refs[id].loc].state = "whole"
              THEN "ok" ELSE "differs"
  /\ UNCHANGED <<library, index, stageB1, cache, placed, refs, left, deaths>>

Dies ==
  /\ deaths < MaxDeaths /\ deaths' = deaths + 1
  /\ pc # "idle" /\ pc' = "idle" /\ check' = "none" /\ refs' = Empty /\ left' = <<>>
(* A sidecar that is cut cannot be read, which is as if it were missing. *)
AssembleDies ==
  /\ Dies
  /\ \/ side' = side
     \/ \E id \in Ids : /\ pc = id /\ usd[placed[id].loc].state = "whole"
                        /\ side' = [side EXCEPT ![placed[id].loc] = None]
  /\ UNCHANGED <<library, index, stageB1, usd, local, aged, placed>>
(* A copy that is cut has the time of its cut, and is not copied again. *)
SyncDies(id) ==
  /\ pc = "usd" /\ Wants(id) /\ Converted(placed[id]) /\ ~Synced(placed[id].loc)
  /\ local' = [local EXCEPT ![placed[id].loc] = Copied(placed[id].loc, "torn")]
  /\ Dies
  /\ UNCHANGED <<library, index, stageB1, usd, side, aged, placed>>

-----------------------------------------------------------------------------
(* The library changes between assemblies. *)

(* The new file is older than the conversion of the one before, or newer. *)
ReplaceAsset(a, v, older) ==
  /\ pc = "idle" /\ replaced < MaxReplaced /\ v # glb[a] /\ v \in 0 .. MaxVersion
  /\ glb' = [glb EXCEPT ![a] = v] /\ replaced' = replaced + 1 /\ check' = "none"
  /\ usd' = [l \in Locs |-> IF usd[l] = None THEN None
              ELSE [usd[l] EXCEPT !.newer = IF older THEN @ \union {a} ELSE @ \ {a}]]
  /\ aged' = IF older THEN aged \union {a} ELSE aged \ {a}
  /\ UNCHANGED <<listed, index, stageB1, side, local, pc, placed, refs, left, deaths>>
ListAssets(S) ==
  /\ pc = "idle" /\ replaced < MaxReplaced /\ listed # S /\ listed' = S /\ replaced' = replaced + 1
  /\ index' = IF index = None THEN None ELSE [index EXCEPT !.fresh = FALSE]
  /\ check' = "none" /\ UNCHANGED <<glb, stageB1, cache, pc, placed, refs, left, deaths>>
(* asset_index --rebuild *)
RebuildIndex ==
  /\ pc = "idle" /\ index' = [cands |-> ScanLibrary(TRUE), small |-> TRUE, fresh |-> TRUE]
  /\ UNCHANGED <<library, stageB1, cache, pc, scene>>

Init ==
  /\ glb = [a \in Assets |-> 1] /\ listed = Assets /\ replaced = 0 /\ deaths = 0 /\ index = None
  /\ manifest = None /\ made = [id \in Ids |-> 0] /\ results = {} /\ todo = None
  /\ usd = [l \in Locs |-> None] /\ side = [l \in Locs |-> None] /\ local = [l \in Locs |-> None]
  /\ aged = {} /\ pc = "idle" /\ placed = Empty /\ refs = Empty /\ left = <<>> /\ check = "none"

Next ==
  \/ BuildCrops \/ StartGeneration \/ GenerateOne \/ GenerationEnds
  \/ \E small \in BOOLEAN : Place(small)
  \/ ExportGlb \/ CompareGlbUsdObjects \/ AssembleDies \/ RebuildIndex
  \/ \E id \in Ids : ConvertGlbToUsd(id) \/ SaveUsd(id) \/ WriteSidecar(id) \/ AddAssetVisual(id) \/ SyncDies(id)
  \/ \E a \in Assets, v \in 0 .. MaxVersion, older \in BOOLEAN : ReplaceAsset(a, v, older)
  \/ \E S \in {Assets, {a \in Assets : Info[a].source # "polyhaven"}} : ListAssets(S)

-----------------------------------------------------------------------------
(* Properties *)

(* No two files are converted into the place of this one. *)
Alone(x) == \A y \in Originals : LocOf(y) = LocOf(x) => y = x

(* When an assembly says its GLB and its USD agree, the USD shows in the place of every object
   the very file, in the very version, that the GLB shows there, and shows all of it, whatever
   earlier assemblies left that died between the creation of a file, its saving, its sidecar
   and its copy, and whatever was replaced or generated since.  Two cases are not claimed: a file
   whose sanitized id is another's too, and one replaced by an older file, which the comparison
   of times cannot see.  Code: convert_glb_to_usd's reuse, _sync_dir, the check at the end. *)
VisualsAreCurrent ==
  (pc = "idle" /\ check = "ok") =>
    \A id \in DOMAIN refs :
      LET r == placed[id]  shown == local[refs[id].loc]
      IN /\ shown.state = "whole"
         /\ Alone(r.of) /\ r.of \notin aged => shown.of = r.of /\ shown.v = r.v

-----------------------------------------------------------------------------
(* What the repository says of itself and the model contradicts: README, "Disagreements
   found".  No run is spent on it. *)

(* "Same placement as the GLB": the bounds that place an asset are those of the file shown. *)
VisualFitsItsBox ==
  (pc = "idle" /\ check = "ok") =>
    \A id \in DOMAIN refs : refs[id].of = placed[id].of /\ refs[id].v = placed[id].v
=============================================================================
