------------------------------ MODULE GlyphPacks ------------------------------
(***************************************************************************)
(* The title's language packs with the product's own glyphs, put in front   *)
(* of the disc's before the title launches (GlyphPacks::install): built     *)
(* once for each disc's packs, beside their place and renamed into it, and  *)
(* kept between launches, one of which may end at any step.                 *)
(***************************************************************************)
EXTENDS Integers, Sequences, FiniteSets

CONSTANTS
  Packs,   \* XboxGlyphs::kPacks, in order
  Parts,   \* what a pack holds that the plan rewrites: the font, the layouts, the messages
  PartsOf  \* of each disc's packs, those that are there and as the plan has them

VARIABLES
  cache,   \* the files of the cache: a pack's own, or beside it, by the source it is built from
  packs    \* install's place, and what is redirected for this launch

PacksInit ==
  /\ cache = {}
  /\ packs = [next |-> 0, redirected |-> {}, writing |-> FALSE]

\* patchPack: every part rewritten, or none and the pack refused.
Patches(source) == Parts \subseteq PartsOf[source]

\* A file of the cache: what it is built from, its name, and what of it is written.
Kept(source, pack, name, written) == [source |-> source, pack |-> pack, name |-> name, written |-> written]
Begun == {}
Files(source, pack, names) ==
  {file \in cache : file.source = source /\ file.pack = pack /\ file.name \in names}
InPlace(source, pack) == Files(source, pack, {"built"})

StartPacks == packs' = [next |-> 1, redirected |-> {}, writing |-> FALSE] /\ UNCHANGED cache

Done == packs.next > Len(Packs)
Pack == Packs[packs.next]
NextPack(redirected) ==
  packs' = [next |-> packs.next + 1, redirected |-> packs.redirected \cup redirected, writing |-> FALSE]

\* The file opened over what is there: nothing of it is written yet.
Opens(source, name) ==
  cache' = (cache \ Files(source, Pack, {name})) \cup {Kept(source, Pack, name, Begun)}

Looks == ~Done /\ ~packs.writing

\* A pack not in the title, or one the plan refuses: the disc's stays.
SkipsPack == Looks /\ NextPack({}) /\ UNCHANGED cache
RefusesPack(source) == Looks /\ InPlace(source, Pack) = {} /\ ~Patches(source) /\ NextPack({}) /\ UNCHANGED cache

\* One already built, by what the disc holds.
UsesPack(source) ==
  /\ Looks /\ InPlace(source, Pack) # {}
  /\ NextPack(InPlace(source, Pack)) /\ UNCHANGED cache

\* Mutant: the pack is written in its place, where a later launch looks for it.
WritesInPlace(source) ==
  /\ Looks /\ InPlace(source, Pack) = {} /\ Patches(source)
  /\ packs' = [packs EXCEPT !.writing = TRUE] /\ Opens(source, "built")

\* writeFile: begun beside its place, over what an earlier launch may have left there.
BeginsPack(source) ==
  /\ Looks /\ InPlace(source, Pack) = {} /\ Patches(source)
  /\ packs' = [packs EXCEPT !.writing = TRUE] /\ Opens(source, "partial")

\* Written whole, renamed into place and redirected; or it would not write, and stays beside it.
FinishesPack(source) ==
  /\ packs.writing
  /\ cache' = (cache \ Files(source, Pack, {"partial", "built"})) \cup {Kept(source, Pack, "built", Parts)}
  /\ NextPack({Kept(source, Pack, "built", Parts)})

LeavesPack == packs.writing /\ NextPack({}) /\ UNCHANGED cache

PacksStep(source) ==
  SkipsPack \/ RefusesPack(source) \/ UsesPack(source) \/ BeginsPack(source) \/ FinishesPack(source) \/ LeavesPack
-----------------------------------------------------------------------------
\* What is put in front of the disc's packs is whole, and built from that disc's.
PacksAreWhole(source) == \A file \in packs.redirected : file.written = Parts /\ file.source = source
=============================================================================
