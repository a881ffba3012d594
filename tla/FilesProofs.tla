---------------------------- MODULE FilesProofs ----------------------------
(***************************************************************************)
(* Proofs about FileCache and Grow, for any number of Murphys, versions    *)
(* and chunks, any timeout and any settings.                               *)
(***************************************************************************)
EXTENDS FileCache, Grow, TLAPS

USE Zenon

---------------------------------------------------------------------------
(* The GROW service.                                                       *)

GrowSteps == {"idle", "checksum", "contains", "fetch", "digest", "delete", "load", "open", "read",
              "close", "again", "done", "fatal"}

GrowType ==
  [pc : GrowSteps, tree : {Absent} \cup 0 .. GrowVersions,
   checksum : {Absent} \cup 1 .. GrowVersions,
   began : 0 .. GrowVersions, content : 0 .. GrowVersions, sleep : Nat, tries : Nat]

(* How far the waiting times go.                                           *)
Bounded(g) ==
  /\ g.sleep = 1 \/ g.sleep < 2 * GrowTimeout
  /\ g.tries = 1 \/ g.tries < 2 * GrowTimeout

(* What is known of a Murphy by where it is.                               *)
Reading(g) ==
  /\ g.pc \in {"read", "close"} => g.tree # Torn
  /\ g.pc = "done" /\ "unchecked" \notin events => g.content # Torn /\ g.content = g.tree

SiteOK ==
  /\ site \in [file : 1 .. GrowVersions, dir : 1 .. GrowVersions, sum : 1 .. GrowVersions]
  /\ sums \subseteq 1 .. GrowVersions /\ site.sum \in sums
  /\ listing \in {Absent} \cup 0 .. GrowVersions
  /\ grow \in [GrowMurphys -> GrowType]

(* A Murphy that is alone: what it has fetched was on the site, and the    *)
(* listing that it has checked is the one that it is going to read.        *)
Alone(m) ==
  /\ m # 1 => grow[m].pc = "idle" /\ grow[m].tree = Absent
  /\ grow[m].tree = Absent \/ grow[m].tree \in sums
  /\ grow[m].checksum = Absent \/ grow[m].checksum \in sums
  /\ grow[m].pc \in {"contains", "fetch", "digest", "load"} => grow[m].checksum # Absent
  /\ grow[m].pc = "load" => listing = grow[m].checksum

GrowInv ==
  /\ SiteOK
  /\ \A m \in GrowMurphys : Bounded(grow[m]) /\ Reading(grow[m])
  /\ "two" \notin events => \A m \in GrowMurphys : Alone(m)

(* What a step of one Murphy leaves alone.                                 *)
OthersSame(m) == \A n \in GrowMurphys : n # m => grow'[n] = grow[n]

LEMMA GrowInitially == GrowInit => GrowInv
  BY SMT, GrowAssumption DEF GrowInit, GrowInv, SiteOK, GrowIdle, GrowType, GrowSteps, Bounded, Reading,
    Alone, Torn

(* A Murphy sleeps and tries again, or gives up.                           *)
Retried(m) ==
  /\ grow'[m] \in GrowType /\ Bounded(grow'[m]) /\ OthersSame(m)
  /\ grow'[m].checksum = Absent /\ grow'[m].pc \in {"checksum", "fatal"}
  /\ grow'[m].tree \in {grow[m].tree, Absent}
  /\ grow'[m].pc = "checksum" => grow'[m].sleep = 2 * grow[m].sleep
                                 /\ grow'[m].tries = grow[m].tries /\ grow'[m].tree = grow[m].tree
  /\ grow'[m].pc = "fatal" => ~(grow[m].sleep < GrowTimeout)
  /\ grow' \in [GrowMurphys -> GrowType]

LEMMA SleepRetries ==
  ASSUME SiteOK, NEW m \in GrowMurphys, Bounded(grow[m]), SleepRetry(m)
  PROVE  Retried(m)
<1>1. CASE grow[m].sleep < GrowTimeout
  BY SMT, <1>1, GrowAssumption DEF SiteOK, GrowType, GrowSteps, Bounded, SleepRetry, Retried, OthersSame
<1>2. CASE ~(grow[m].sleep < GrowTimeout)
  BY SMT, <1>2, GrowAssumption DEF SiteOK, GrowType, GrowSteps, Bounded, SleepRetry, Retried, OthersSame, GrowIdle
<1> QED  BY <1>1, <1>2

(* A step of m that leaves the site alone keeps the invariant if it keeps  *)
(* m's part of it, and leaves the listing alone unless m is alone.         *)
Kept(m) ==
  /\ site' = site /\ sums' = sums /\ events' = events
  /\ listing' \in {Absent} \cup 0 .. GrowVersions
  /\ grow' \in [GrowMurphys -> GrowType] /\ OthersSame(m)
  /\ Bounded(grow'[m]) /\ Reading(grow'[m])
  /\ "two" \notin events => m = 1 /\ Alone(m)'

LEMMA KeptKeeps ==
  ASSUME GrowInv, NEW m \in GrowMurphys, Kept(m)
  PROVE  GrowInv'
<1>1. SiteOK'
  BY DEF GrowInv, SiteOK, Kept
<1>2. \A n \in GrowMurphys : Bounded(grow'[n]) /\ Reading(grow[n])'
  BY DEF GrowInv, Kept, OthersSame, Reading
<1>3. ASSUME "two" \notin events', NEW n \in GrowMurphys  PROVE Alone(n)'
  BY <1>3 DEF GrowInv, Kept, OthersSame, Alone
<1> QED  BY <1>1, <1>2, <1>3 DEF GrowInv

(* Only Murphy 1 has begun unless there are two.                           *)
LEMMA OnlyOne ==
  ASSUME GrowInv, NEW m \in GrowMurphys, grow[m].pc # "idle", "two" \notin events
  PROVE  m = 1 /\ Alone(m)
  BY DEF GrowInv, Alone

(* The records that an open goes through.                                  *)
LEMMA OpenRecords ==
  ASSUME NEW r \in GrowType, NEW v \in 0 .. GrowVersions
  PROVE  /\ [r EXCEPT !.pc = "read", !.began = v] \in GrowType
         /\ [r EXCEPT !.pc = "close", !.content = v, !.began = 0] \in GrowType
<1>0. 0 \in 0 .. GrowVersions /\ {"read", "close"} \subseteq GrowSteps
  BY SMT, GrowAssumption DEF GrowSteps
<1>1. [r EXCEPT !.pc = "read", !.began = v] \in GrowType
  BY <1>0 DEF GrowType
<1>2. [r EXCEPT !.pc = "close", !.content = v, !.began = 0] \in GrowType
  BY <1>0 DEF GrowType
<1> QED  BY <1>1, <1>2

LEMMA CloseRecords ==
  ASSUME NEW t \in {Absent} \cup 0 .. GrowVersions, NEW c \in 0 .. GrowVersions, NEW k \in Nat
  PROVE  /\ [GrowIdle EXCEPT !.pc = "done", !.tree = t, !.content = c] \in GrowType
         /\ [GrowIdle EXCEPT !.pc = "again", !.tries = k] \in GrowType
<1>0. /\ 1 \in Nat /\ 0 \in 0 .. GrowVersions
      /\ {"done", "again"} \subseteq GrowSteps
  BY SMT, GrowAssumption DEF GrowSteps
<1>1. [GrowIdle EXCEPT !.pc = "done", !.tree = t, !.content = c] \in GrowType
  BY <1>0 DEF GrowType, GrowIdle
<1>2. [GrowIdle EXCEPT !.pc = "again", !.tries = k] \in GrowType
  BY <1>0 DEF GrowType, GrowIdle
<1> QED  BY <1>1, <1>2

(* The same, step by step.                                                 *)
LEMMA RecordKept ==
  ASSUME GrowInv, NEW m \in GrowMurphys, NEW g \in GrowType, grow' = [grow EXCEPT ![m] = g],
         site' = site, sums' = sums, events' = events, listing' = listing,
         Bounded(g), Reading(g),
         "two" \notin events =>
           /\ m = 1
           /\ g.tree = Absent \/ g.tree \in sums
           /\ g.checksum = Absent \/ g.checksum \in sums
           /\ g.pc \in {"contains", "fetch", "digest", "load"} => g.checksum # Absent
           /\ g.pc = "load" => listing = g.checksum
  PROVE  Kept(m)
<1>1. grow' \in [GrowMurphys -> GrowType] /\ OthersSame(m) /\ grow'[m] = g
  BY DEF GrowInv, SiteOK, OthersSame
<1> QED  BY <1>1 DEF Kept, GrowInv, SiteOK, Alone

LEMMA RetryKeeps ==
  ASSUME GrowInv, NEW m \in GrowMurphys, grow[m].pc # "idle", SleepRetry(m),
         site' = site, sums' = sums, events' = events, listing' \in {listing, Absent}
  PROVE  Kept(m)
<1>1. Retried(m)
  BY SleepRetries DEF GrowInv
<1>2. ASSUME "two" \notin events  PROVE m = 1 /\ Alone(m)'
  <2>1. m = 1 /\ Alone(m)  BY <1>2, OnlyOne
  <2> QED  BY <1>1, <2>1 DEF Alone, Retried
<1> QED  BY <1>1, <1>2 DEF Kept, GrowInv, SiteOK, Retried, Reading

LEMMA GrowStep ==
  ASSUME GrowInv, GrowNext
  PROVE  GrowInv'
<1> USE GrowAssumption
<1>1. CASE SiteChanges
  <2>1. SiteOK'
    BY SMT, <1>1 DEF GrowInv, SiteChanges, SiteOK
  <2>2. sums \subseteq sums'
    BY <1>1 DEF SiteChanges
  <2> QED  BY <1>1, <2>1, <2>2 DEF GrowInv, SiteChanges, Alone, Reading
<1>2. ASSUME NEW m \in GrowMurphys, grow_open(m) \/ GrowWorks(m)
      PROVE  GrowInv'
  <2> SUFFICES Kept(m)
    BY KeptKeeps
  <2>0. grow \in [GrowMurphys -> GrowType] /\ Bounded(grow[m]) /\ Reading(grow[m])
    BY DEF GrowInv, SiteOK
  <2>a. ASSUME "two" \notin events  PROVE Alone(m)
    BY <2>a DEF GrowInv
  <2> HIDE DEF Kept
  <2>1. CASE grow_open(m)
    <3> DEFINE pc == IF grow[m].tree = Absent THEN "checksum" ELSE "open"
               g == [grow[m] EXCEPT !.pc = pc, !.content = 0]
    <3>0. /\ site' = site /\ sums' = sums /\ events' = events /\ listing' = listing
          /\ m = 1 \/ "two" \in events
      BY <2>1 DEF grow_open
    <3>1. grow' = [grow EXCEPT ![m] = g]
      BY <2>1 DEF grow_open
    <3>2. pc \in {"checksum", "open"} /\ pc \in GrowSteps /\ 0 \in 0 .. GrowVersions /\ grow[m] \in GrowType
      BY SMT, <2>0 DEF GrowSteps
    <3> HIDE DEF pc
    <3>3. /\ g \in GrowType /\ g.pc = pc /\ g.tree = grow[m].tree /\ g.checksum = grow[m].checksum
          /\ g.sleep = grow[m].sleep /\ g.tries = grow[m].tries
      BY <3>2 DEF GrowType
    <3> HIDE DEF g
    <3>4. Bounded(g) /\ Reading(g)
      BY <2>0, <3>2, <3>3 DEF Bounded, Reading
    <3> QED  BY <2>a, <3>0, <3>1, <3>2, <3>3, <3>4, RecordKept DEF Alone
  <2>2. CASE FetchChecksum(m)
    <3>1. CASE SleepRetry(m)
      BY <2>2, <3>1, RetryKeeps DEF FetchChecksum, On
    <3>2. CASE grow' = [grow EXCEPT ![m].checksum = site.sum, ![m].pc = "contains"]
      BY SMT, <2>2, <3>2, <2>0, <2>a DEF FetchChecksum, On, Kept, GrowInv, SiteOK, GrowType, GrowSteps,
        Bounded, Reading, Alone, OthersSame
    <3>3. CASE grow' = [grow EXCEPT ![m] = GrowIdle]
      BY SMT, <2>2, <3>3, <2>0, <2>a DEF FetchChecksum, On, Kept, GrowInv, SiteOK, GrowType, GrowSteps,
        Bounded, Reading, Alone, OthersSame, GrowIdle
    <3> QED  BY <2>2, <3>1, <3>2, <3>3 DEF FetchChecksum
  <2>3. CASE FindListing(m)
    BY SMT, <2>3, <2>0, <2>a DEF FindListing, To, On, Kept, GrowInv, SiteOK, GrowType, GrowSteps,
      Bounded, Reading, Alone, OthersSame
  <2>4. CASE FetchListing(m)
    BY SMT, <2>4, <2>0, <2>a DEF FetchListing, To, On, Kept, GrowInv, SiteOK, GrowType, GrowSteps,
      Bounded, Reading, Alone, OthersSame, Torn
  <2>5. CASE DigestListing(m)
    <3>1. CASE listing = Absent
      BY <2>5, <3>1, RetryKeeps DEF DigestListing, On
    <3>2. CASE listing # Absent /\ listing = grow[m].checksum
      <4>1. grow' = [grow EXCEPT ![m].pc = "load"]
        BY <2>5, <3>2 DEF DigestListing, To
      <4> QED
        BY SMT, <2>5, <3>2, <4>1, <2>0, <2>a DEF DigestListing, On, Kept, GrowInv, SiteOK, GrowType, GrowSteps,
          Bounded, Reading, Alone, OthersSame
    <3>3. CASE listing # Absent /\ listing # grow[m].checksum
      <4>1. grow' = [grow EXCEPT ![m].pc = "delete"]
        BY <2>5, <3>3 DEF DigestListing, To
      <4> QED
        BY SMT, <2>5, <3>3, <4>1, <2>0, <2>a DEF DigestListing, On, Kept, GrowInv, SiteOK, GrowType, GrowSteps,
          Bounded, Reading, Alone, OthersSame
    <3> QED  BY <3>1, <3>2, <3>3
  <2>6. CASE DeleteListing(m)
    BY <2>6, RetryKeeps DEF DeleteListing, On
  <2>7. CASE LoadListing(m)
    <3>1. CASE SleepRetry(m)
      BY <2>7, <3>1, RetryKeeps DEF LoadListing, On
    <3>2. CASE ~SleepRetry(m)
      BY SMT, <2>7, <3>2, <2>0, <2>a DEF LoadListing, To, On, Kept, GrowInv, SiteOK, GrowType, GrowSteps,
        Bounded, Reading, Alone, OthersSame, Torn
    <3> QED  BY <3>1, <3>2
  <2>b. ASSUME NEW g, grow' = [grow EXCEPT ![m] = g], grow[m].pc # "idle",
               site' = site, sums' = sums, events' = events, listing' = listing,
               g \in GrowType, Bounded(g), Reading(g),
               g.pc \notin {"contains", "fetch", "digest", "load"},
               g.tree \in {grow[m].tree, Absent}, g.checksum \in {grow[m].checksum, Absent}
        PROVE  Kept(m)
    <3>1. "two" \notin events => m = 1 /\ Alone(m)
      BY <2>b, OnlyOne
    <3> QED  BY <2>b, <3>1, RecordKept DEF Alone
  <2>8. CASE LookupAndOpen(m)
    <3>0. grow[m].pc = "open" /\ site' = site /\ sums' = sums /\ events' = events /\ listing' = listing
      BY <2>8 DEF LookupAndOpen, On
    <3>1. CASE grow' = [grow EXCEPT ![m] = [GrowIdle EXCEPT !.tree = grow[m].tree]]
      <4> DEFINE g == [GrowIdle EXCEPT !.tree = grow[m].tree]
      <4>1. grow' = [grow EXCEPT ![m] = g]
        BY <3>1
      <4>2. /\ g \in GrowType /\ g.pc = "idle" /\ g.tree = grow[m].tree
            /\ g.checksum = Absent /\ g.sleep = 1 /\ g.tries = 1
        BY SMT, <2>0 DEF GrowIdle, GrowType, GrowSteps
      <4> HIDE DEF g
      <4> QED  BY <3>0, <3>1, <4>1, <4>2, <2>b DEF Bounded, Reading
    <3>2. CASE /\ grow[m].tree # Torn
               /\ grow' = [grow EXCEPT ![m].pc = "read", ![m].began = site.file]
      <4> DEFINE g == [grow[m] EXCEPT !.pc = "read", !.began = site.file]
      <4>1. grow' = [grow EXCEPT ![m] = g]
        BY <3>2
      <4>2. /\ g \in GrowType /\ g.pc = "read" /\ g.tree = grow[m].tree /\ g.checksum = grow[m].checksum
            /\ g.sleep = grow[m].sleep /\ g.tries = grow[m].tries
        <5>1. site.file \in 0 .. GrowVersions /\ grow[m] \in GrowType
          BY SMT, <2>0 DEF GrowInv, SiteOK
        <5>2. g \in GrowType
          BY <5>1, OpenRecords
        <5> QED  BY <5>1, <5>2 DEF GrowType
      <4> HIDE DEF g
      <4> QED  BY <3>0, <3>2, <4>1, <4>2, <2>0, <2>b DEF Bounded, Reading
    <3> QED  BY <2>8, <3>1, <3>2 DEF LookupAndOpen
  <2>9. CASE ReadFile(m)
    <3>0. grow[m].pc = "read" /\ site' = site /\ sums' = sums /\ events' = events /\ listing' = listing
      BY <2>9 DEF ReadFile, On
    <3>a. site.file \in 0 .. GrowVersions /\ grow[m].began \in 0 .. GrowVersions
      BY SMT, <2>0 DEF GrowInv, SiteOK, GrowType
    <3>1. ASSUME NEW content \in {grow[m].began, Torn},
                 grow' = [grow EXCEPT ![m].pc = "close", ![m].content = content, ![m].began = 0]
          PROVE  Kept(m)
      <4> DEFINE g == [grow[m] EXCEPT !.pc = "close", !.content = content, !.began = 0]
      <4>1. grow' = [grow EXCEPT ![m] = g]
        BY <3>1
      <4>2. /\ g \in GrowType /\ g.pc = "close" /\ g.tree = grow[m].tree /\ g.checksum = grow[m].checksum
            /\ g.sleep = grow[m].sleep /\ g.tries = grow[m].tries
        <5>1. content \in 0 .. GrowVersions /\ grow[m] \in GrowType
          BY SMT, <2>0, <3>1, <3>a DEF Torn
        <5>2. g \in GrowType
          BY <5>1, OpenRecords
        <5> QED  BY <5>1, <5>2 DEF GrowType
      <4> HIDE DEF g
      <4> QED  BY <3>0, <4>1, <4>2, <2>0, <2>b DEF Bounded, Reading
    <3>2. ASSUME NEW tree \in {grow[m].tree, Absent},
                 grow' = [grow EXCEPT ![m] = [GrowIdle EXCEPT !.tree = tree]]
          PROVE  Kept(m)
      <4> DEFINE g == [GrowIdle EXCEPT !.tree = tree]
      <4>1. grow' = [grow EXCEPT ![m] = g]
        BY <3>2
      <4>2. /\ g \in GrowType /\ g.pc = "idle" /\ g.tree = tree
            /\ g.checksum = Absent /\ g.sleep = 1 /\ g.tries = 1
        BY SMT, <2>0, <3>2 DEF GrowIdle, GrowType, GrowSteps
      <4> HIDE DEF g
      <4> QED  BY <3>0, <3>2, <4>1, <4>2, <2>b DEF Bounded, Reading
    <3> QED  BY <2>9, <3>1, <3>2 DEF ReadFile
  <2>10. CASE CloseFile(m)
    <3>0. grow[m].pc = "close" /\ site' = site /\ sums' = sums /\ events' = events /\ listing' = listing
      BY <2>10 DEF CloseFile, On
    <3>1. CASE Accepts(m)
      <4> DEFINE g == [GrowIdle EXCEPT !.pc = "done", !.tree = grow[m].tree, !.content = grow[m].content]
      <4>1. grow' = [grow EXCEPT ![m] = g]
        BY <2>10, <3>1 DEF CloseFile
      <4>2. /\ g \in GrowType /\ g.pc = "done" /\ g.tree = grow[m].tree /\ g.content = grow[m].content
            /\ g.checksum = Absent /\ g.sleep = 1 /\ g.tries = 1
        <5>1. g \in GrowType
          <6>1. /\ grow[m].tree \in {Absent} \cup 0 .. GrowVersions
                /\ grow[m].content \in 0 .. GrowVersions /\ 2 * grow[m].tries \in Nat
            BY SMT, <2>0 DEF GrowType
          <6> QED  BY <6>1, CloseRecords
        <5> QED  BY <5>1 DEF GrowIdle
      <4> HIDE DEF g
      <4> QED  BY <3>0, <3>1, <4>1, <4>2, <2>0, <2>b DEF Bounded, Reading, Accepts
    <3>2. CASE ~Accepts(m) /\ grow[m].tries < GrowTimeout
      <4> DEFINE g == [GrowIdle EXCEPT !.pc = "again", !.tries = 2 * grow[m].tries]
      <4>1. grow' = [grow EXCEPT ![m] = g]
        BY <2>10, <3>2 DEF CloseFile
      <4>2. /\ g \in GrowType /\ g.pc = "again" /\ g.tree = Absent
            /\ g.checksum = Absent /\ g.sleep = 1 /\ g.tries = 2 * grow[m].tries
        <5>1. g \in GrowType
          <6>1. /\ grow[m].tree \in {Absent} \cup 0 .. GrowVersions
                /\ grow[m].content \in 0 .. GrowVersions /\ 2 * grow[m].tries \in Nat
            BY SMT, <2>0 DEF GrowType
          <6> QED  BY <6>1, CloseRecords
        <5> QED  BY <5>1 DEF GrowIdle
      <4>3. g.tries < 2 * GrowTimeout
        BY SMT, <2>0, <3>2, <4>2 DEF GrowType
      <4> HIDE DEF g
      <4> QED  BY <3>0, <4>1, <4>2, <4>3, <2>b DEF Bounded, Reading
    <3>3. CASE ~Accepts(m) /\ ~(grow[m].tries < GrowTimeout)
      <4> DEFINE g == [GrowIdle EXCEPT !.pc = "fatal"]
      <4>1. grow' = [grow EXCEPT ![m] = g]
        BY <2>10, <3>3 DEF CloseFile
      <4>2. g \in GrowType /\ g.pc = "fatal" /\ g.tree = Absent /\ g.checksum = Absent /\ g.sleep = 1 /\ g.tries = 1
        BY SMT DEF GrowIdle, GrowType, GrowSteps
      <4> HIDE DEF g
      <4> QED  BY <3>0, <4>1, <4>2, <2>b DEF Bounded, Reading
    <3> QED  BY <3>1, <3>2, <3>3
  <2> QED  BY <1>2, <2>1, <2>2, <2>3, <2>4, <2>5, <2>6, <2>7, <2>8, <2>9, <2>10 DEF GrowWorks
<1> QED  BY <1>1, <1>2 DEF GrowNext

(* What Murphy shows of a GROW tree was on the site: a Murphy that is      *)
(* alone only works with a tree that grow_filesystem_create has checked    *)
(* against a checksum of the site, and, where checksums are looked at, no  *)
(* close succeeds for a file that is not, as one version, the one that the *)
(* tree lists.                                                             *)
THEOREM TreeStaysSound == GrowSpec => []GrowTreeSound
<1>1. GrowInv /\ UNCHANGED growVars => GrowInv'
  BY DEF GrowInv, growVars, SiteOK, Alone, Reading
<1>2. GrowInv => GrowTreeSound
  BY DEF GrowInv, SiteOK, GrowType, GrowTreeSound, GrowTypeOK, TreeWasPublished, FileIsListed, Alone,
    Bounded, Reading, On
<1> QED  BY <1>1, <1>2, GrowInitially, GrowStep, PTL DEF GrowSpec

---------------------------------------------------------------------------
(* A stale listing.                                                        *)

Quiet == events \cap {"changes", "lost"} = {}

NobodyDeletes == \A n \in GrowMurphys : grow[n].pc # "delete"

(* What a Murphy has, while the site stays as it was: nothing but what is  *)
(* there now, or the listing from long ago.                                *)
Current(g) ==
  /\ g.tree \in {Absent, 1} /\ g.checksum \in {Absent, 1} /\ g.tries = 1 /\ g.sleep \in {1, 2, 4}
  /\ g.pc \in {"contains", "fetch", "digest", "load"} => g.checksum = 1
  /\ g.pc \in {"open", "read", "close"} => g.tree = 1
  /\ g.pc = "read" => g.began = 1
  /\ g.pc = "close" => g.content = 1
  /\ g.pc = "delete" => g.sleep = 1
  /\ g.pc # "fatal"

(* How often it may have slept: the old listing is deleted once by each    *)
(* Murphy that found it, so that a Murphy that sleeps for the second time  *)
(* knows that nobody is going to delete it any more.                       *)
Heals(g) ==
  /\ g.pc = "load" => listing \in {1, Absent}
  /\ g.sleep # 1 => listing \in {1, Absent}
  /\ g.sleep = 2 /\ g.pc \in {"digest", "load"} /\ listing # 1 => NobodyDeletes
  /\ g.sleep = 4 => NobodyDeletes
  /\ g.sleep = 4 /\ g.pc \in {"digest", "load"} => listing = 1

HealInv ==
  Quiet => /\ site = [file |-> 1, dir |-> 1, sum |-> 1]
           /\ \A m \in GrowMurphys : Current(grow[m]) /\ Heals(grow[m])

(* A step of m that leaves what the others know true.                      *)
LEMMA HealsOthers ==
  ASSUME HealInv, Quiet, GrowMurphys \subseteq {1, 2}, NEW m \in GrowMurphys,
         site' = site, OthersSame(m), Current(grow'[m]), Heals(grow[m])',
         \/ listing' \in {listing, 1}
         \/ listing' = Absent /\ grow[m].pc = "delete",
         grow'[m].pc = "delete" => listing \notin {1, Absent}
  PROVE  HealInv'
<1>1. ASSUME NEW n \in GrowMurphys, n # m  PROVE Current(grow'[n]) /\ Heals(grow[n])'
  <2>1. Current(grow[n]) /\ Heals(grow[n]) /\ grow'[n] = grow[n]
    BY <1>1 DEF HealInv, OthersSame
  <2>2. grow[n].sleep # 1 => grow'[m].pc # "delete" /\ grow[n].pc # "delete"
    BY <2>1 DEF Current, Heals
  <2>3. grow[n].sleep # 1 => NobodyDeletes'
    BY <1>1, <2>1, <2>2 DEF NobodyDeletes
  <2>4. grow[n].sleep = 4 => grow[m].pc # "delete"
    BY <2>1 DEF Heals, NobodyDeletes
  <2>5. grow[n].sleep \in {1, 2, 4}
    BY <2>1 DEF Current
  <2>6. grow[n].pc = "load" => listing' \in {1, Absent}
    BY <2>1 DEF Heals
  <2>7. grow[n].sleep # 1 => listing' \in {1, Absent}
    BY <2>1 DEF Heals
  <2>8. grow[n].sleep = 4 /\ grow[n].pc \in {"digest", "load"} => listing' = 1
    BY <2>1, <2>4 DEF Heals
  <2> QED  BY SMT, <2>1, <2>3, <2>5, <2>6, <2>7, <2>8 DEF Heals
<1> QED  BY <1>1 DEF HealInv

LEMMA HealInitially == GrowInit => HealInv
  BY SMT, GrowAssumption DEF GrowInit, HealInv, GrowIdle, Current, Heals, NobodyDeletes

(* A Murphy that sleeps: it has not slept twice.                           *)
LEMMA HealRetry ==
  ASSUME GrowInv, HealInv, Quiet, GrowMurphys \subseteq {1, 2}, GrowTimeout > 2,
         NEW m \in GrowMurphys, SleepRetry(m), site' = site,
         \/ /\ listing' = listing /\ listing = Absent
            /\ grow[m].pc \in {"digest", "load"}
         \/ listing' = Absent /\ grow[m].pc = "delete"
  PROVE  HealInv'
<1>1. Retried(m)
  BY SleepRetries DEF GrowInv
<1>2. Current(grow[m]) /\ Heals(grow[m])
  BY DEF HealInv
<1>3. Absent # 1
  BY SMT, GrowAssumption
<1>4. grow[m].sleep \in {1, 2} /\ (grow[m].sleep = 2 => NobodyDeletes)
  <2>1. grow[m].sleep # 4
    BY <1>2, <1>3 DEF Current, Heals, NobodyDeletes
  <2>2. grow[m].sleep = 2 => NobodyDeletes
    BY <1>2, <1>3 DEF Current, Heals
  <2> QED  BY <1>2, <2>1, <2>2 DEF Current
<1>5. grow[m].sleep < GrowTimeout
  BY SMT, <1>4, GrowAssumption
<1>6. /\ grow'[m].pc = "checksum" /\ grow'[m].sleep = 2 * grow[m].sleep
      /\ grow'[m].tries = grow[m].tries /\ grow'[m].tree = grow[m].tree /\ grow'[m].checksum = Absent
      /\ OthersSame(m)
  BY <1>1, <1>5 DEF Retried
<1>7. Current(grow'[m])
  BY SMT, <1>2, <1>4, <1>6 DEF Current
<1>8. grow'[m].sleep = 4 => NobodyDeletes'
  <2>1. grow'[m].sleep = 4 => NobodyDeletes
    BY SMT, <1>4, <1>6
  <2>2. NobodyDeletes => NobodyDeletes'
    BY <1>6 DEF NobodyDeletes, OthersSame
  <2> QED  BY <2>1, <2>2
<1>9. Heals(grow[m])'
  BY <1>6, <1>8 DEF Heals
<1> QED  BY <1>6, <1>7, <1>9, HealsOthers

LEMMA HealStep ==
  ASSUME GrowInv, HealInv, GrowNext, GrowMurphys \subseteq {1, 2}, GrowTimeout > 2
  PROVE  HealInv'
<1>0. events' = events
  BY DEF GrowNext, GrowWorks, SiteChanges, grow_open, FetchChecksum, FindListing, FetchListing,
    DigestListing, DeleteListing, LoadListing, LookupAndOpen, ReadFile, CloseFile
<1> SUFFICES ASSUME Quiet  PROVE HealInv'
  BY <1>0 DEF HealInv, Quiet
<1>a. Absent # 1 /\ Absent # 0
  BY SMT, GrowAssumption
<1>1. CASE SiteChanges
  BY <1>1 DEF SiteChanges, Quiet
<1>2. ASSUME NEW m \in GrowMurphys, grow_open(m) \/ GrowWorks(m)
      PROVE  HealInv'
  <2>0. grow \in [GrowMurphys -> GrowType] /\ grow[m] \in GrowType
    BY DEF GrowInv, SiteOK
  <2>a. Current(grow[m]) /\ Heals(grow[m]) /\ site = [file |-> 1, dir |-> 1, sum |-> 1]
    BY DEF HealInv
  (* A step of m that changes no listing and does not sleep.               *)
  <2>b. ASSUME site' = site, listing' \in {listing, 1}, OthersSame(m), Current(grow'[m]),
               grow'[m].pc # "delete", grow'[m].sleep \in {1, grow[m].sleep},
               grow'[m].pc = "load" => listing' = 1,
               grow'[m].pc = "digest" /\ listing \in {1, Absent} => listing' = 1
        PROVE  HealInv'
    <3>1. grow'[m].sleep # 1 => listing \in {1, Absent}
      BY <2>b, <2>a DEF Heals
    <3>2. grow'[m].sleep = 4 => NobodyDeletes'
      <4>1. grow'[m].sleep = 4 => NobodyDeletes
        BY SMT, <2>b, <2>a DEF Heals
      <4>2. NobodyDeletes => NobodyDeletes'
        BY <2>b DEF NobodyDeletes, OthersSame
      <4> QED  BY <4>1, <4>2
    <3>3. Heals(grow[m])'
      BY SMT, <2>b, <3>1, <3>2 DEF Heals
    <3> QED  BY <2>b, <3>3, HealsOthers
  <2>1. CASE grow_open(m)
    <3>1. /\ OthersSame(m) /\ grow'[m].pc = (IF grow[m].tree = Absent THEN "checksum" ELSE "open")
          /\ grow'[m].tree = grow[m].tree /\ grow'[m].checksum = grow[m].checksum
          /\ grow'[m].tries = grow[m].tries /\ grow'[m].sleep = grow[m].sleep
      BY <2>1, <2>0 DEF grow_open, OthersSame, GrowType
    <3>2. Current(grow'[m])
      BY <3>1, <2>a DEF Current
    <3>3. site' = site /\ listing' = listing
      BY <2>1 DEF grow_open
    <3> QED  BY <3>1, <3>2, <3>3, <2>b
  <2>2. CASE FetchChecksum(m)
    <3>0. grow' = [grow EXCEPT ![m].checksum = site.sum, ![m].pc = "contains"]
      BY <2>2 DEF FetchChecksum, Quiet
    <3>1. /\ OthersSame(m) /\ grow'[m].pc = "contains"
          /\ grow'[m].tree = grow[m].tree /\ grow'[m].checksum = 1
          /\ grow'[m].tries = grow[m].tries /\ grow'[m].sleep = grow[m].sleep
      BY <3>0, <2>0, <2>a DEF OthersSame, GrowType
    <3>2. Current(grow'[m])
      BY <3>1, <2>a DEF Current
    <3> QED  BY <2>2, <3>1, <3>2, <2>b DEF FetchChecksum
  <2>3. CASE FindListing(m)
    <3>1. /\ OthersSame(m) /\ grow'[m].pc = (IF listing = Absent THEN "fetch" ELSE "digest")
          /\ grow'[m].tree = grow[m].tree /\ grow'[m].checksum = grow[m].checksum
          /\ grow'[m].tries = grow[m].tries /\ grow'[m].sleep = grow[m].sleep
      BY <2>3, <2>0 DEF FindListing, To, OthersSame, GrowType
    <3>2. Current(grow'[m])
      BY <2>3, <3>1, <2>a DEF FindListing, On, Current
    <3> QED  BY <2>3, <3>1, <3>2, <2>b DEF FindListing
  <2>4. CASE FetchListing(m)
    <3>0. listing' = 1 /\ site' = site /\ grow[m].pc = "fetch" /\ grow' = [grow EXCEPT ![m].pc = "digest"]
      BY <2>4, <2>a DEF FetchListing, To, On, Quiet
    <3>1. /\ OthersSame(m) /\ grow'[m].pc = "digest"
          /\ grow'[m].tree = grow[m].tree /\ grow'[m].checksum = grow[m].checksum
          /\ grow'[m].tries = grow[m].tries /\ grow'[m].sleep = grow[m].sleep
      BY <3>0, <2>0 DEF OthersSame, GrowType
    <3>2. Current(grow'[m])
      BY <3>0, <3>1, <2>a DEF Current
    <3> QED  BY <3>0, <3>1, <3>2, <2>b
  <2>5. CASE DigestListing(m)
    <3>0. grow[m].pc = "digest" /\ grow[m].checksum = 1 /\ site' = site /\ listing' = listing
      BY <2>5, <2>a DEF DigestListing, On, Current
    <3>1. CASE listing = Absent
      BY <2>5, <3>0, <3>1, HealRetry DEF DigestListing
    <3>2. CASE listing = 1
      <4>1. grow' = [grow EXCEPT ![m].pc = "load"]
        BY <2>5, <3>0, <3>2, <1>a DEF DigestListing, To
      <4>2. /\ OthersSame(m) /\ grow'[m].pc = "load"
            /\ grow'[m].tree = grow[m].tree /\ grow'[m].checksum = grow[m].checksum
            /\ grow'[m].tries = grow[m].tries /\ grow'[m].sleep = grow[m].sleep
        BY <4>1, <2>0 DEF OthersSame, GrowType
      <4>3. Current(grow'[m])
        BY <3>0, <4>2, <2>a DEF Current
      <4> QED  BY <3>0, <3>2, <4>2, <4>3, <2>b
    <3>3. CASE listing \notin {1, Absent}
      <4>1. grow' = [grow EXCEPT ![m].pc = "delete"]
        BY <2>5, <3>0, <3>3 DEF DigestListing, To
      <4>2. /\ OthersSame(m) /\ grow'[m].pc = "delete"
            /\ grow'[m].tree = grow[m].tree /\ grow'[m].checksum = grow[m].checksum
            /\ grow'[m].tries = grow[m].tries /\ grow'[m].sleep = grow[m].sleep
        BY <4>1, <2>0 DEF OthersSame, GrowType
      <4>3. grow[m].sleep = 1
        BY <3>3, <2>a DEF Heals
      <4>4. Current(grow'[m])
        BY <4>2, <4>3, <2>a DEF Current
      <4>5. Heals(grow[m])'
        BY SMT, <4>2, <4>3 DEF Heals
      <4> QED  BY <3>0, <3>3, <4>2, <4>4, <4>5, HealsOthers
    <3> QED  BY <3>1, <3>2, <3>3
  <2>6. CASE DeleteListing(m)
    BY <2>6, HealRetry DEF DeleteListing, On
  <2>7. CASE LoadListing(m)
    <3>0. grow[m].pc = "load" /\ site' = site /\ listing' = listing /\ listing \in {1, Absent}
      BY <2>7, <2>a DEF LoadListing, On, Heals
    <3>1. CASE listing = Absent
      <4>1. SleepRetry(m)
        BY <2>7, <3>1, <1>a DEF LoadListing, Torn
      <4> QED  BY <3>0, <3>1, <4>1, HealRetry
    <3>2. CASE listing = 1
      <4>1. grow' = [grow EXCEPT ![m].tree = listing, ![m].pc = "open", ![m].checksum = Absent,
                                 ![m].sleep = 1]
        BY SMT, <2>7, <3>2, <1>a DEF LoadListing, Torn
      <4>2. /\ OthersSame(m) /\ grow'[m].pc = "open" /\ grow'[m].tree = 1 /\ grow'[m].checksum = Absent
            /\ grow'[m].tries = grow[m].tries /\ grow'[m].sleep = 1
        BY <4>1, <3>2, <2>0 DEF OthersSame, GrowType
      <4>3. Current(grow'[m])
        BY <4>2, <2>a DEF Current
      <4> QED  BY <3>0, <4>2, <4>3, <2>b
    <3> QED  BY <3>0, <3>1, <3>2
  <2>8. CASE LookupAndOpen(m)
    <3>0. grow[m].pc = "open" /\ grow[m].tree = 1 /\ site' = site /\ listing' = listing
      BY <2>8, <2>a DEF LookupAndOpen, On, Current
    <3>1. grow' = [grow EXCEPT ![m].pc = "read", ![m].began = site.file]
      BY SMT, <2>8, <3>0 DEF LookupAndOpen, Torn, Quiet
    <3>2. /\ OthersSame(m) /\ grow'[m].pc = "read" /\ grow'[m].began = 1
          /\ grow'[m].tree = grow[m].tree /\ grow'[m].checksum = grow[m].checksum
          /\ grow'[m].tries = grow[m].tries /\ grow'[m].sleep = grow[m].sleep
      BY <3>1, <2>0, <2>a DEF OthersSame, GrowType
    <3>3. Current(grow'[m])
      BY <3>0, <3>2, <2>a DEF Current
    <3> QED  BY <3>0, <3>2, <3>3, <2>b
  <2>9. CASE ReadFile(m)
    <3>0. /\ grow[m].pc = "read" /\ grow[m].tree = 1 /\ grow[m].began = 1
          /\ site' = site /\ listing' = listing /\ site.file = 1
      BY <2>9, <2>a DEF ReadFile, On, Current
    <3>1. grow' = [grow EXCEPT ![m].pc = "close", ![m].content = 1, ![m].began = 0]
      BY <2>9, <3>0 DEF ReadFile, Quiet
    <3>2. /\ OthersSame(m) /\ grow'[m].pc = "close" /\ grow'[m].content = 1
          /\ grow'[m].tree = grow[m].tree /\ grow'[m].checksum = grow[m].checksum
          /\ grow'[m].tries = grow[m].tries /\ grow'[m].sleep = grow[m].sleep
      BY <3>1, <2>0 DEF OthersSame, GrowType
    <3>3. Current(grow'[m])
      BY <3>0, <3>2, <2>a DEF Current
    <3> QED  BY <3>0, <3>2, <3>3, <2>b
  <2>10. CASE CloseFile(m)
    <3>0. grow[m].tree = 1 /\ grow[m].content = 1 /\ site' = site /\ listing' = listing
      BY <2>10, <2>a DEF CloseFile, On, Current
    <3>1. grow' = [grow EXCEPT ![m] = [GrowIdle EXCEPT !.pc = "done", !.tree = 1, !.content = 1]]
      BY <2>10, <3>0 DEF CloseFile, Accepts
    <3>2. /\ OthersSame(m) /\ grow'[m].pc = "done" /\ grow'[m].tree = 1
          /\ grow'[m].checksum = Absent /\ grow'[m].tries = 1 /\ grow'[m].sleep = 1
      BY <3>1, <2>0 DEF OthersSame, GrowIdle
    <3>3. Current(grow'[m])
      BY <3>2 DEF Current
    <3> QED  BY <3>0, <3>2, <3>3, <2>b
  <2> QED  BY <1>2, <2>1, <2>2, <2>3, <2>4, <2>5, <2>6, <2>7, <2>8, <2>9, <2>10 DEF GrowWorks
<1> QED  BY <1>1, <1>2 DEF GrowNext

(* As long as the site does not change and no connection is lost, two      *)
(* Murphys that share a cache get over whatever listing it held: neither   *)
(* gives up in grow_filesystem_create, though each may delete what the     *)
(* other has just fetched, if only the master timeout allows two rounds    *)
(* of sleep (it is 300 unless told otherwise).                             *)
THEOREM ListingHeals ==
  ASSUME GrowMurphys \subseteq {1, 2}, GrowTimeout > 2
  PROVE  GrowSpec => []StaleListingHeals
<1>1. (GrowInv /\ HealInv) /\ UNCHANGED growVars => (GrowInv /\ HealInv)'
  BY DEF GrowInv, growVars, SiteOK, Alone, Reading, HealInv, Quiet, Heals, NobodyDeletes
<1>2. HealInv => StaleListingHeals
  BY DEF HealInv, StaleListingHeals, Quiet, Current, On
<1>3. GrowInit => GrowInv /\ HealInv
  BY GrowInitially, HealInitially
<1>4. (GrowInv /\ HealInv) /\ GrowNext => (GrowInv /\ HealInv)'
  BY GrowStep, HealStep
<1> QED  BY <1>1, <1>2, <1>3, <1>4, PTL DEF GrowSpec

---------------------------------------------------------------------------
(* The cache.                                                              *)

Chunk == 0 .. Versions
File == {f \in Seq(Chunk) : Len(f) <= Chunks}
Inode == Inodes \cup {None}

ProcType ==
  [pc : Steps, flags : Flags, size : Nat, fd : Inode, wait : Inode, off : Nat, sleep : Nat]
HandleType == [fd : Inode, changed : BOOLEAN]

CacheTypes ==
  /\ setting \in Settings
  /\ remote = None \/ remote \in File
  /\ version \in 1 .. Versions /\ creates \in 0 .. MaxCreates
  /\ data \in [Inodes -> File] /\ old \in [Inodes -> BOOLEAN]
  /\ cached \in Inode
  /\ txns \subseteq [file : Inodes, owner : Murphys \cup {None}]
  /\ proc \in [Murphys -> ProcType] /\ handle \in [Murphys -> HandleType]
  /\ notfound \in [Murphys -> BOOLEAN]

(* The steps with a file of one's own, and those before it has any data.   *)
Holding == {"ropen", "copy", "rclose", "utime", "commit", "rcreate", "abort"}
Early == {"idle", "stat", "look", "wait", "restat", "hit", "begin", "ropen"}

(* What the step p of a Murphy says of its handle h.                       *)
Position(p, h) ==
  /\ p.pc \in Holding <=> p.fd # None
  /\ p.pc = "wait" <=> p.wait # None
  /\ p.pc \in Early => p.off = 0
  /\ p.pc = "rcreate" => p.flags # "read"
  /\ p.pc \notin {"idle", "store", "stored"} => h = NoHandle
  /\ p.pc \in {"store", "stored"} => h.changed /\ h.fd # None
  /\ h.fd = None => ~h.changed
  /\ p.sleep = 1 \/ p.sleep < 2 * Timeout

(* Only writers open for writing, and change what they have open.          *)
Permitted(m) ==
  /\ proc[m].flags # "read" => m \in setting.writers
  /\ handle[m].changed => m \in setting.writers

(* The file that a Murphy fills is its own.                                *)
Separate ==
  \A m \in Murphys : proc[m].fd # None =>
    /\ proc[m].fd # cached
    /\ \A n \in Murphys : handle[n].fd # proc[m].fd /\ (n # m => proc[n].fd # proc[m].fd)

(* The first chunks of a file, and all of another one.                     *)
Partial(part, whole, k) ==
  Len(part) = k /\ k <= Len(whole) /\ \A i \in 1 .. k : part[i] = whole[i]

Filled(d, p) ==
  /\ p.pc = "ropen" => d[p.fd] = <<>>
  /\ p.pc = "copy" => Len(d[p.fd]) = p.off

(* While nobody changes the remote file.                                   *)
CopiesOK(d, r, p, h) ==
  /\ h.fd # None => d[h.fd] = r
  /\ p.pc = "copy" => r # None /\ Partial(d[p.fd], r, p.off)
  /\ p.pc \in {"rclose", "utime", "commit"} => d[p.fd] = r

Only(m) == setting.writers = {m} /\ setting.faults \cap {"changes", "unlink"} = {}

StoresOK(d, r, p, h) ==
  /\ p.pc = "store" => r # None /\ Partial(r, d[h.fd], p.off)
  /\ p.pc = "stored" => r = d[h.fd]

CacheInv ==
  /\ CacheTypes /\ Separate
  /\ \A m \in Murphys : Position(proc[m], handle[m]) /\ Permitted(m) /\ Filled(data, proc[m])
  /\ ReadOnly => (cached # None => data[cached] = remote)
  /\ ReadOnly => \A m \in Murphys : CopiesOK(data, remote, proc[m], handle[m])
  /\ \A m \in Murphys : Only(m) => StoresOK(data, remote, proc[m], handle[m])
  /\ NothingLeftBehind

(* What a step of m leaves the others with.                                *)
Gentle(m) == m \notin setting.writers /\ setting.faults \cap {"changes", "unlink"} = {}

Frame(m) ==
  /\ setting' = setting
  /\ \A n \in Murphys \ {m} : /\ proc'[n] = proc[n] /\ handle'[n] = handle[n]
                              /\ proc[n].fd # None => data'[proc[n].fd] = data[proc[n].fd]
  /\ Gentle(m) =>
       /\ remote' = remote
       /\ \A n \in Murphys \ {m} : handle[n].fd # None => data'[handle[n].fd] = data[handle[n].fd]

LEMMA OthersFine ==
  ASSUME CacheInv, NEW m \in Murphys, Frame(m), NEW n \in Murphys, n # m
  PROVE  /\ Position(proc'[n], handle'[n]) /\ Permitted(n)' /\ Filled(data, proc[n])'
         /\ ReadOnly' => CopiesOK(data, remote, proc[n], handle[n])'
         /\ Only(n)' => StoresOK(data, remote, proc[n], handle[n])'
<1>0. /\ setting' = setting /\ proc'[n] = proc[n] /\ handle'[n] = handle[n]
      /\ proc[n].fd # None => data'[proc[n].fd] = data[proc[n].fd]
  BY DEF Frame
<1>1. Position(proc[n], handle[n]) /\ Permitted(n) /\ Filled(data, proc[n])
  BY DEF CacheInv
<1>2. proc[n].pc \in {"ropen", "copy", "rclose", "utime", "commit"} => proc[n].fd # None
  BY <1>1 DEF Position, Holding
<1>3. Position(proc'[n], handle'[n]) /\ Permitted(n)'
  BY <1>0, <1>1 DEF Permitted
<1>4. Filled(data, proc[n])'
  BY <1>0, <1>1, <1>2 DEF Filled
<1>5. ASSUME ReadOnly'  PROVE CopiesOK(data, remote, proc[n], handle[n])'
  <2>1. ReadOnly /\ Gentle(m)
    BY <1>0, <1>5 DEF ReadOnly, Gentle
  <2>2. remote' = remote /\ (handle[n].fd # None => data'[handle[n].fd] = data[handle[n].fd])
    BY <2>1 DEF Frame
  <2>3. CopiesOK(data, remote, proc[n], handle[n])
    BY <2>1 DEF CacheInv
  <2> QED  BY <1>0, <1>2, <2>2, <2>3 DEF CopiesOK
<1>6. ASSUME Only(n)'  PROVE StoresOK(data, remote, proc[n], handle[n])'
  <2>1. Only(n) /\ Gentle(m)
    BY <1>0, <1>6 DEF Only, Gentle
  <2>2. remote' = remote /\ (handle[n].fd # None => data'[handle[n].fd] = data[handle[n].fd])
    BY <2>1 DEF Frame
  <2>3. StoresOK(data, remote, proc[n], handle[n])
    BY <2>1 DEF CacheInv
  <2>4. proc[n].pc \in {"store", "stored"} => handle[n].fd # None
    BY <1>1 DEF Position
  <2> QED  BY <1>0, <2>2, <2>3, <2>4 DEF StoresOK
<1> QED  BY <1>3, <1>4, <1>5, <1>6

(* What a step of m has to show.                                           *)
LEMMA StepKeeps ==
  ASSUME CacheInv, NEW m \in Murphys, Frame(m), CacheTypes', Separate',
         Position(proc'[m], handle'[m]), Permitted(m)', Filled(data, proc[m])',
         ReadOnly' => (cached # None => data[cached] = remote)',
         ReadOnly' => CopiesOK(data, remote, proc[m], handle[m])',
         Only(m)' => StoresOK(data, remote, proc[m], handle[m])',
         NothingLeftBehind'
  PROVE  CacheInv'
<1>1. \A n \in Murphys : Position(proc'[n], handle'[n]) /\ Permitted(n)' /\ Filled(data, proc[n])'
  BY OthersFine
<1>2. ReadOnly' => \A n \in Murphys : CopiesOK(data, remote, proc[n], handle[n])'
  BY OthersFine
<1>3. \A n \in Murphys : Only(n)' => StoresOK(data, remote, proc[n], handle[n])'
  BY OthersFine
<1> QED  BY <1>1, <1>2, <1>3 DEF CacheInv

(* The files that are used keep their data, except one that m may write.   *)
UsedSame(x) ==
  /\ data' \in [Inodes -> File] /\ old' \in [Inodes -> BOOLEAN]
  /\ \A i \in Inodes \ {x} :
       (i = cached' \/ \E n \in Murphys : i \in {proc'[n].fd, handle'[n].fd}) => data'[i] = data[i]

LEMMA KeepUsed ==
  ASSUME CacheTypes, Keep
  PROVE  UsedSame(None)
<1>1. <<>> \in File
  BY SMT, CacheAssumption DEF File
<1>2. data' \in [Inodes -> File] /\ old' \in [Inodes -> BOOLEAN]
  BY <1>1 DEF Keep, CacheTypes
<1>3. \A i \in Inodes : i \notin Unused' => data'[i] = data[i]
  BY DEF Keep
<1>4. \A i \in Inodes :
        (i = cached' \/ \E n \in Murphys : i \in {proc'[n].fd, handle'[n].fd}) => i \notin Unused'
  BY DEF Unused
<1> QED  BY <1>2, <1>3, <1>4 DEF UsedSame

(* The files that m may have open after a step, or put into the cache.     *)
Reach(m, p) == {None, cached} \cup IF p.fd = None THEN {proc[m].fd} ELSE {}

(* m is at p and has h open.                                               *)
Becomes(m, p, h) ==
  /\ p \in ProcType /\ h \in HandleType
  /\ proc' = [proc EXCEPT ![m] = p] /\ handle' = [handle EXCEPT ![m] = h]
  /\ p.fd \in {proc[m].fd, None} \cup Unused /\ h.fd \in Reach(m, p) \cup {handle[m].fd}
  /\ Position(p, h)
  /\ (p.flags # "read" \/ h.changed) => m \in setting.writers

(* The rest of what a step may change.                                     *)
Around(m, p) ==
  /\ setting' = setting
  /\ remote' = None \/ remote' \in File
  /\ Gentle(m) => remote' = remote
  /\ version' \in 1 .. Versions /\ creates' \in 0 .. MaxCreates /\ notfound' \in [Murphys -> BOOLEAN]
  /\ cached' \in Reach(m, p)
  /\ txns' \subseteq [file : Inodes, owner : Murphys \cup {None}]
  /\ setting.writers = {} =>
       \A t \in txns' : t.owner # None =>
         IF t.owner = m THEN t.file = p.fd ELSE t \in txns

(* What holds of the data of m.                                            *)
Result(m, p, h) ==
  /\ Filled(data', p)
  /\ ReadOnly => (cached' # None => data'[cached'] = remote')
  /\ ReadOnly => CopiesOK(data', remote', p, h)
  /\ Only(m) => StoresOK(data', remote', p, h)

LEMMA BecomesSeparate ==
  ASSUME CacheTypes, Separate, NEW m \in Murphys, NEW p, NEW h, Becomes(m, p, h), Around(m, p)
  PROVE  Separate'
<1>1. /\ proc'[m] = p /\ handle'[m] = h
      /\ \A n \in Murphys : n # m => proc'[n] = proc[n] /\ handle'[n] = handle[n]
  BY DEF CacheTypes, Becomes
<1> SUFFICES ASSUME NEW a \in Murphys, proc'[a].fd # None
             PROVE  /\ proc'[a].fd # cached'
                    /\ \A n \in Murphys : /\ handle'[n].fd # proc'[a].fd
                                          /\ n # a => proc'[n].fd # proc'[a].fd
  BY DEF Separate
<1>2. CASE proc'[a].fd = proc[a].fd
  <2>1. /\ proc[a].fd # cached
        /\ \A n \in Murphys : handle[n].fd # proc[a].fd /\ (n # a => proc[n].fd # proc[a].fd)
    BY <1>2 DEF Separate
  <2>2. \A n \in Murphys : n # a => proc'[n].fd # proc[a].fd
    BY SMT, <1>1, <1>2, <2>1 DEF Becomes, Unused
  <2>3. \A f \in Reach(m, p) : f # proc[a].fd
    <3>1. proc[m].fd = proc[a].fd /\ p.fd = None => FALSE
      BY <1>1, <1>2, <2>1
    <3> QED  BY <1>2, <2>1, <3>1 DEF Reach
  <2>4. cached' # proc[a].fd /\ h.fd # proc[a].fd
    BY <2>1, <2>3 DEF Becomes, Around
  <2> QED  BY <1>1, <1>2, <2>1, <2>2, <2>4
<1>3. CASE proc'[a].fd # proc[a].fd
  <2>1. a = m /\ p.fd \in Unused /\ p.fd # None
    BY <1>1, <1>3 DEF Becomes
  <2>2. /\ p.fd # cached
        /\ \A n \in Murphys : handle[n].fd # p.fd /\ proc[n].fd # p.fd
    BY <2>1 DEF Unused
  <2>3. \A f \in Reach(m, p) : f # p.fd
    BY <2>1, <2>2 DEF Reach
  <2>4. cached' # p.fd /\ h.fd # p.fd
    BY <2>2, <2>3 DEF Becomes, Around
  <2> QED  BY <1>1, <2>1, <2>2, <2>4
<1> QED  BY <1>2, <1>3

LEMMA Keeps ==
  ASSUME CacheInv, NEW m \in Murphys, NEW p, NEW h, NEW x,
         Becomes(m, p, h), Around(m, p), UsedSame(x), Result(m, p, h),
         \A n \in Murphys \ {m} : x \notin Inodes \/ proc[n].fd # x,
         Gentle(m) => \A n \in Murphys \ {m} : x \notin Inodes \/ handle[n].fd # x
  PROVE  CacheInv'
<1>1. CacheTypes /\ Separate /\ NothingLeftBehind /\ Permitted(m)
  BY DEF CacheInv
<1>2. /\ proc'[m] = p /\ handle'[m] = h
      /\ proc' \in [Murphys -> ProcType] /\ handle' \in [Murphys -> HandleType]
      /\ \A n \in Murphys : n # m => proc'[n] = proc[n] /\ handle'[n] = handle[n]
  BY <1>1 DEF CacheTypes, Becomes
<1>3. CacheTypes'
  <2>1. cached' \in Inode
    <3>1. proc[m].fd \in Inode /\ cached \in Inode /\ None \in Inode
      BY <1>1 DEF CacheTypes, ProcType, Inode
    <3> QED  BY <3>1 DEF Around, Reach
  <2> QED  BY <1>1, <1>2, <2>1 DEF CacheTypes, Around, UsedSame
<1>4. Separate'
  BY <1>1, BecomesSeparate
<1>5. Frame(m)
  <2>1. ASSUME NEW n \in Murphys \ {m}, proc[n].fd # None  PROVE data'[proc[n].fd] = data[proc[n].fd]
    <3>1. proc[n].fd \in Inodes
      BY <1>1, <2>1 DEF CacheTypes, ProcType, Inode
    <3> QED  BY <3>1, <2>1, <1>2 DEF UsedSame
  <2>2. ASSUME Gentle(m), NEW n \in Murphys \ {m}, handle[n].fd # None
        PROVE  data'[handle[n].fd] = data[handle[n].fd]
    <3>1. handle[n].fd \in Inodes
      BY <1>1, <2>2 DEF CacheTypes, HandleType, Inode
    <3> QED  BY <3>1, <2>2, <1>2 DEF UsedSame
  <2> QED  BY <1>2, <2>1, <2>2 DEF Frame, Around
<1>6. NothingLeftBehind'
  <2>1. \A t \in txns : t.owner # None => t.owner \in Murphys
    BY <1>1 DEF CacheTypes
  <2> QED  BY <1>1, <1>2, <2>1 DEF NothingLeftBehind, Around
<1>7. Permitted(m)' /\ Position(proc'[m], handle'[m])
  BY <1>2 DEF Permitted, Becomes, Around
<1>8. /\ Filled(data, proc[m])' /\ (ReadOnly' => (cached # None => data[cached] = remote)')
      /\ ReadOnly' => CopiesOK(data, remote, proc[m], handle[m])'
      /\ Only(m)' => StoresOK(data, remote, proc[m], handle[m])'
  <2>1. setting' = setting
    BY DEF Around
  <2>2. (ReadOnly' => ReadOnly) /\ (Only(m)' => Only(m))
    BY <2>1 DEF ReadOnly, Only
  <2> QED  BY <1>2, <2>2 DEF Result
<1> QED  BY <1>3, <1>4, <1>5, <1>6, <1>7, <1>8, StepKeeps

(* A step that writes no file, neither here nor at the service.            *)
LEMMA QuietKeeps ==
  ASSUME CacheInv, NEW m \in Murphys, NEW p, NEW h, Becomes(m, p, h), Around(m, p), UsedSame(None),
         remote' = remote, cached' \in {cached, None}, Filled(data, p),
         ReadOnly => CopiesOK(data, remote, p, h), Only(m) => StoresOK(data, remote, p, h)
  PROVE  CacheInv'
<1>1. CacheTypes
  BY DEF CacheInv
<1>2. proc'[m] = p /\ handle'[m] = h
  BY <1>1 DEF CacheTypes, Becomes
<1>3. p.fd \in Inode /\ h.fd \in Inode /\ cached \in Inode
  BY <1>1 DEF Becomes, ProcType, HandleType, CacheTypes
<1>4. p.fd # None => data'[p.fd] = data[p.fd]
  BY <1>2, <1>3 DEF UsedSame, Inode
<1>5. h.fd # None => data'[h.fd] = data[h.fd]
  BY <1>2, <1>3 DEF UsedSame, Inode
<1>6. cached' # None => cached' = cached /\ data'[cached] = data[cached]
  BY <1>3 DEF UsedSame, Inode
<1>7. p.pc \in {"ropen", "copy", "rclose", "utime", "commit"} => p.fd # None
  BY DEF Becomes, Position, Holding
<1>8. p.pc \in {"store", "stored"} => h.fd # None
  BY DEF Becomes, Position
<1>9. setting' = setting
  BY DEF Around
<1>10. Filled(data', p)
  BY <1>4, <1>7 DEF Filled
<1>11. ReadOnly' => (cached' # None => data'[cached'] = remote')
  BY <1>6, <1>9 DEF CacheInv, ReadOnly
<1>12. ReadOnly' => CopiesOK(data', remote', p, h)
  BY <1>4, <1>5, <1>7, <1>9 DEF ReadOnly, CopiesOK
<1>13. Only(m)' => StoresOK(data', remote', p, h)
  BY <1>5, <1>8, <1>9 DEF Only, StoresOK
<1>14. Result(m, p, h)
  <2>1. (ReadOnly' <=> ReadOnly) /\ (Only(m)' <=> Only(m))
    BY <1>9 DEF ReadOnly, Only
  <2> QED  BY <2>1, <1>10, <1>11, <1>12, <1>13 DEF Result
<1>15. None \notin Inodes
  BY CacheAssumption
<1> QED  BY <1>14, <1>15, Keeps

(* What is known of m before a step.                                       *)
LEMMA Known ==
  ASSUME CacheInv, NEW m \in Murphys
  PROVE  /\ CacheTypes /\ proc[m] \in ProcType /\ handle[m] \in HandleType
         /\ Position(proc[m], handle[m]) /\ Permitted(m) /\ Filled(data, proc[m])
         /\ ReadOnly => CopiesOK(data, remote, proc[m], handle[m])
         /\ Only(m) => StoresOK(data, remote, proc[m], handle[m])
  BY DEF CacheInv, CacheTypes

LEMMA SameFiles ==
  ASSUME CacheTypes, data' = data, old' = old
  PROVE  UsedSame(None)
  BY DEF CacheTypes, UsedSame

(* Nothing but m's place changes.                                          *)
PlaceOnly(m) ==
  /\ remote' = remote /\ version' = version /\ cached' = cached /\ handle' = handle
  /\ creates' \in 0 .. MaxCreates /\ notfound' \in [Murphys -> BOOLEAN] /\ setting' = setting

(* A step to a place where nothing is known of the files of m, that keeps  *)
(* its transaction.                                                        *)
Unsure == {"stat", "look", "wait", "restat", "hit", "begin", "rcreate", "abort", "invalidate"}

LEMMA MoveKeeps ==
  ASSUME CacheInv, NEW m \in Murphys, NEW p, p \in ProcType, proc' = [proc EXCEPT ![m] = p],
         PlaceOnly(m), UsedSame(None), txns' = txns, p.fd = proc[m].fd, Position(p, handle[m]),
         p.flags # "read" => m \in setting.writers,
         Filled(data, p), ReadOnly => CopiesOK(data, remote, p, handle[m]), Only(m) => StoresOK(data, remote, p, handle[m])
  PROVE  CacheInv'
<1>1. CacheTypes /\ Permitted(m) /\ NothingLeftBehind /\ handle[m] \in HandleType
  BY Known DEF CacheInv
<1>2. handle' = [handle EXCEPT ![m] = handle[m]]
  BY <1>1 DEF PlaceOnly, CacheTypes
<1>3. Becomes(m, p, handle[m])
  BY <1>1, <1>2 DEF Becomes, Permitted
<1>4. \A t \in txns : setting.writers = {} /\ t.owner # None => t.owner # m \/ t.file = p.fd
  BY <1>1 DEF NothingLeftBehind
<1>5. Around(m, p)
  BY <1>1, <1>4 DEF Around, PlaceOnly, CacheTypes, Reach
<1> QED  BY <1>3, <1>5, QuietKeeps DEF PlaceOnly

LEMMA UnsureKeeps ==
  ASSUME CacheInv, NEW m \in Murphys, NEW p, p \in ProcType, proc' = [proc EXCEPT ![m] = p],
         PlaceOnly(m), UsedSame(None), txns' = txns, p.fd = proc[m].fd, Position(p, handle[m]),
         p.flags # "read" => m \in setting.writers, p.pc \in Unsure
  PROVE  CacheInv'
<1>1. ReadOnly => (handle[m].fd # None => data[handle[m].fd] = remote)
  BY Known DEF CopiesOK
<1>2. Filled(data, p) /\ (ReadOnly => CopiesOK(data, remote, p, handle[m])) /\ StoresOK(data, remote, p, handle[m])
  BY <1>1 DEF Filled, CopiesOK, StoresOK, Unsure
<1> QED  BY <1>2, MoveKeeps

---------------------------------------------------------------------------
(* The actions of the cache, one by one.                                   *)

LEMMA StepSets ==
  /\ Unsure \subseteq Steps /\ Holding \subseteq Steps /\ Early \subseteq Steps
  /\ Unsure \cap Holding = {"rcreate", "abort"}
  /\ Unsure \cap {"idle", "store", "stored"} = {}
  BY DEF Unsure, Holding, Early, Steps

(* A step that goes somewhere and changes nothing else.                    *)
LEMMA GotoKeeps ==
  ASSUME CacheInv, NEW m \in Murphys, NEW c \in Unsure, Goto(m, c),
         PlaceOnly(m), UsedSame(None), txns' = txns, c # "wait", proc[m].wait = None,
         c \in Holding <=> proc[m].fd # None, c \in Early => proc[m].off = 0, handle[m] = NoHandle,
         c = "rcreate" => proc[m].flags # "read"
  PROVE  CacheInv'
<1> DEFINE p == [proc[m] EXCEPT !.pc = c]
<1>1. /\ CacheTypes /\ proc[m] \in ProcType /\ Position(proc[m], handle[m]) /\ Permitted(m)
  BY Known
<1>2. /\ p \in ProcType /\ p.pc = c /\ p.fd = proc[m].fd /\ p.wait = proc[m].wait
      /\ p.off = proc[m].off /\ p.sleep = proc[m].sleep /\ p.flags = proc[m].flags
  BY <1>1, StepSets DEF ProcType
<1>3. proc' = [proc EXCEPT ![m] = p]
  BY DEF Goto
<1> HIDE DEF p
<1>4. Position(p, handle[m])
  BY <1>1, <1>2, StepSets DEF Position, NoHandle
<1>5. p.flags # "read" => m \in setting.writers
  BY <1>1, <1>2 DEF Permitted
<1> QED  BY <1>2, <1>3, <1>4, <1>5, UnsureKeeps

LEMMA OpenKeeps ==
  ASSUME CacheInv, NEW m \in Murphys, NEW flags \in Flags, Open(m, flags)
  PROVE  CacheInv'
<1> DEFINE size == IF setting.session \/ remote = None THEN 0 ELSE Len(remote)
<1> DEFINE p == [Idle EXCEPT !.pc = "stat", !.flags = flags, !.size = size]
<1>1. /\ CacheTypes /\ proc[m] \in ProcType /\ Position(proc[m], handle[m]) /\ Permitted(m)
      /\ setting \in Settings
  BY Known DEF CacheTypes
<1>2. proc' = [proc EXCEPT ![m] = p]
  BY DEF Open
<1>3. size \in Nat
  BY SMT, <1>1, CacheAssumption DEF CacheTypes, File
<1> HIDE DEF size
<1>4. /\ p \in ProcType /\ p.pc = "stat" /\ p.fd = None /\ p.wait = None
      /\ p.off = 0 /\ p.sleep = 1 /\ p.flags = flags
  BY <1>3 DEF ProcType, Idle, Steps, Inode
<1> HIDE DEF p
<1>5. proc[m].fd = None
  BY <1>1 DEF Open, At, Position, Holding
<1>6. flags # "read" => m \in setting.writers
  BY DEF Open
<1>7. Position(p, handle[m])
  BY SMT, <1>4 DEF Position, Open, NoHandle, Holding, Early
<1>8. PlaceOnly(m) /\ UsedSame(None) /\ txns' = txns
  BY SMT, <1>1, SameFiles, CacheAssumption DEF Open, PlaceOnly, CacheTypes
<1> QED  BY <1>2, <1>4, <1>5, <1>6, <1>7, <1>8, UnsureKeeps DEF Unsure

LEMMA StatKeeps ==
  ASSUME CacheInv, NEW m \in Murphys, file_cache_stat(m) \/ StatAgain(m)
  PROVE  CacheInv'
<1>1. /\ CacheTypes /\ Position(proc[m], handle[m])
  BY Known
<1>2. PICK c \in {"look", "begin", "hit"} : Goto(m, c)
  BY DEF file_cache_stat, StatAgain, Judge
<1>3. /\ proc[m].pc \in {"stat", "restat"}
      /\ PlaceOnly(m) /\ UsedSame(None) /\ txns' = txns
  BY <1>1, SameFiles DEF file_cache_stat, StatAgain, At, PlaceOnly, CacheTypes
<1>4. proc[m].fd = None /\ proc[m].wait = None /\ proc[m].off = 0 /\ handle[m] = NoHandle
  BY <1>1, <1>3 DEF Position, Holding, Early
<1> QED  BY <1>2, <1>3, <1>4, GotoKeeps DEF Unsure, Holding, Early

LEMMA LookKeeps ==
  ASSUME CacheInv, NEW m \in Murphys, LookForTxn(m)
  PROVE  CacheInv'
<1>1. /\ CacheTypes /\ proc[m] \in ProcType /\ Position(proc[m], handle[m]) /\ Permitted(m)
  BY Known
<1>2. /\ proc[m].pc = "look"
      /\ PlaceOnly(m) /\ UsedSame(None) /\ txns' = txns
  BY <1>1, SameFiles DEF LookForTxn, At, PlaceOnly, CacheTypes
<1>3. proc[m].fd = None /\ proc[m].wait = None /\ proc[m].off = 0 /\ handle[m] = NoHandle
  BY <1>1, <1>2 DEF Position, Holding, Early
<1>4. CASE Goto(m, "begin")
  BY <1>2, <1>3, <1>4, GotoKeeps DEF Unsure, Holding, Early
<1>5. ASSUME NEW t \in txns, proc' = [proc EXCEPT ![m].pc = "wait", ![m].wait = t.file]
      PROVE  CacheInv'
  <2> DEFINE p == [proc[m] EXCEPT !.pc = "wait", !.wait = t.file]
  <2>1. t.file \in Inodes /\ t.file # None
    BY <1>1, CacheAssumption DEF CacheTypes
  <2>2. /\ p \in ProcType /\ p.pc = "wait" /\ p.fd = proc[m].fd /\ p.wait = t.file
        /\ p.off = proc[m].off /\ p.sleep = proc[m].sleep /\ p.flags = proc[m].flags
    BY <1>1, <2>1 DEF ProcType, Steps, Inode
  <2>3. proc' = [proc EXCEPT ![m] = p]
    BY <1>5
  <2> HIDE DEF p
  <2>4. Position(p, handle[m])
    BY <1>1, <1>3, <2>1, <2>2 DEF Position, Holding, Early, NoHandle
  <2>5. p.flags # "read" => m \in setting.writers
    BY <1>1, <2>2 DEF Permitted
  <2> QED  BY <1>2, <2>2, <2>3, <2>4, <2>5, UnsureKeeps DEF Unsure
<1> QED  BY <1>4, <1>5 DEF LookForTxn

LEMMA WaitKeeps ==
  ASSUME CacheInv, NEW m \in Murphys, Waiting(m)
  PROVE  CacheInv'
<1>1. /\ CacheTypes /\ proc[m] \in ProcType /\ Position(proc[m], handle[m]) /\ Permitted(m)
  BY Known
<1>2. /\ proc[m].pc = "wait" /\ PlaceOnly(m) /\ UsedSame(None) /\ txns' = txns
  BY <1>1, KeepUsed DEF Waiting, At, PlaceOnly, CacheTypes
<1>3. proc[m].fd = None /\ proc[m].off = 0 /\ handle[m] = NoHandle
  BY <1>1, <1>2 DEF Position, Holding, Early
<1>4. PICK c \in {"begin", "restat"} : proc' = [proc EXCEPT ![m].pc = c, ![m].wait = None]
  BY DEF Waiting
<1> DEFINE p == [proc[m] EXCEPT !.pc = c, !.wait = None]
<1>5. /\ p \in ProcType /\ p.pc = c /\ p.fd = proc[m].fd /\ p.wait = None
      /\ p.off = proc[m].off /\ p.sleep = proc[m].sleep /\ p.flags = proc[m].flags
  BY <1>1 DEF ProcType, Steps, Inode
<1>6. proc' = [proc EXCEPT ![m] = p]
  BY <1>4
<1> HIDE DEF p
<1>7. Position(p, handle[m])
  BY <1>1, <1>3, <1>5 DEF Position, Holding, Early, NoHandle
<1>8. p.flags # "read" => m \in setting.writers
  BY <1>1, <1>5 DEF Permitted
<1> QED  BY <1>2, <1>5, <1>6, <1>7, <1>8, UnsureKeeps DEF Unsure

(* The record with another step.                                           *)
LEMMA OtherStep ==
  ASSUME NEW r \in ProcType, NEW c \in Steps
  PROVE  LET p == [r EXCEPT !.pc = c]
         IN  /\ p \in ProcType /\ p.pc = c /\ p.fd = r.fd /\ p.wait = r.wait
             /\ p.off = r.off /\ p.sleep = r.sleep /\ p.flags = r.flags
  BY DEF ProcType

(* A Murphy that fills a file of its own.                                  *)
LEMMA HoldingKnown ==
  ASSUME CacheInv, NEW m \in Murphys, proc[m].pc \in Holding
  PROVE  /\ proc[m].fd \in Inodes /\ proc[m].fd # None /\ proc[m].wait = None /\ handle[m] = NoHandle
         /\ proc[m].fd # cached
         /\ \A n \in Murphys \ {m} : proc[n].fd # proc[m].fd /\ handle[n].fd # proc[m].fd
<1>1. proc[m] \in ProcType /\ Position(proc[m], handle[m]) /\ Separate
  BY Known DEF CacheInv
<1>2. proc[m].fd # None
  BY <1>1 DEF Position
<1>3. proc[m].fd \in Inodes
  BY <1>1, <1>2 DEF ProcType, Inode
<1>4. proc[m].wait = None /\ handle[m] = NoHandle
  BY <1>1 DEF Position, Holding
<1> QED  BY <1>1, <1>2, <1>3, <1>4 DEF Separate

(* The copy fails, or is not possible.                                     *)
LEMMA FailKeeps ==
  ASSUME CacheInv, NEW m \in Murphys, proc[m].pc \in Holding, NEW c \in {"abort", "rcreate"},
         Goto(m, c), PlaceOnly(m), UsedSame(None), txns' = txns,
         c = "rcreate" => proc[m].flags # "read"
  PROVE  CacheInv'
  BY HoldingKnown, GotoKeeps DEF Unsure, Holding, Early

LEMMA FailFails ==
  ASSUME CacheTypes, NEW m \in Murphys, NEW enoent, Fail(m, enoent)
  PROVE  Goto(m, "abort") /\ notfound' \in [Murphys -> BOOLEAN]
  BY DEF Fail, CacheTypes

LEMMA OpenRemoteKeeps ==
  ASSUME CacheInv, NEW m \in Murphys, OpenRemote(m)
  PROVE  CacheInv'
<1>1. /\ CacheTypes /\ proc[m] \in ProcType /\ Position(proc[m], handle[m]) /\ Permitted(m)
      /\ Filled(data, proc[m])
  BY Known
<1>2. proc[m].pc = "ropen" /\ UsedSame(None) /\ txns' = txns
  BY <1>1, SameFiles DEF OpenRemote, At
<1>3. CASE Goto(m, "copy") /\ remote # None /\ notfound' = notfound
  <2> DEFINE p == [proc[m] EXCEPT !.pc = "copy"]
  <2>1. /\ p \in ProcType /\ p.pc = "copy" /\ p.fd = proc[m].fd /\ p.wait = proc[m].wait
        /\ p.off = proc[m].off /\ p.sleep = proc[m].sleep /\ p.flags = proc[m].flags
    BY <1>1, OtherStep DEF Steps
  <2>2. proc' = [proc EXCEPT ![m] = p]
    BY <1>3 DEF Goto
  <2> HIDE DEF p
  <2>3. Position(p, handle[m])
    BY <1>1, <1>2, <2>1 DEF Position, Holding, Early
  <2>4. PlaceOnly(m)
    BY <1>1, <1>3 DEF OpenRemote, PlaceOnly, CacheTypes
  <2>5. data[p.fd] = <<>> /\ p.off = 0
    BY <1>1, <1>2, <2>1 DEF Filled, Position, Early
  <2>6. Filled(data, p) /\ StoresOK(data, remote, p, handle[m])
    BY <2>1, <2>5 DEF Filled, StoresOK
  <2>7. remote \in File
    BY <1>1, <1>3 DEF CacheTypes
  <2>8. Partial(data[p.fd], remote, p.off)
    BY SMT, <2>5, <2>7 DEF Partial, File
  <2>9. handle[m].fd = None
    BY SMT, <1>2, HoldingKnown DEF NoHandle, Holding
  <2>10. CopiesOK(data, remote, p, handle[m])
    BY <1>3, <2>1, <2>8, <2>9 DEF CopiesOK
  <2>11. p.flags # "read" => m \in setting.writers
    BY <1>1, <2>1 DEF Permitted
  <2> QED  BY <1>2, <2>1, <2>2, <2>3, <2>4, <2>6, <2>10, <2>11, MoveKeeps
<1>4. CASE Goto(m, "rcreate") /\ notfound' = notfound /\ proc[m].flags # "read"
  <2>1. PlaceOnly(m)
    BY <1>1, <1>4 DEF OpenRemote, PlaceOnly, CacheTypes
  <2> QED  BY <1>2, <1>4, <2>1, FailKeeps DEF Holding
<1>5. CASE Fail(m, remote = None)
  <2>1. Goto(m, "abort") /\ PlaceOnly(m)
    BY <1>1, <1>5, FailFails DEF OpenRemote, PlaceOnly, CacheTypes
  <2> QED  BY <1>2, <2>1, FailKeeps DEF Holding
<1> QED  BY <1>3, <1>4, <1>5 DEF OpenRemote

---------------------------------------------------------------------------
(* Partial copies.                                                         *)

LEMMA PartialNext ==
  ASSUME NEW f \in File, NEW g \in File, NEW k \in Nat, Len(f) = k, k < Len(g)
  PROVE  /\ Append(f, g[k + 1]) \in File /\ Len(Append(f, g[k + 1])) = k + 1
         /\ Partial(f, g, k) => Partial(Append(f, g[k + 1]), g, k + 1)
<1>1. f \in Seq(Chunk) /\ g \in Seq(Chunk) /\ Len(g) \in Nat /\ Len(g) <= Chunks /\ g[k + 1] \in Chunk
  BY SMT DEF File
<1>2. /\ Append(f, g[k + 1]) \in Seq(Chunk) /\ Len(Append(f, g[k + 1])) = k + 1
      /\ \A i \in 1 .. k : Append(f, g[k + 1])[i] = f[i]
      /\ Append(f, g[k + 1])[k + 1] = g[k + 1]
  BY SMT, <1>1
<1>3. Append(f, g[k + 1]) \in File
  BY SMT, <1>1, <1>2, CacheAssumption DEF File
<1>4. ASSUME Partial(f, g, k)  PROVE Partial(Append(f, g[k + 1]), g, k + 1)
  <2>1. \A i \in 1 .. k + 1 : Append(f, g[k + 1])[i] = g[i]
    BY SMT, <1>2, <1>4 DEF Partial
  <2> QED  BY SMT, <1>1, <1>2, <2>1 DEF Partial
<1> QED  BY <1>2, <1>3, <1>4

LEMMA PartialWhole ==
  ASSUME NEW f \in File, NEW g \in File, NEW k \in Nat, Partial(f, g, k), k >= Len(g)
  PROVE  f = g
<1>1. Len(g) = k /\ Len(f) = k /\ \A i \in 1 .. k : f[i] = g[i]
  BY SMT DEF Partial, File
<1> QED  BY SMT, <1>1 DEF File

---------------------------------------------------------------------------
(* The copy, and what becomes of it.                                       *)

(* m writes a file.                                                        *)
LEMMA WriteUses ==
  ASSUME CacheTypes, NEW i \in Inodes, NEW chunks \in File, Write(i, chunks)
  PROVE  UsedSame(i) /\ data'[i] = chunks /\ \A j \in Inodes : j # i => data'[j] = data[j]
  BY DEF CacheTypes, Write, UsedSame

LEMMA CopyKeeps ==
  ASSUME CacheInv, NEW m \in Murphys, Copy(m)
  PROVE  CacheInv'
<1> DEFINE off == proc[m].off
           fd == proc[m].fd
<1>1. /\ CacheTypes /\ proc[m] \in ProcType /\ Position(proc[m], handle[m]) /\ Permitted(m)
      /\ Filled(data, proc[m]) /\ (ReadOnly => CopiesOK(data, remote, proc[m], handle[m])) /\ NothingLeftBehind
  BY Known DEF CacheInv
<1>2. proc[m].pc = "copy" /\ txns' = txns
  BY DEF Copy, At
<1>3. /\ fd \in Inodes /\ fd # None /\ proc[m].wait = None /\ handle[m] = NoHandle /\ fd # cached
      /\ \A n \in Murphys \ {m} : proc[n].fd # fd /\ handle[n].fd # fd
  BY <1>2, HoldingKnown DEF Holding
<1>4. data[fd] \in File /\ off \in Nat /\ Len(data[fd]) = off
  BY <1>1, <1>2, <1>3 DEF CacheTypes, Filled, ProcType
<1>5. handle[m].fd = None
  BY SMT, <1>3 DEF NoHandle
<1>6. remote # None => remote \in File
  BY <1>1 DEF CacheTypes
<1>7. CASE /\ remote # None /\ off < Len(remote)
           /\ Write(fd, Append(data[fd], remote[off + 1]))
           /\ proc' = [proc EXCEPT ![m].off = @ + 1] /\ notfound' = notfound
  <2> DEFINE p == [proc[m] EXCEPT !.off = off + 1]
  <2>1. /\ p \in ProcType /\ p.pc = "copy" /\ p.fd = fd /\ p.wait = proc[m].wait
        /\ p.off = off + 1 /\ p.sleep = proc[m].sleep /\ p.flags = proc[m].flags
    BY SMT, <1>1, <1>2, <1>4 DEF ProcType
  <2>2. proc' = [proc EXCEPT ![m] = p]
    BY <1>7
  <2> HIDE DEF p
  <2>3. /\ Append(data[fd], remote[off + 1]) \in File
        /\ Len(Append(data[fd], remote[off + 1])) = off + 1
        /\ Partial(data[fd], remote, off) => Partial(Append(data[fd], remote[off + 1]), remote, off + 1)
    BY <1>4, <1>6, <1>7, PartialNext
  <2>4. /\ UsedSame(fd) /\ data'[fd] = Append(data[fd], remote[off + 1])
        /\ \A j \in Inodes : j # fd => data'[j] = data[j]
    BY <1>1, <1>3, <1>7, <2>3, WriteUses
  <2>5. /\ remote' = remote /\ cached' = cached /\ setting' = setting /\ handle' = handle
        /\ version' = version /\ creates' = creates
    BY DEF Copy
  <2>6. Position(p, handle[m])
    BY <1>1, <1>2, <2>1 DEF Position, Holding, Early
  <2>7. handle' = [handle EXCEPT ![m] = handle[m]] /\ handle[m] \in HandleType
    BY <1>1, <2>5 DEF CacheTypes
  <2>8. Becomes(m, p, handle[m])
    BY <1>1, <2>1, <2>2, <2>6, <2>7 DEF Becomes, Permitted
  <2>9. Around(m, p)
    BY <1>1, <1>2, <1>7, <2>1, <2>5 DEF Around, CacheTypes, Reach, NothingLeftBehind
  <2>10. Filled(data', p) /\ StoresOK(data', remote', p, handle[m])
    BY <2>1, <2>3, <2>4 DEF Filled, StoresOK
  <2>11. ReadOnly' => (cached # None => data[cached] = remote)'
    <3>1. cached \in Inode
      BY <1>1 DEF CacheTypes
    <3> QED  BY <1>3, <2>4, <2>5, <3>1 DEF ReadOnly, CacheInv, Inode
  <2>12. ReadOnly' => CopiesOK(data', remote', p, handle[m])
    BY <1>1, <1>2, <1>5, <1>7, <2>1, <2>3, <2>4, <2>5 DEF ReadOnly, CopiesOK
  <2>13. Result(m, p, handle[m])
    <3>1. ReadOnly' <=> ReadOnly
      BY <2>5 DEF ReadOnly
    <3> QED  BY <3>1, <2>10, <2>11, <2>12 DEF Result
  <2> QED  BY <1>3, <2>4, <2>8, <2>9, <2>13, Keeps
<1>8. CASE /\ remote # None /\ off >= Len(remote) /\ Goto(m, "rclose")
           /\ data' = data /\ old' = old /\ notfound' = notfound
  <2> DEFINE p == [proc[m] EXCEPT !.pc = "rclose"]
  <2>1. /\ p \in ProcType /\ p.pc = "rclose" /\ p.fd = fd /\ p.wait = proc[m].wait
        /\ p.off = off /\ p.sleep = proc[m].sleep /\ p.flags = proc[m].flags
    BY <1>1, OtherStep DEF Steps
  <2>2. proc' = [proc EXCEPT ![m] = p]
    BY <1>8 DEF Goto
  <2> HIDE DEF p
  <2>3. Position(p, handle[m])
    BY <1>1, <1>2, <2>1 DEF Position, Holding, Early
  <2>4. PlaceOnly(m) /\ UsedSame(None)
    BY <1>1, <1>8, SameFiles DEF Copy, PlaceOnly, CacheTypes
  <2>5. Filled(data, p) /\ StoresOK(data, remote, p, handle[m])
    BY <2>1 DEF Filled, StoresOK
  <2>6. ReadOnly => data[fd] = remote
    BY <1>1, <1>2, <1>4, <1>6, <1>8, PartialWhole DEF CopiesOK
  <2>7. ReadOnly => CopiesOK(data, remote, p, handle[m])
    BY <1>5, <2>1, <2>6 DEF CopiesOK
  <2>8. p.flags # "read" => m \in setting.writers
    BY <1>1, <2>1 DEF Permitted
  <2> QED  BY <1>2, <2>1, <2>2, <2>3, <2>4, <2>5, <2>7, <2>8, MoveKeeps
<1>9. CASE Fail(m, FALSE) /\ data' = data /\ old' = old
  <2>1. Goto(m, "abort") /\ PlaceOnly(m) /\ UsedSame(None)
    BY <1>1, <1>9, FailFails, SameFiles DEF Copy, PlaceOnly, CacheTypes
  <2> QED  BY <1>2, <2>1, FailKeeps DEF Holding
<1> QED  BY <1>7, <1>8, <1>9 DEF Copy

LEMMA UtimeKeeps ==
  ASSUME CacheInv, NEW m \in Murphys, Utime(m)
  PROVE  CacheInv'
<1> DEFINE p == [proc[m] EXCEPT !.pc = "commit"]
<1>1. /\ CacheTypes /\ proc[m] \in ProcType /\ Position(proc[m], handle[m]) /\ Permitted(m)
      /\ ReadOnly => CopiesOK(data, remote, proc[m], handle[m])
  BY Known
<1>2. proc[m].pc = "utime" /\ txns' = txns /\ proc' = [proc EXCEPT ![m] = p]
  BY DEF Utime, At, Goto
<1>3. /\ p \in ProcType /\ p.pc = "commit" /\ p.fd = proc[m].fd /\ p.wait = proc[m].wait
      /\ p.off = proc[m].off /\ p.sleep = proc[m].sleep /\ p.flags = proc[m].flags
  BY <1>1, OtherStep DEF Steps
<1> HIDE DEF p
<1>4. PlaceOnly(m) /\ UsedSame(None)
  BY <1>1 DEF Utime, PlaceOnly, CacheTypes, UsedSame
<1>5. Position(p, handle[m])
  BY <1>1, <1>2, <1>3 DEF Position, Holding, Early
<1>6. Filled(data, p) /\ StoresOK(data, remote, p, handle[m]) /\ (ReadOnly => CopiesOK(data, remote, p, handle[m]))
  BY <1>1, <1>2, <1>3 DEF Filled, StoresOK, CopiesOK
<1>7. p.flags # "read" => m \in setting.writers
  BY <1>1, <1>3 DEF Permitted
<1> QED  BY <1>2, <1>3, <1>4, <1>5, <1>6, <1>7, MoveKeeps

(* m gives up its own file, and the transaction with it.                   *)
LEMMA LeaveKeeps ==
  ASSUME CacheInv, NEW m \in Murphys, NEW p, p \in ProcType, proc' = [proc EXCEPT ![m] = p],
         PlaceOnly(m), UsedSame(None), Unlink(proc[m].fd), p.fd = None, Position(p, handle[m]),
         p.flags # "read" => m \in setting.writers, p.pc \in {"idle", "stat", "dead"}
  PROVE  CacheInv'
<1>1. /\ CacheTypes /\ Permitted(m) /\ NothingLeftBehind /\ handle[m] \in HandleType
      /\ ReadOnly => CopiesOK(data, remote, proc[m], handle[m])
  BY Known DEF CacheInv
<1>2. handle' = [handle EXCEPT ![m] = handle[m]]
  BY <1>1 DEF PlaceOnly, CacheTypes
<1>3. Becomes(m, p, handle[m])
  BY <1>1, <1>2 DEF Becomes, Permitted
<1>4. txns' \subseteq txns /\ \A t \in txns' : t.file # proc[m].fd
  BY DEF Unlink
<1>5. Around(m, p)
  BY <1>1, <1>4 DEF Around, PlaceOnly, CacheTypes, Reach, NothingLeftBehind
<1>6. Filled(data, p) /\ StoresOK(data, remote, p, handle[m]) /\ (ReadOnly => CopiesOK(data, remote, p, handle[m]))
  BY <1>1 DEF Filled, StoresOK, CopiesOK
<1> QED  BY <1>3, <1>5, <1>6, QuietKeeps DEF PlaceOnly

LEMMA IdleRecord ==
  /\ Idle \in ProcType /\ Idle.pc = "idle" /\ Idle.fd = None /\ Idle.flags = "read"
  /\ Idle.wait = None /\ Idle.off = 0 /\ Idle.sleep = 1
  /\ NoHandle \in HandleType /\ NoHandle.fd = None /\ NoHandle.changed = FALSE
  BY DEF Idle, NoHandle, ProcType, HandleType, Steps, Flags, Inode

LEMMA IdlePosition ==
  ASSUME NEW h \in HandleType, h.fd = None => ~h.changed
  PROVE  Position(Idle, h)
  BY IdleRecord DEF Position, Holding, Early

LEMMA AbortKeeps ==
  ASSUME CacheInv, NEW m \in Murphys, Abort(m)
  PROVE  CacheInv'
<1>1. CacheTypes /\ handle[m] \in HandleType /\ Position(proc[m], handle[m])
  BY Known
<1>2. /\ PlaceOnly(m) /\ UsedSame(None) /\ Unlink(proc[m].fd) /\ proc' = [proc EXCEPT ![m] = Idle]
  BY <1>1, KeepUsed DEF Abort, PlaceOnly, CacheTypes, Finish
<1>3. Position(Idle, handle[m])
  BY <1>1, IdlePosition DEF Position
<1> QED  BY <1>2, <1>3, IdleRecord, LeaveKeeps

LEMMA CloseRemoteKeeps ==
  ASSUME CacheInv, NEW m \in Murphys, CloseRemote(m)
  PROVE  CacheInv'
<1>1. /\ CacheTypes /\ proc[m] \in ProcType /\ Position(proc[m], handle[m]) /\ Permitted(m)
      /\ ReadOnly => CopiesOK(data, remote, proc[m], handle[m])
  BY Known
<1>2. proc[m].pc = "rclose" /\ PlaceOnly(m) /\ UsedSame(None)
  BY <1>1, KeepUsed DEF CloseRemote, At, PlaceOnly, CacheTypes
<1>3. CASE Goto(m, "utime") /\ txns' = txns
  <2> DEFINE p == [proc[m] EXCEPT !.pc = "utime"]
  <2>1. proc' = [proc EXCEPT ![m] = p]
    BY <1>3 DEF Goto
  <2>2. /\ p \in ProcType /\ p.pc = "utime" /\ p.fd = proc[m].fd /\ p.wait = proc[m].wait
        /\ p.off = proc[m].off /\ p.sleep = proc[m].sleep /\ p.flags = proc[m].flags
    BY <1>1, OtherStep DEF Steps
  <2> HIDE DEF p
  <2>3. Position(p, handle[m])
    BY <1>1, <1>2, <2>2 DEF Position, Holding, Early
  <2>4. Filled(data, p) /\ StoresOK(data, remote, p, handle[m]) /\ (ReadOnly => CopiesOK(data, remote, p, handle[m]))
    BY <1>1, <1>2, <2>2 DEF Filled, StoresOK, CopiesOK
  <2>5. p.flags # "read" => m \in setting.writers
    BY <1>1, <2>2 DEF Permitted
  <2> QED  BY <1>2, <1>3, <2>1, <2>2, <2>3, <2>4, <2>5, MoveKeeps
<1>4. CASE ~(Goto(m, "utime") /\ txns' = txns)
  <2> DEFINE again == ~GivesUp(proc[m].sleep)
             size == IF setting.session \/ remote = None THEN 0 ELSE Len(remote)
             sleep == IF again THEN 2 * proc[m].sleep ELSE 1
             c == IF again THEN "stat" ELSE "dead"
             p == [Idle EXCEPT !.pc = c, !.flags = proc[m].flags, !.size = size, !.sleep = sleep]
  <2>1. proc' = [proc EXCEPT ![m] = p] /\ Unlink(proc[m].fd)
    BY <1>4 DEF CloseRemote
  <2>2. size \in Nat
    BY SMT, <1>1 DEF CacheTypes, File
  <2>3. sleep \in Nat /\ (sleep = 1 \/ sleep < 2 * Timeout)
    BY SMT, <1>1, CacheAssumption DEF ProcType, GivesUp
  <2>4. c \in {"stat", "dead"} /\ proc[m].flags \in Flags
    BY <1>1 DEF ProcType
  <2> HIDE DEF size, sleep, c
  <2>5. /\ p \in ProcType /\ p.pc = c /\ p.fd = None /\ p.wait = None
        /\ p.off = 0 /\ p.sleep = sleep /\ p.flags = proc[m].flags
    BY <2>2, <2>3, <2>4 DEF ProcType, Idle, Steps, Inode
  <2> HIDE DEF p
  <2>6. handle[m] = NoHandle
    BY <1>2, HoldingKnown DEF Holding
  <2>7. Position(p, handle[m])
    BY SMT, <2>3, <2>4, <2>5, <2>6 DEF Position, Holding, Early, NoHandle
  <2>8. p.flags # "read" => m \in setting.writers
    BY <1>1, <2>5 DEF Permitted
  <2> QED  BY <1>2, <2>1, <2>4, <2>5, <2>7, <2>8, LeaveKeeps
<1> QED  BY <1>3, <1>4

LEMMA NewIsUnused == Unused # {} => NewInode \in Unused
  BY DEF NewInode

LEMMA BeginKeeps ==
  ASSUME CacheInv, NEW m \in Murphys, file_cache_begin(m)
  PROVE  CacheInv'
<1> DEFINE x == NewInode
           p == [proc[m] EXCEPT !.pc = "ropen", !.fd = x]
<1>1. /\ CacheTypes /\ proc[m] \in ProcType /\ handle[m] \in HandleType
      /\ Position(proc[m], handle[m]) /\ Permitted(m) /\ NothingLeftBehind
      /\ ReadOnly => CopiesOK(data, remote, proc[m], handle[m])
  BY Known DEF CacheInv
<1>2. x \in Unused /\ x \in Inodes /\ x # None
  BY NewIsUnused, CacheAssumption DEF file_cache_begin, Unused
<1>3. /\ txns' = txns \cup {[file |-> x, owner |-> m]} /\ Write(x, <<>>) /\ proc' = [proc EXCEPT ![m] = p]
      /\ remote' = remote /\ version' = version /\ cached' = cached /\ handle' = handle
      /\ creates' = creates /\ notfound' = notfound /\ setting' = setting /\ proc[m].pc = "begin"
  BY DEF file_cache_begin, At
<1> HIDE DEF x
<1>4. /\ p \in ProcType /\ p.pc = "ropen" /\ p.fd = x /\ p.wait = proc[m].wait
      /\ p.off = proc[m].off /\ p.sleep = proc[m].sleep /\ p.flags = proc[m].flags
  BY <1>1, <1>2 DEF ProcType, Steps, Inode
<1> HIDE DEF p
<1>5. proc[m].fd = None /\ proc[m].wait = None /\ proc[m].off = 0 /\ handle[m] = NoHandle
  BY <1>1, <1>3 DEF Position, Holding, Early
<1>6. Position(p, handle[m])
  BY <1>1, <1>2, <1>4, <1>5 DEF Position, Holding, Early, NoHandle
<1>7. handle' = [handle EXCEPT ![m] = handle[m]]
  BY <1>1, <1>3 DEF CacheTypes
<1>8. Becomes(m, p, handle[m])
  BY <1>1, <1>2, <1>3, <1>4, <1>6, <1>7 DEF Becomes, Permitted
<1>9. Around(m, p)
  <2>1. txns' \subseteq [file : Inodes, owner : Murphys \cup {None}]
    BY SMT, <1>1, <1>2, <1>3 DEF CacheTypes
  <2>2. ASSUME setting.writers = {}, NEW t \in txns', t.owner # None
        PROVE  IF t.owner = m THEN t.file = p.fd ELSE t \in txns
    <3>1. CASE t \in txns
      <4>1. t.file = proc[t.owner].fd /\ t.file \in Inodes /\ t.file # None
        BY <1>1, <2>2, <3>1, CacheAssumption DEF CacheTypes, NothingLeftBehind
      <4> QED  BY <1>5, <3>1, <4>1
    <3>2. CASE t = [file |-> x, owner |-> m]
      BY <1>4, <3>2
    <3> QED  BY <1>3, <2>2, <3>1, <3>2
  <2> QED  BY <1>1, <1>3, <1>4, <2>1, <2>2 DEF Around, CacheTypes, Reach
<1>10. <<>> \in File
  BY SMT, CacheAssumption DEF File
<1>11. UsedSame(x) /\ data'[x] = <<>> /\ \A j \in Inodes : j # x => data'[j] = data[j]
  BY <1>1, <1>2, <1>3, <1>10, WriteUses
<1>12. handle[m].fd = None
  BY <1>5, IdleRecord
<1>13. Result(m, p, handle[m])
  <2>1. Filled(data', p)
    BY <1>4, <1>11 DEF Filled
  <2>2. cached # None => data'[cached] = data[cached]
    BY <1>1, <1>2, <1>11 DEF CacheTypes, Inode, Unused
  <2>3. ReadOnly => (cached' # None => data'[cached'] = remote')
    BY <1>3, <2>2 DEF CacheInv
  <2>4. CopiesOK(data', remote', p, handle[m]) /\ StoresOK(data', remote', p, handle[m])
    BY <1>4, <1>12 DEF CopiesOK, StoresOK
  <2> QED  BY <2>1, <2>3, <2>4 DEF Result
<1>14. \A n \in Murphys : proc[n].fd # x /\ handle[n].fd # x
  BY <1>2 DEF Unused
<1> QED  BY <1>8, <1>9, <1>11, <1>13, <1>14, Keeps

LEMMA OpenHitKeeps ==
  ASSUME CacheInv, NEW m \in Murphys, OpenHit(m)
  PROVE  CacheInv'
<1>1. /\ CacheTypes /\ proc[m] \in ProcType /\ handle[m] \in HandleType
      /\ Position(proc[m], handle[m]) /\ Permitted(m) /\ NothingLeftBehind /\ Separate
  BY Known DEF CacheInv
<1>2. proc[m].pc = "hit" /\ txns' = txns
  BY DEF OpenHit, At
<1>3. proc[m].fd = None /\ proc[m].wait = None /\ proc[m].off = 0 /\ handle[m] = NoHandle
  BY <1>1, <1>2 DEF Position, Holding, Early
<1>4. CASE cached = None
  <2>1. Goto(m, "begin") /\ PlaceOnly(m) /\ UsedSame(None)
    BY <1>1, <1>4, SameFiles DEF OpenHit, PlaceOnly, CacheTypes
  <2> QED  BY <1>2, <1>3, <2>1, GotoKeeps DEF Unsure, Holding, Early
<1>5. CASE cached # None
  <2> DEFINE h == [fd |-> cached, changed |-> FALSE]
  <2>1. cached \in Inodes
    BY <1>1, <1>5 DEF CacheTypes, Inode
  <2>2. h \in HandleType /\ h.fd = cached /\ h.changed = FALSE
    BY <2>1 DEF HandleType, Inode
  <2>3. /\ handle' = [handle EXCEPT ![m] = h] /\ proc' = [proc EXCEPT ![m] = Idle]
        /\ remote' = remote /\ version' = version /\ cached' = cached
        /\ creates' = creates /\ notfound' = notfound /\ setting' = setting
    BY <1>5 DEF OpenHit, Finish
  <2> HIDE DEF h
  <2>4. Becomes(m, Idle, h)
    BY <1>5, <2>2, <2>3, IdleRecord, IdlePosition DEF Becomes, Reach
  <2>5. Around(m, Idle)
    <3>1. \A t \in txns : setting.writers = {} /\ t.owner # None => t.owner # m
      <4>1. \A t \in txns : t.file \in Inodes
        BY <1>1 DEF CacheTypes
      <4>2. /\ proc[m].fd = None /\ None \notin Inodes
            /\ setting.writers = {} => \A t \in txns : t.owner # None => proc[t.owner].fd = t.file
        BY <1>1, <1>3, CacheAssumption DEF NothingLeftBehind
      <4> QED  BY <4>1, <4>2
    <3> QED  BY <1>1, <1>2, <2>3, <3>1 DEF Around, CacheTypes, Reach
  <2>6. CASE proc[m].flags # "trunc"
    <3>1. UsedSame(None) /\ data' = data
      BY <1>1, <1>5, <2>6, SameFiles DEF OpenHit
    <3>2. ReadOnly => data[cached] = remote
      BY <1>5 DEF CacheInv
    <3>3. /\ Filled(data, Idle) /\ StoresOK(data, remote, Idle, h)
          /\ ReadOnly => CopiesOK(data, remote, Idle, h)
      BY <2>2, <3>2, IdleRecord DEF Filled, CopiesOK, StoresOK
    <3> QED  BY <2>3, <2>4, <2>5, <3>1, <3>3, QuietKeeps
  <2>7. CASE proc[m].flags = "trunc"
    <3>1. m \in setting.writers /\ ~ReadOnly /\ ~Gentle(m)
      BY <1>1, <2>7 DEF Permitted, ReadOnly, Gentle
    <3>2. <<>> \in File
      BY SMT, CacheAssumption DEF File
    <3>3. UsedSame(cached)
      BY <1>1, <1>5, <2>1, <2>7, <3>2, WriteUses DEF OpenHit
    <3>4. Result(m, Idle, h)
      BY <3>1, IdleRecord DEF Result, Filled, StoresOK
    <3>5. \A n \in Murphys : proc[n].fd # cached
      BY <1>1, <1>5 DEF Separate
    <3> QED  BY <2>4, <2>5, <3>1, <3>3, <3>4, <3>5, Keeps
  <2> QED  BY <2>6, <2>7
<1> QED  BY <1>4, <1>5

LEMMA CommitKeeps ==
  ASSUME CacheInv, NEW m \in Murphys, file_cache_commit(m)
  PROVE  CacheInv'
<1> DEFINE fd == proc[m].fd
           h == [fd |-> fd, changed |-> FALSE]
<1>1. /\ CacheTypes /\ proc[m] \in ProcType /\ handle[m] \in HandleType
      /\ Permitted(m) /\ NothingLeftBehind
      /\ ReadOnly => CopiesOK(data, remote, proc[m], handle[m])
  BY Known DEF CacheInv
<1>2. /\ proc[m].pc = "commit" /\ UsedSame(None) /\ remote' = remote /\ version' = version
      /\ creates' = creates /\ setting' = setting
  BY <1>1, KeepUsed DEF file_cache_commit, At
<1>3. fd \in Inodes /\ fd # None /\ fd # cached
  BY <1>2, HoldingKnown DEF Holding
<1>4. CASE Fail(m, TRUE) /\ cached' = cached /\ txns' = txns /\ handle' = handle
  <2>1. Goto(m, "abort") /\ PlaceOnly(m)
    BY <1>1, <1>2, <1>4, FailFails DEF PlaceOnly, CacheTypes
  <2> QED  BY <1>2, <1>4, <2>1, FailKeeps DEF Holding
<1>5. CASE /\ cached' = fd /\ Unlink(fd) /\ handle' = [handle EXCEPT ![m] = h] /\ Finish(m)
           /\ notfound' = notfound
  <2>1. h \in HandleType /\ h.fd = fd /\ h.changed = FALSE
    BY <1>3 DEF HandleType, Inode
  <2>2. handle' = [handle EXCEPT ![m] = h] /\ proc' = [proc EXCEPT ![m] = Idle]
    BY <1>5 DEF Finish
  <2> HIDE DEF h
  <2>3. Becomes(m, Idle, h)
    BY <1>3, <2>1, <2>2, IdleRecord, IdlePosition DEF Becomes, Reach
  <2>4. txns' \subseteq txns /\ \A t \in txns' : t.file # fd
    BY <1>5 DEF Unlink
  <2>5. Around(m, Idle)
    BY <1>1, <1>2, <1>5, <2>4, IdleRecord DEF Around, CacheTypes, Reach, NothingLeftBehind
  <2>6. data'[fd] = data[fd]
    BY <1>2, <1>3, <1>5 DEF UsedSame
  <2>7. ReadOnly => data[fd] = remote
    BY <1>1, <1>2 DEF CopiesOK
  <2>8. Result(m, Idle, h)
    BY <1>2, <1>5, <2>1, <2>6, <2>7, IdleRecord DEF Result, Filled, CopiesOK, StoresOK
  <2>9. None \notin Inodes
    BY CacheAssumption
  <2> QED  BY <1>2, <2>3, <2>5, <2>8, <2>9, Keeps
<1> QED  BY <1>4, <1>5 DEF file_cache_commit

LEMMA CreateRemoteKeeps ==
  ASSUME CacheInv, NEW m \in Murphys, CreateRemote(m)
  PROVE  CacheInv'
<1> DEFINE fd == proc[m].fd
           h == [fd |-> fd, changed |-> TRUE]
<1>1. /\ CacheTypes /\ proc[m] \in ProcType /\ handle[m] \in HandleType
      /\ Position(proc[m], handle[m]) /\ Permitted(m) /\ NothingLeftBehind
  BY Known DEF CacheInv
<1>2. /\ proc[m].pc = "rcreate" /\ version' = version /\ cached' = cached /\ txns' = txns
      /\ creates' = creates /\ setting' = setting
  BY DEF CreateRemote, At
<1>3. m \in setting.writers /\ ~ReadOnly /\ ~Gentle(m)
  BY <1>1, <1>2 DEF Position, Permitted, ReadOnly, Gentle
<1>4. /\ fd \in Inodes /\ fd # None /\ fd # cached
      /\ \A n \in Murphys \ {m} : proc[n].fd # fd /\ handle[n].fd # fd
  BY <1>2, HoldingKnown DEF Holding
<1>5. CASE Fail(m, FALSE) /\ remote' = remote /\ data' = data /\ old' = old /\ handle' = handle
  <2>1. Goto(m, "abort") /\ PlaceOnly(m) /\ UsedSame(None)
    BY <1>1, <1>2, <1>5, FailFails, SameFiles DEF PlaceOnly, CacheTypes
  <2> QED  BY <1>2, <2>1, FailKeeps DEF Holding
<1>6. CASE /\ remote' = IF proc[m].flags = "trunc" \/ remote = None THEN <<>> ELSE remote
           /\ handle' = [handle EXCEPT ![m] = h]
           /\ Write(fd, <<>>) /\ Finish(m) /\ notfound' = notfound
  <2>1. h \in HandleType /\ h.fd = fd /\ h.changed = TRUE
    BY <1>4 DEF HandleType, Inode
  <2>2. handle' = [handle EXCEPT ![m] = h] /\ proc' = [proc EXCEPT ![m] = Idle]
    BY <1>6 DEF Finish
  <2> HIDE DEF h
  <2>3. Becomes(m, Idle, h)
    BY <1>3, <1>4, <2>1, <2>2, IdleRecord, IdlePosition DEF Becomes, Reach
  <2>4. <<>> \in File
    BY SMT, CacheAssumption DEF File
  <2>5. Around(m, Idle)
    <3>1. remote' = None \/ remote' \in File
      BY <1>1, <1>6, <2>4 DEF CacheTypes
    <3>2. setting.writers # {}
      BY <1>3
    <3> QED  BY <1>1, <1>2, <1>3, <1>6, <3>1, <3>2, IdleRecord DEF Around, CacheTypes, Reach
  <2>6. UsedSame(fd)
    BY <1>1, <1>4, <1>6, <2>4, WriteUses
  <2>7. Result(m, Idle, h)
    BY <1>3, IdleRecord DEF Result, Filled, StoresOK
  <2> QED  BY <1>3, <1>4, <2>3, <2>5, <2>6, <2>7, Keeps
<1> QED  BY <1>5, <1>6 DEF CreateRemote

---------------------------------------------------------------------------
(* pfs_file_cached.                                                        *)

(* A Murphy without a file of its own has no transaction.                  *)
LEMMA NoTransaction ==
  ASSUME CacheInv, NEW m \in Murphys, proc[m].fd = None
  PROVE  setting.writers = {} => \A t \in txns : t.owner # None => t.owner # m
  BY CacheAssumption DEF CacheInv, CacheTypes, NothingLeftBehind

(* It closes what it has open, or has nothing open.                        *)
LEMMA FinishKeeps ==
  ASSUME CacheInv, NEW m \in Murphys, NEW h, h \in HandleType, h.fd \in {handle[m].fd, None},
         h.fd = None => ~h.changed, h.changed => handle[m].changed,
         NEW p, p \in {Idle, [Idle EXCEPT !.pc = "dead"]}, p.pc = "dead" => h = NoHandle,
         proc' = [proc EXCEPT ![m] = p], handle' = [handle EXCEPT ![m] = h],
         UsedSame(None), remote' = remote, version' = version, cached' \in {cached, None},
         creates' = creates, notfound' \in [Murphys -> BOOLEAN], setting' = setting,
         txns' \subseteq [file : Inodes, owner : Murphys \cup {None}],
         setting.writers = {} => \A t \in txns' : t.owner # None => t \in txns /\ t.owner # m
  PROVE  CacheInv'
<1>1. CacheTypes /\ Permitted(m) /\ (ReadOnly => CopiesOK(data, remote, proc[m], handle[m]))
  BY Known
<1>2. /\ p \in ProcType /\ p.pc \in {"idle", "dead"} /\ p.fd = None /\ p.flags = "read"
      /\ p.wait = None /\ p.off = 0 /\ p.sleep = 1
  BY IdleRecord DEF ProcType, Steps, Idle
<1>3. Position(p, h)
  BY <1>2, IdleRecord DEF Position, Holding, Early
<1>4. Becomes(m, p, h)
  BY <1>1, <1>2, <1>3 DEF Becomes, Permitted, Reach
<1>5. Around(m, p)
  BY <1>1, <1>2 DEF Around, CacheTypes, Reach
<1>6. /\ Filled(data, p) /\ StoresOK(data, remote, p, h)
      /\ ReadOnly => CopiesOK(data, remote, p, h)
  BY <1>1, <1>2 DEF Filled, CopiesOK, StoresOK
<1> QED  BY <1>4, <1>5, <1>6, QuietKeeps

LEMMA WriteCachedKeeps ==
  ASSUME CacheInv, NEW m \in Murphys, WriteCached(m)
  PROVE  CacheInv'
<1> DEFINE fd == handle[m].fd
           h == [handle[m] EXCEPT !.changed = TRUE]
           chunks == Append(data[fd], version + 1)
<1>1. /\ CacheTypes /\ proc[m] \in ProcType /\ handle[m] \in HandleType
      /\ Position(proc[m], handle[m]) /\ Permitted(m) /\ Separate
  BY Known DEF CacheInv
<1>2. /\ proc[m].pc = "idle" /\ remote' = remote /\ cached' = cached /\ txns' = txns
      /\ creates' = creates /\ notfound' = notfound /\ setting' = setting
      /\ version' = version + 1 /\ version < Versions /\ Len(data[fd]) < Chunks
      /\ Write(fd, chunks) /\ m \in setting.writers /\ handle[m] # NoHandle
  BY DEF WriteCached, At
<1>3. ~ReadOnly /\ ~Gentle(m) /\ setting.writers # {}
  BY <1>2 DEF ReadOnly, Gentle
<1>4. fd \in Inodes /\ fd # None
  <2>1. fd # None
    BY <1>1, <1>2 DEF Position, NoHandle, HandleType
  <2> QED  BY <1>1, <2>1 DEF HandleType, Inode
<1>5. h \in HandleType /\ h.fd = fd /\ h.changed = TRUE
  BY <1>1 DEF HandleType
<1>6. handle' = [handle EXCEPT ![m] = h] /\ proc' = [proc EXCEPT ![m] = proc[m]]
  BY <1>1 DEF WriteCached, CacheTypes
<1>7. chunks \in File
  <2>1. data[fd] \in Seq(Chunk) /\ version + 1 \in Chunk
    BY SMT, <1>1, <1>2, <1>4, CacheAssumption DEF CacheTypes, File, Chunk
  <2>2. chunks \in Seq(Chunk) /\ Len(chunks) = Len(data[fd]) + 1 /\ Len(data[fd]) \in Nat
    BY SMT, <2>1
  <2> QED  BY SMT, <1>2, <2>2, CacheAssumption DEF File
<1> HIDE DEF h, chunks
<1>8. UsedSame(fd)
  BY <1>1, <1>2, <1>4, <1>7, WriteUses
<1>9. Position(proc[m], h)
  BY <1>1, <1>2, <1>4, <1>5 DEF Position
<1>10. Becomes(m, proc[m], h)
  BY <1>1, <1>2, <1>5, <1>6, <1>9 DEF Becomes
<1>11. Around(m, proc[m])
  <2>1. version' \in 1 .. Versions
    BY SMT, <1>1, <1>2, CacheAssumption DEF CacheTypes
  <2>2. /\ remote' = None \/ remote' \in File
        /\ creates' \in 0 .. MaxCreates /\ notfound' \in [Murphys -> BOOLEAN]
        /\ txns' \subseteq [file : Inodes, owner : Murphys \cup {None}]
    BY <1>1, <1>2 DEF CacheTypes
  <2>3. cached' \in Reach(m, proc[m])
    BY <1>2 DEF Reach
  <2> QED  BY <1>2, <1>3, <2>1, <2>2, <2>3 DEF Around
<1>12. Result(m, proc[m], h)
  BY <1>2, <1>3 DEF Result, Filled, StoresOK
<1>13. \A n \in Murphys : proc[n].fd # fd
  BY <1>1, <1>4 DEF Separate
<1> QED  BY <1>3, <1>8, <1>10, <1>11, <1>12, <1>13, Keeps

(* A Murphy that stores: its file, and that it may.                        *)
LEMMA StoringKnown ==
  ASSUME CacheInv, NEW m \in Murphys, handle[m].changed
  PROVE  /\ m \in setting.writers /\ ~ReadOnly /\ ~Gentle(m) /\ setting.writers # {}
         /\ handle[m].fd \in Inodes /\ handle[m].fd # None
<1>1. Permitted(m) /\ Position(proc[m], handle[m]) /\ handle[m] \in HandleType
  BY Known
<1>2. handle[m].fd # None
  BY <1>1 DEF Position
<1> QED  BY <1>1, <1>2 DEF Permitted, ReadOnly, Gentle, HandleType, Inode

LEMMA EmptyFile == <<>> \in File /\ <<>> # None
<1>1. <<>> \in File
  BY SMT, CacheAssumption DEF File
<1>2. <<>> \in [1 .. 0 -> 0 .. Versions]
  BY SMT
<1>3. 0 \in 0 .. Chunks
  BY SMT, CacheAssumption
<1> QED  BY <1>1, <1>2, <1>3, CacheAssumption

LEMMA FileIsSome ==
  ASSUME NEW f \in File
  PROVE  f # None
<1>1. Len(f) \in 0 .. Chunks /\ f \in [1 .. Len(f) -> 0 .. Versions]
  BY SMT, CacheAssumption DEF File, Chunk
<1> QED  BY <1>1, CacheAssumption

LEMMA CloseCachedKeeps ==
  ASSUME CacheInv, NEW m \in Murphys, CloseCached(m)
  PROVE  CacheInv'
<1>1. /\ CacheTypes /\ proc[m] \in ProcType /\ handle[m] \in HandleType
      /\ Position(proc[m], handle[m]) /\ Permitted(m)
  BY Known
<1>2. /\ proc[m].pc = "idle" /\ UsedSame(None) /\ version' = version /\ cached' = cached /\ txns' = txns
      /\ creates' = creates /\ notfound' = notfound /\ setting' = setting
  BY <1>1, KeepUsed DEF CloseCached, At
<1>3. proc[m].fd = None /\ proc[m].wait = None /\ proc[m].off = 0
  BY <1>1, <1>2 DEF Position, Holding, Early
<1>4. CASE handle' = [handle EXCEPT ![m] = NoHandle] /\ remote' = remote /\ proc' = proc
  <2>1. proc' = [proc EXCEPT ![m] = proc[m]]
    BY <1>1, <1>4 DEF CacheTypes
  <2>2. Position(proc[m], NoHandle)
    BY <1>1, <1>2, IdleRecord DEF Position
  <2>3. Becomes(m, proc[m], NoHandle)
    BY <1>1, <1>4, <2>1, <2>2, IdleRecord DEF Becomes, Permitted, Reach
  <2>4. Around(m, proc[m])
    BY <1>1, <1>2, <1>3, <1>4, NoTransaction DEF Around, CacheTypes, Reach
  <2>5. /\ Filled(data, proc[m]) /\ StoresOK(data, remote, proc[m], NoHandle)
        /\ CopiesOK(data, remote, proc[m], NoHandle)
    BY <1>2, IdleRecord DEF Filled, StoresOK, CopiesOK
  <2> QED  BY <1>2, <1>4, <2>3, <2>4, <2>5, QuietKeeps
<1>5. CASE handle[m].changed /\ remote' = <<>> /\ Goto(m, "store") /\ handle' = handle
  <2> DEFINE p == [proc[m] EXCEPT !.pc = "store"]
  <2>1. proc' = [proc EXCEPT ![m] = p]
    BY <1>5 DEF Goto
  <2>2. /\ p \in ProcType /\ p.pc = "store" /\ p.fd = proc[m].fd /\ p.wait = proc[m].wait
        /\ p.off = proc[m].off /\ p.sleep = proc[m].sleep /\ p.flags = proc[m].flags
    BY <1>1, OtherStep DEF Steps
  <2> HIDE DEF p
  <2>3. /\ m \in setting.writers /\ ~ReadOnly /\ ~Gentle(m) /\ setting.writers # {}
        /\ handle[m].fd \in Inodes /\ handle[m].fd # None
    BY <1>5, StoringKnown
  <2>4. Position(p, handle[m])
    BY <1>1, <1>3, <1>5, <2>2, <2>3 DEF Position, Holding, Early
  <2>5. handle' = [handle EXCEPT ![m] = handle[m]]
    BY <1>1, <1>5 DEF CacheTypes
  <2>6. Becomes(m, p, handle[m])
    BY <1>1, <2>1, <2>2, <2>3, <2>4, <2>5 DEF Becomes
  <2>7. Around(m, p)
    BY <1>1, <1>2, <1>5, <2>3, EmptyFile DEF Around, CacheTypes, Reach
  <2>8. Partial(<<>>, data'[handle[m].fd], p.off)
    <3>1. data'[handle[m].fd] \in File
      BY <1>2, <2>3 DEF UsedSame
    <3> QED  BY SMT, <1>3, <2>2, <3>1 DEF Partial, File
  <2>9. Result(m, p, handle[m])
    BY <1>5, <2>2, <2>3, <2>8, EmptyFile DEF Result, Filled, StoresOK
  <2>10. None \notin Inodes
    BY CacheAssumption
  <2> QED  BY <1>2, <2>6, <2>7, <2>9, <2>10, Keeps
<1> QED  BY <1>4, <1>5 DEF CloseCached, StoreOpened

(* An element of a sequence is of the sequence's set.                      *)
LEMMA ElementOf ==
  ASSUME NEW S, NEW s \in Seq(S), NEW i \in 1 .. Len(s)
  PROVE  s[i] \in S
BY SMT

LEMMA WriteAtFile ==
  ASSUME NEW f \in File, NEW off \in Nat, NEW c \in Chunk, off < Chunks
  PROVE  /\ WriteAt(f, off, c) \in File
         /\ Len(f) = off => /\ Len(WriteAt(f, off, c)) = off + 1
                            /\ \A i \in 1 .. off : WriteAt(f, off, c)[i] = f[i]
                            /\ WriteAt(f, off, c)[off + 1] = c
<1> DEFINE n == IF off < Len(f) THEN Len(f) ELSE off + 1
           w == [i \in 1 .. n |-> IF i = off + 1 THEN c ELSE IF i <= Len(f) THEN f[i] ELSE Hole]
<1>1. f \in Seq(Chunk) /\ Len(f) \in Nat /\ Len(f) <= Chunks /\ Chunks \in Nat /\ Hole \in Chunk
  BY SMT, CacheAssumption DEF File, Hole, Chunk
<1>2. n \in Nat /\ n <= Chunks
  BY SMT, <1>1
<1>3. \A i \in 1 .. n : (IF i = off + 1 THEN c ELSE IF i <= Len(f) THEN f[i] ELSE Hole) \in Chunk
  <2> SUFFICES ASSUME NEW i \in 1 .. n
               PROVE  (IF i = off + 1 THEN c ELSE IF i <= Len(f) THEN f[i] ELSE Hole) \in Chunk
    OBVIOUS
  <2>1. i \in Nat /\ i >= 1
    BY SMT, <1>2
  <2>2. i <= Len(f) => f[i] \in Chunk
    BY SMT, <1>1, <2>1
  <2> QED  BY <1>1, <2>2
<1>4. w \in Seq(Chunk) /\ Len(w) = n
  BY SMT, <1>2, <1>3
<1>5. WriteAt(f, off, c) = w
  BY DEF WriteAt
<1>6. ASSUME Len(f) = off  PROVE n = off + 1 /\ (\A i \in 1 .. off : w[i] = f[i]) /\ w[off + 1] = c
  BY SMT, <1>1, <1>6
<1> HIDE DEF n, w
<1> QED  BY <1>2, <1>4, <1>5, <1>6 DEF File

LEMMA StoreKeeps ==
  ASSUME CacheInv, NEW m \in Murphys, Store(m)
  PROVE  CacheInv'
<1> DEFINE off == proc[m].off
           fd == handle[m].fd
<1>1. /\ CacheTypes /\ proc[m] \in ProcType /\ handle[m] \in HandleType
      /\ Position(proc[m], handle[m]) /\ Permitted(m)
      /\ Only(m) => StoresOK(data, remote, proc[m], handle[m])
  BY Known
<1>2. /\ proc[m].pc = "store" /\ UsedSame(None) /\ version' = version /\ cached' = cached /\ txns' = txns
      /\ creates' = creates /\ notfound' = notfound /\ setting' = setting
  BY <1>1, KeepUsed DEF Store, At
<1>3. proc[m].fd = None /\ proc[m].wait = None /\ handle[m].changed /\ off \in Nat
  BY <1>1, <1>2 DEF Position, Holding, ProcType
<1>4. /\ m \in setting.writers /\ ~ReadOnly /\ ~Gentle(m) /\ setting.writers # {}
      /\ fd \in Inodes /\ fd # None /\ None \notin Inodes
  BY <1>3, StoringKnown, CacheAssumption
<1>5. data[fd] \in File /\ data[fd] \in Seq(Chunk) /\ Len(data[fd]) \in Nat /\ Len(data[fd]) <= Chunks
  BY SMT, <1>1, <1>4 DEF CacheTypes, File
<1>6. CASE /\ off < Len(data[fd]) /\ remote # None
           /\ remote' = WriteAt(remote, off, data[fd][off + 1])
           /\ proc' = [proc EXCEPT ![m].off = @ + 1] /\ handle' = handle
  <2> DEFINE p == [proc[m] EXCEPT !.off = off + 1]
             c == data[fd][off + 1]
  <2>1. /\ p \in ProcType /\ p.pc = "store" /\ p.fd = None /\ p.wait = None
        /\ p.off = off + 1 /\ p.sleep = proc[m].sleep /\ p.flags = proc[m].flags
    BY SMT, <1>1, <1>2, <1>3 DEF ProcType
  <2>2. proc' = [proc EXCEPT ![m] = p] /\ handle' = [handle EXCEPT ![m] = handle[m]]
    BY <1>1, <1>6 DEF CacheTypes
  <2> HIDE DEF p
  <2>3. Position(p, handle[m])
    BY <1>1, <1>2, <2>1 DEF Position, Holding, Early
  <2>4. Becomes(m, p, handle[m])
    BY <1>1, <1>3, <1>4, <2>1, <2>2, <2>3 DEF Becomes
  <2>5. c \in Chunk /\ off < Chunks
    <3> DEFINE n == Len(data[fd])
    <3>1. n \in Nat /\ n <= Chunks /\ off < n /\ off \in Nat /\ Chunks \in Nat
      BY <1>3, <1>5, <1>6, CacheAssumption
    <3> HIDE DEF n
    <3>2. off + 1 \in 1 .. n /\ off < Chunks
      BY SMT, <3>1
    <3> QED  BY <1>5, <3>2, ElementOf DEF n
  <2>6. remote \in File
    <3>1. CacheTypes /\ remote # None
      BY <1>1, <1>6
    <3> QED  BY <3>1 DEF CacheTypes
  <2>7. /\ remote' \in File
        /\ Len(remote) = off => /\ Len(remote') = off + 1
                                /\ \A i \in 1 .. off : remote'[i] = remote[i]
                                /\ remote'[off + 1] = c
    BY SMT, <1>3, <1>6, <2>5, <2>6, WriteAtFile
  <2> HIDE DEF c
  <2>8. Around(m, p)
    BY <1>1, <1>2, <1>4, <2>7 DEF Around, CacheTypes, Reach
  <2>9. data'[fd] = data[fd]
    <3>1. handle'[m].fd = fd
      BY <1>6
    <3> QED  BY <1>2, <1>4, <3>1 DEF UsedSame
  <2>10. ASSUME Only(m)  PROVE StoresOK(data', remote', p, handle[m])
    <3>1. Partial(remote, data[fd], off)
      BY <1>1, <1>2, <2>10 DEF StoresOK
    <3>2. \A i \in 1 .. off + 1 : remote'[i] = data[fd][i]
      <4>1. /\ \A i \in 1 .. off : remote'[i] = remote[i] /\ remote[i] = data[fd][i]
            /\ remote'[off + 1] = data[fd][off + 1]
        BY <2>7, <3>1 DEF Partial, c
      <4>2. \A i \in 1 .. off + 1 : i \in 1 .. off \/ i = off + 1
        BY SMT, <1>3
      <4> QED  BY <4>1, <4>2
    <3>3. Partial(remote', data'[fd], off + 1)
      <4>1. Len(remote') = off + 1 /\ off + 1 <= Len(data[fd])
        <5>1. Len(remote) = off
          BY <3>1 DEF Partial
        <5>2. Len(remote') = off + 1
          BY <2>7, <5>1
        <5>3. off < Len(data[fd]) /\ Len(data[fd]) \in Nat
          BY <1>5, <1>6
        <5> QED  BY SMT, <1>3, <5>2, <5>3
      <4>2. Partial(remote', data[fd], off + 1)
        BY <3>2, <4>1 DEF Partial
      <4> QED  BY <2>9, <4>2
    <3> QED  BY <2>1, <2>7, <3>3, FileIsSome DEF StoresOK
  <2>11. Result(m, p, handle[m])
    BY <1>4, <2>1, <2>10 DEF Result, Filled
  <2> QED  BY <1>2, <1>4, <2>4, <2>8, <2>11, Keeps
<1>7. CASE /\ off >= Len(data[fd]) \/ remote = None
           /\ Goto(m, "stored") /\ remote' = remote /\ handle' = handle
  <2> DEFINE p == [proc[m] EXCEPT !.pc = "stored"]
  <2>1. /\ p \in ProcType /\ p.pc = "stored" /\ p.fd = proc[m].fd /\ p.wait = proc[m].wait
        /\ p.off = off /\ p.sleep = proc[m].sleep /\ p.flags = proc[m].flags
    BY <1>1, OtherStep DEF Steps
  <2>2. proc' = [proc EXCEPT ![m] = p]
    BY <1>7 DEF Goto
  <2> HIDE DEF p
  <2>3. Position(p, handle[m])
    BY <1>1, <1>2, <2>1 DEF Position, Holding, Early
  <2>4. PlaceOnly(m)
    BY <1>1, <1>2, <1>7 DEF PlaceOnly, CacheTypes
  <2>5. ASSUME Only(m)  PROVE remote = data[fd]
    <3>1. remote # None /\ Partial(remote, data[fd], off)
      BY <1>1, <1>2, <2>5 DEF StoresOK
    <3>2. remote \in File
      BY <1>1, <3>1 DEF CacheTypes
    <3> QED  BY <1>3, <1>5, <1>7, <3>1, <3>2, PartialWhole
  <2>6. /\ Filled(data, p) /\ (Only(m) => StoresOK(data, remote, p, handle[m]))
    BY <2>1, <2>5 DEF Filled, StoresOK
  <2> QED  BY <1>2, <1>4, <2>1, <2>2, <2>3, <2>4, <2>6, MoveKeeps
<1>8. CASE handle' = [handle EXCEPT ![m] = NoHandle] /\ Finish(m) /\ remote' = remote
  <2>1. NothingLeftBehind /\ \A t \in txns' : t \in txns
    BY <1>2 DEF CacheInv
  <2> QED
    BY <1>1, <1>2, <1>4, <1>8, IdleRecord, FinishKeeps DEF Finish, CacheTypes
<1> QED  BY <1>6, <1>7, <1>8 DEF Store

LEMMA StoredKeeps ==
  ASSUME CacheInv, NEW m \in Murphys, Stored(m)
  PROVE  CacheInv'
<1>1. CacheTypes /\ Position(proc[m], handle[m])
  BY Known
<1>2. proc[m].fd = None /\ UsedSame(None)
  BY <1>1, KeepUsed DEF Stored, At, Position, Holding
<1> QED  BY <1>1, <1>2, IdleRecord, FinishKeeps, NoTransaction DEF Stored, Finish, CacheTypes

LEMMA UnlinkKeeps ==
  ASSUME CacheInv, NEW m \in Murphys, UnlinkRemote(m)
  PROVE  CacheInv'
<1> DEFINE p == [proc[m] EXCEPT !.pc = "invalidate"]
<1>1. /\ CacheTypes /\ proc[m] \in ProcType /\ handle[m] \in HandleType
      /\ Position(proc[m], handle[m]) /\ Permitted(m)
  BY Known
<1>2. /\ proc[m].pc = "idle" /\ UsedSame(None) /\ version' = version /\ cached' = cached /\ txns' = txns
      /\ creates' = creates /\ notfound' = notfound /\ setting' = setting /\ remote' = None
      /\ proc' = [proc EXCEPT ![m] = p] /\ handle' = handle /\ handle[m] = NoHandle
      /\ "unlink" \in setting.faults
  BY <1>1, SameFiles DEF UnlinkRemote, At, May, Goto
<1>3. ~ReadOnly /\ ~Gentle(m) /\ ~Only(m)
  BY <1>2 DEF ReadOnly, Gentle, Only
<1>4. /\ p \in ProcType /\ p.pc = "invalidate" /\ p.fd = proc[m].fd /\ p.wait = proc[m].wait
      /\ p.off = proc[m].off /\ p.sleep = proc[m].sleep /\ p.flags = proc[m].flags
  BY <1>1, OtherStep DEF Steps
<1> HIDE DEF p
<1>5. Position(p, handle[m])
  BY <1>1, <1>2, <1>4 DEF Position, Holding, Early
<1>6. handle' = [handle EXCEPT ![m] = handle[m]]
  BY <1>1, <1>2 DEF CacheTypes
<1>7. Becomes(m, p, handle[m])
  BY <1>1, <1>2, <1>4, <1>5, <1>6 DEF Becomes, Permitted
<1>8. proc[m].fd = None
  BY <1>1, <1>2 DEF Position, Holding
<1>9. Around(m, p)
  BY <1>1, <1>2, <1>3, <1>8, NoTransaction DEF Around, CacheTypes, Reach
<1>10. Result(m, p, handle[m])
  BY <1>3, <1>4 DEF Result, Filled
<1>11. None \notin Inodes
  BY CacheAssumption
<1> QED  BY <1>2, <1>7, <1>9, <1>10, <1>11, Keeps

LEMMA InvalidateKeeps ==
  ASSUME CacheInv, NEW m \in Murphys, pfs_cache_invalidate(m)
  PROVE  CacheInv'
<1>1. CacheTypes /\ Position(proc[m], handle[m]) /\ handle[m] \in HandleType
  BY Known
<1>2. proc[m].fd = None /\ handle[m] = NoHandle /\ UsedSame(None)
  BY <1>1, KeepUsed DEF pfs_cache_invalidate, At, Position, Holding
<1>3. handle' = [handle EXCEPT ![m] = NoHandle]
  BY <1>1, <1>2 DEF pfs_cache_invalidate, CacheTypes
<1>4. /\ notfound' \in [Murphys -> BOOLEAN] /\ proc' = [proc EXCEPT ![m] = Idle]
      /\ remote' = remote /\ version' = version /\ cached' = None /\ creates' = creates
      /\ setting' = setting /\ txns' = txns
  BY <1>1 DEF pfs_cache_invalidate, CacheTypes, Finish
<1>5. setting.writers = {} => \A t \in txns' : t.owner # None => t \in txns /\ t.owner # m
  BY <1>2, <1>4, NoTransaction
<1>6. txns' \subseteq [file : Inodes, owner : Murphys \cup {None}]
  BY <1>1, <1>4 DEF CacheTypes
<1> QED  BY <1>2, <1>3, <1>4, <1>5, <1>6, IdleRecord, FinishKeeps

LEMMA CrashKeeps ==
  ASSUME CacheInv, NEW m \in Murphys, Crash(m)
  PROVE  CacheInv'
<1> DEFINE p == [Idle EXCEPT !.pc = "dead"]
<1>1. CacheTypes /\ NothingLeftBehind
  BY Known DEF CacheInv
<1>2. UsedSame(None)
  BY <1>1, KeepUsed DEF Crash
<1>3. \A t \in txns : /\ [t EXCEPT !.owner = IF @ = m THEN None ELSE @]
                         \in [file : Inodes, owner : Murphys \cup {None}]
                      /\ t.owner # m => [t EXCEPT !.owner = IF @ = m THEN None ELSE @] = t
                      /\ t.owner = m => [t EXCEPT !.owner = IF @ = m THEN None ELSE @].owner = None
  BY <1>1 DEF CacheTypes
<1>4. txns' \subseteq [file : Inodes, owner : Murphys \cup {None}]
  BY <1>3 DEF Crash
<1>5. \A t \in txns' : t.owner # None => t \in txns /\ t.owner # m
  BY <1>3 DEF Crash
<1> QED
  BY <1>1, <1>2, <1>4, <1>5, IdleRecord, FinishKeeps DEF Crash, CacheTypes

LEMMA CleanupKeeps ==
  ASSUME CacheInv, NEW m \in Murphys, file_cache_cleanup(m)
  PROVE  CacheInv'
<1>1. CacheTypes /\ Position(proc[m], handle[m]) /\ handle[m] \in HandleType
  BY Known
<1>2. proc[m].fd = None /\ handle[m] = NoHandle /\ UsedSame(None)
  BY <1>1, KeepUsed DEF file_cache_cleanup, At, Position, Holding
<1>3. handle' = [handle EXCEPT ![m] = NoHandle]
  BY <1>1, <1>2 DEF file_cache_cleanup, CacheTypes
<1>4. notfound' \in [Murphys -> BOOLEAN] /\ txns' \subseteq txns
  BY <1>1 DEF file_cache_cleanup, CacheTypes
<1>5. setting.writers = {} => \A t \in txns' : t.owner # None => t \in txns /\ t.owner # m
  BY <1>2, <1>4, NoTransaction
<1> QED
  BY <1>1, <1>2, <1>3, <1>4, <1>5, IdleRecord, FinishKeeps
  DEF file_cache_cleanup, Finish, CacheTypes

---------------------------------------------------------------------------
(* The world, and the theorems.                                            *)

LEMMA ChangesKeep ==
  ASSUME CacheInv, RemoteChanges
  PROVE  CacheInv'
<1>1. CacheTypes /\ NothingLeftBehind
  BY DEF CacheInv
<1>2. /\ "changes" \in setting.faults /\ setting' = setting /\ data' = data /\ cached' = cached
      /\ proc' = proc /\ handle' = handle /\ txns' = txns /\ old' = old /\ creates' = creates
      /\ notfound' = notfound /\ version' = version + 1 /\ version < Versions
  BY DEF RemoteChanges, May
<1>3. ~ReadOnly' /\ \A m \in Murphys : ~Only(m)'
  BY <1>2 DEF ReadOnly, Only
<1>4. remote' \in File
  <2>1. PICK n \in 0 .. Chunks : remote' = [i \in 1 .. n |-> version + 1]
    BY DEF RemoteChanges
  <2>2. version + 1 \in Chunk /\ n \in Nat /\ n <= Chunks
    BY SMT, <1>1, <1>2, CacheAssumption DEF CacheTypes, Chunk
  <2>3. remote' \in Seq(Chunk) /\ Len(remote') = n
    BY SMT, <2>1, <2>2
  <2> QED  BY <2>2, <2>3 DEF File
<1>5. CacheTypes'
  BY SMT, <1>1, <1>2, <1>4, CacheAssumption DEF CacheTypes
<1>6. Separate' /\ NothingLeftBehind'
  BY <1>1, <1>2 DEF Separate, NothingLeftBehind, CacheInv
<1>7. \A m \in Murphys : Position(proc[m], handle[m])' /\ Permitted(m)' /\ Filled(data, proc[m])'
  BY <1>2 DEF Permitted, CacheInv
<1> QED  BY <1>3, <1>5, <1>6, <1>7 DEF CacheInv

LEMMA MinuteKeeps ==
  ASSUME CacheInv, MinutePasses
  PROVE  CacheInv'
<1>1. CacheTypes /\ NothingLeftBehind /\ Separate
  BY DEF CacheInv
<1>2. /\ setting' = setting /\ data' = data /\ cached' = cached
      /\ proc' = proc /\ handle' = handle /\ txns' = txns /\ creates' = creates
      /\ notfound' = notfound /\ version' = version /\ remote' = remote
      /\ old' \in [Inodes -> BOOLEAN]
  BY <1>1 DEF MinutePasses, CacheTypes
<1>3. CacheTypes' /\ Separate' /\ NothingLeftBehind'
  BY <1>1, <1>2 DEF CacheTypes, Separate, NothingLeftBehind
<1> QED  BY <1>2, <1>3 DEF CacheInv, Permitted, ReadOnly, Only

LEMMA CacheStep ==
  ASSUME CacheInv, Next
  PROVE  CacheInv'
<1>1. ASSUME NEW m \in Murphys, Works(m)  PROVE CacheInv'
  BY <1>1, StatKeeps, LookKeeps, WaitKeeps, OpenHitKeeps, BeginKeeps, OpenRemoteKeeps, CopyKeeps,
    CloseRemoteKeeps, UtimeKeeps, CommitKeeps, CreateRemoteKeeps, AbortKeeps, StoreKeeps, StoredKeeps,
    InvalidateKeeps DEF Works
<1> QED
  BY <1>1, OpenKeeps, WriteCachedKeeps, CloseCachedKeeps, UnlinkKeeps, CrashKeeps, CleanupKeeps,
    ChangesKeep, MinuteKeeps DEF Next

LEMMA CacheInitially == Init => CacheInv
<1> SUFFICES ASSUME Init  PROVE CacheInv
  OBVIOUS
<1>1. remote = None \/ remote \in File
  <2>1. [i \in 1 .. Chunks |-> 1] \in Seq(Chunk) /\ Len([i \in 1 .. Chunks |-> 1]) = Chunks
    BY SMT, CacheAssumption DEF Chunk
  <2> QED  BY SMT, <2>1, CacheAssumption DEF Init, File
<1>2. CacheTypes
  BY SMT, <1>1, EmptyFile, IdleRecord, CacheAssumption DEF Init, CacheTypes, Inode
<1>3. \A m \in Murphys : proc[m] = Idle /\ handle[m] = NoHandle
  BY DEF Init
<1>4. Separate /\ NothingLeftBehind
  BY <1>3, IdleRecord DEF Init, Separate, NothingLeftBehind
<1>5. \A m \in Murphys : /\ Position(proc[m], handle[m]) /\ Permitted(m) /\ Filled(data, proc[m])
                         /\ CopiesOK(data, remote, proc[m], handle[m])
                         /\ StoresOK(data, remote, proc[m], handle[m])
  BY <1>3, IdleRecord, IdlePosition DEF Permitted, Filled, CopiesOK, StoresOK
<1> QED  BY <1>2, <1>4, <1>5 DEF CacheInv, Init

LEMMA CacheStutter == CacheInv /\ UNCHANGED vars => CacheInv'
<1> SUFFICES ASSUME CacheInv, UNCHANGED vars  PROVE CacheInv'
  OBVIOUS
<1>1. /\ setting' = setting /\ data' = data /\ cached' = cached /\ old' = old
      /\ proc' = proc /\ handle' = handle /\ txns' = txns /\ creates' = creates
      /\ notfound' = notfound /\ version' = version /\ remote' = remote
  BY DEF vars
<1>2. CacheTypes' /\ Separate' /\ NothingLeftBehind'
  BY <1>1 DEF CacheInv, CacheTypes, Separate, NothingLeftBehind
<1> QED  BY <1>1, <1>2 DEF CacheInv, Permitted, ReadOnly, Only

(* Copies are whole on the way in and on the way out, however many Murphys *)
(* share the cache and whichever of them crash, are overridden as too slow *)
(* or lose their transactions: the file that a Murphy fills is its own     *)
(* until file_cache_commit gives it its name, and no Murphy writes a file  *)
(* that has one unless it has opened it for writing.                       *)
THEOREM CopiesStayFaithful == Spec => []CopiesFaithful
<1>1. CacheInv => CopiesFaithful
  <2> SUFFICES ASSUME CacheInv  PROVE CopiesFaithful
    OBVIOUS
  <2>1. CacheTypeOK
    <3>1. \A m \in Murphys : proc[m].sleep = 1 \/ proc[m].sleep < 2 * Timeout
      BY DEF CacheInv, Position
    <3> QED
      BY <3>1 DEF CacheInv, CacheTypes, CacheTypeOK, File, Inode, ProcType, HandleType
  <2>2. CopiesWhole
    BY DEF CacheInv, CopiesWhole, CopiesOK
  <2>3. StoredWhole
    BY DEF CacheInv, StoredWhole, StoresOK, Only, At
  <2> QED  BY <2>1, <2>2, <2>3 DEF CopiesFaithful
<1> QED  BY <1>1, CacheInitially, CacheStep, CacheStutter, PTL DEF Spec

(* While nobody writes, a transaction in the cache directory is one that a *)
(* running Murphy fills, or its Murphy is gone: every way out of           *)
(* pfs_cache_open removes it or gives it its name.                         *)
THEOREM NothingStaysBehind == Spec => []NothingLeftBehind
<1>1. CacheInv => NothingLeftBehind
  BY DEF CacheInv
<1> QED  BY <1>1, CacheInitially, CacheStep, CacheStutter, PTL DEF Spec

============================================================================
