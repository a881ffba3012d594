------------------------------- MODULE Grow -------------------------------
(***************************************************************************)
(* The GROW service of pfs_service_grow.cc: a directory tree on a web      *)
(* site, described by a listing (.growfsdir) that holds the checksums of   *)
(* the files and by the checksum of that listing (.growfschecksum).  The   *)
(* three are changed one after the other by whoever keeps the site, while  *)
(* Murphys load the listing into the file cache that they share, and a     *)
(* file by way of it.                                                      *)
(*                                                                         *)
(* There is one file.  A file is known by its version, a listing by the    *)
(* version of the file that it lists, and a checksum by the listing;       *)
(* Torn is a listing or a file put together from parts.                    *)
(***************************************************************************)
EXTENDS Integers, FiniteSets

CONSTANTS
  GrowMurphys,   \* Murphys that share the cache
  GrowVersions,  \* bound: versions of the file
  GrowTimeout,   \* pfs_master_timeout
  GrowSettings,  \* sets of what may happen: the site "changes", a connection
                 \* is "lost", "two" Murphys run; "unchecked": the listing has
                 \* no checksum of the file, or pfs_checksum_files is off
  Absent         \* no listing

Torn == 0

ASSUME GrowAssumption ==
  /\ GrowVersions \in Nat \ {0} /\ GrowTimeout \in Nat
  /\ Absent \notin 0 .. GrowVersions
  /\ \A s \in GrowSettings : s \subseteq {"changes", "lost", "two", "unchecked"}

VARIABLES
  site,     \* the file, the listing and the checksum on the site
  sums,     \* the checksums that were on the site so far
  listing,  \* the listing in the cache, or Absent
  grow,     \* what each Murphy does
  events    \* what may happen in this run; it never changes

growVars == <<site, sums, listing, grow, events>>

GrowIdle == [pc |-> "idle", tree |-> Absent, checksum |-> Absent, began |-> 0, content |-> 0,
             sleep |-> 1, tries |-> 1]

On(m, pc) == grow[m].pc = pc
To(m, pc) == grow' = [grow EXCEPT ![m].pc = pc]

---------------------------------------------------------------------------
(* The keeper of the site changes the file, lists it, and writes the       *)
(* checksum of the list.                                                   *)
SiteChanges ==
  /\ "changes" \in events
  /\ \/ site.file < GrowVersions /\ site' = [site EXCEPT !.file = @ + 1] /\ UNCHANGED sums
     \/ site.dir # site.file /\ site' = [site EXCEPT !.dir = site.file] /\ UNCHANGED sums
     \/ /\ site.sum # site.dir
        /\ site' = [site EXCEPT !.sum = site.dir]
        /\ sums' = sums \cup {site.dir}
  /\ UNCHANGED <<listing, grow, events>>

---------------------------------------------------------------------------
(* grow_filesystem_create.                                                 *)

SleepRetry_forever(m) ==
  grow' = [grow EXCEPT ![m].pc = "checksum", ![m].sleep = 2 * @, ![m].checksum = Absent]

SleepRetry_steady(m) ==
  grow' = [grow EXCEPT ![m].pc = "checksum", ![m].checksum = Absent]

(* sleep_retry.                                                            *)
SleepRetry(m) ==
  IF grow[m].sleep < GrowTimeout
  THEN grow' = [grow EXCEPT ![m].pc = "checksum", ![m].sleep = 2 * @, ![m].checksum = Absent]
  ELSE grow' = [grow EXCEPT ![m] = [GrowIdle EXCEPT !.pc = "fatal"]]

(* A connection that cannot be made fails the open.                        *)
FetchChecksum(m) ==
  /\ On(m, "checksum")
  /\ \/ grow' = [grow EXCEPT ![m].checksum = site.sum, ![m].pc = "contains"]
     \/ "lost" \in events /\ SleepRetry(m)
     \/ "lost" \in events /\ grow' = [grow EXCEPT ![m] = GrowIdle]
  /\ UNCHANGED <<site, sums, listing, events>>

FindListing(m) ==
  /\ On(m, "contains")
  /\ To(m, IF listing = Absent THEN "fetch" ELSE "digest")
  /\ UNCHANGED <<site, sums, listing, events>>

(* A stream that ends too early is committed like any other; an error      *)
(* ends the transaction, and the listing is looked for once more.          *)
FetchListing(m) ==
  /\ On(m, "fetch")
  /\ \/ listing' = site.dir /\ To(m, "digest")
     \/ "lost" \in events /\ listing' = Torn /\ To(m, "digest")
     \/ "lost" \in events /\ UNCHANGED listing /\ To(m, "digest")
  /\ UNCHANGED <<site, sums, events>>

DigestListing_trusting(m) ==
  /\ On(m, "digest")
  /\ IF listing = Absent THEN SleepRetry(m) ELSE To(m, "load")
  /\ UNCHANGED <<site, sums, listing, events>>

(* file_cache_contains and sha1_file of the listing.                       *)
DigestListing(m) ==
  /\ On(m, "digest")
  /\ IF listing = Absent THEN SleepRetry(m)
     ELSE To(m, IF listing = grow[m].checksum THEN "load" ELSE "delete")
  /\ UNCHANGED <<site, sums, listing, events>>

DeleteListing_keeps(m) ==
  /\ On(m, "delete")
  /\ SleepRetry(m)
  /\ UNCHANGED <<site, sums, listing, events>>

(* file_cache_delete removes the listing that is there by now.             *)
DeleteListing(m) ==
  /\ On(m, "delete")
  /\ listing' = Absent
  /\ SleepRetry(m)
  /\ UNCHANGED <<site, sums, events>>

(* fopen and grow_dirent_create_from_file, of the listing that is there by *)
(* now; a torn one may be so short that it is found corrupted.             *)
LoadListing(m) ==
  /\ On(m, "load")
  /\ \/ /\ listing # Absent
        /\ grow' = [grow EXCEPT ![m].tree = listing, ![m].pc = "open", ![m].checksum = Absent,
                                ![m].sleep = 1]
     \/ listing = Absent /\ SleepRetry(m)
     \/ listing = Torn /\ To(m, "delete")
  /\ UNCHANGED <<site, sums, listing, events>>

---------------------------------------------------------------------------
(* pfs_service_grow::open, the file's read and close, within the loop of   *)
(* pfs_cache_open.  The connection stays open while the site changes.      *)

grow_open(m) ==
  /\ grow[m].pc \in {"idle", "done", "again"}
  /\ m = 1 \/ "two" \in events
  /\ grow' = [grow EXCEPT ![m].pc = IF grow[m].tree = Absent THEN "checksum" ELSE "open",
                          ![m].content = 0]
  /\ UNCHANGED <<site, sums, listing, events>>

(* grow_dirent_lookup: a tree that does not list the file gives ENOENT.    *)
(* Nor is there a file when no connection can be made.                     *)
LookupAndOpen(m) ==
  /\ On(m, "open")
  /\ \/ /\ grow[m].tree # Torn
        /\ grow' = [grow EXCEPT ![m].pc = "read", ![m].began = site.file]
     \/ /\ grow[m].tree = Torn \/ "lost" \in events
        /\ grow' = [grow EXCEPT ![m] = [GrowIdle EXCEPT !.tree = grow[m].tree]]
  /\ UNCHANGED <<site, sums, listing, events>>

(* The file that was there at the open, or one put together from that and  *)
(* a later one.  A connection that is lost looks like the end of the file, *)
(* or fails the read: then the open fails, after a close that flushes the  *)
(* trees if what was read is not what they list.                           *)
ReadFile(m) ==
  /\ On(m, "read")
  /\ \/ \E content \in {grow[m].began, Torn} :
          /\ content = Torn => site.file # grow[m].began \/ "lost" \in events
          /\ grow' = [grow EXCEPT ![m].pc = "close", ![m].content = content, ![m].began = 0]
     \/ /\ "lost" \in events
        /\ \E tree \in {grow[m].tree, Absent} : grow' = [grow EXCEPT ![m] = [GrowIdle EXCEPT !.tree = tree]]
  /\ UNCHANGED <<site, sums, listing, events>>

Accepts_any(m) == TRUE
Accepts(m) == "unchecked" \in events \/ grow[m].content = grow[m].tree

(* close: the checksum is the one in the tree, or is not looked at; if it  *)
(* is not, every tree is flushed, and pfs_cache_open tries again.          *)
CloseFile(m) ==
  /\ On(m, "close")
  /\ grow' = [grow EXCEPT ![m] =
       IF Accepts(m) THEN [GrowIdle EXCEPT !.pc = "done", !.tree = grow[m].tree, !.content = grow[m].content]
       ELSE IF grow[m].tries < GrowTimeout
       THEN [GrowIdle EXCEPT !.pc = "again", !.tries = 2 * grow[m].tries]
       ELSE [GrowIdle EXCEPT !.pc = "fatal"]]
  /\ UNCHANGED <<site, sums, listing, events>>

---------------------------------------------------------------------------
(* The cache may hold a listing from long ago.                             *)
GrowInit ==
  /\ events \in GrowSettings
  /\ site = [file |-> 1, dir |-> 1, sum |-> 1]
  /\ sums = {1}
  /\ listing \in {Absent, Torn, 1, GrowVersions}
  /\ grow = [m \in GrowMurphys |-> GrowIdle]

GrowWorks(m) ==
  \/ FetchChecksum(m) \/ FindListing(m) \/ FetchListing(m) \/ DigestListing(m)
  \/ DeleteListing(m) \/ LoadListing(m)
  \/ On(m, "again") /\ grow_open(m)
  \/ LookupAndOpen(m) \/ ReadFile(m) \/ CloseFile(m)

GrowNext ==
  \/ SiteChanges
  \/ \E m \in GrowMurphys : grow_open(m) \/ GrowWorks(m)

(* Each Murphy that has begun goes on.                                     *)
Rests(m) == grow[m].pc \in {"idle", "done", "fatal"}
GrowFairness ==
  \A m \in GrowMurphys : []<>Rests(m) \/ []<><<GrowWorks(m)>>_growVars

GrowSpec == GrowInit /\ [][GrowNext]_growVars

---------------------------------------------------------------------------
(* The types of the variables.                                             *)
GrowTypeOK ==
  /\ listing \in {Absent} \cup 0 .. GrowVersions
  /\ \A m \in GrowMurphys :
       /\ grow[m].tree \in {Absent} \cup 0 .. GrowVersions
       /\ grow[m].checksum \in {Absent} \cup 1 .. GrowVersions
       /\ grow[m].sleep = 1 \/ grow[m].sleep < 2 * GrowTimeout
       /\ grow[m].tries = 1 \/ grow[m].tries < 2 * GrowTimeout

(* A Murphy that is alone with its cache only works with a tree whose      *)
(* checksum was on the site, whatever the cache held, the connections lost *)
(* and the keeper did meanwhile.  (A second Murphy may replace the listing *)
(* between its being checked and its being read.)                          *)
TreeWasPublished ==
  "two" \notin events =>
    \A m \in GrowMurphys : grow[m].tree = Absent \/ grow[m].tree \in sums

(* A file whose close succeeds is one version of the file, never parts of  *)
(* two or of a lost connection, and the tree of the Murphy lists it; if    *)
(* the listing has its checksum and checksums are looked at.               *)
FileIsListed ==
  "unchecked" \notin events =>
    \A m \in GrowMurphys :
      On(m, "done") => grow[m].content # Torn /\ grow[m].content = grow[m].tree

(* What Murphy shows of a GROW tree was on the site, as one version.       *)
GrowTreeSound == GrowTypeOK /\ TreeWasPublished /\ FileIsListed

(* As long as the site does not change and no connection is lost, whatever *)
(* the cache held, Murphy does not give up: what is stale goes away.       *)
StaleListingHeals ==
  events \cap {"changes", "lost"} = {} => \A m \in GrowMurphys : ~On(m, "fatal")

(* Every open comes to an end: the file is there, or Murphy gives up.      *)
GrowOpenEnds ==
  \A m \in GrowMurphys : []<>Rests(m)
============================================================================
