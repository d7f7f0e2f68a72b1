-------------------------------- MODULE Gallery --------------------------------
(***************************************************************************)
(* The gallery of extensions (browser/gallery): a catalog under a lock, a  *)
(* scanner, and an installer without one, which several goroutines may     *)
(* call: it takes a package that somebody has put into the download        *)
(* directory, checks its sum, unpacks it for the scanner and hands it to   *)
(* the installer of the browser.                                           *)
(*                                                                         *)
(* A package is a sequence of entries, the sum of a package is the package.*)
(* An entry has a name, the directory it is under (PackageRoot for none)   *)
(* and what the rules of the scanner find in it.  Its path is joined to the *)
(* directory it is unpacked into as it is, and leads "in"to it, to a file  *)
(* "beside" it, in the download directory, where what the entry holds is a *)
(* package to whoever reads it, into the directory of some listing, or     *)
(* "away".                                                                 *)
(***************************************************************************)
EXTENDS Naturals, Sequences, SequencesExt, FiniteSets

CONSTANTS ListingIDs, Offers,  \* the listings of the catalog, and what each may say
          PackageFiles, Archives,  \* names in the download directory, packages
          Deliveries,          \* the packages that somebody may put there, each under its name
          Installers,          \* goroutines in InstallFromGallery
          PackageRoot, NoArchive

ASSUME GalleryAssumption ==
    /\ NoArchive \notin Archives
    /\ \A id \in ListingIDs : \A o \in Offers[id] : o.file \in PackageFiles /\ o.sum \in Archives \cup {NoArchive}
    /\ \A d \in Deliveries : d.file \in PackageFiles /\ d.package \in Archives
    /\ \A a \in Archives : a \in Seq(ToSet(a))
    /\ {"in", "beside", "away"} \cap ListingIDs = {}
    /\ \A a \in Archives : \A e \in ToSet(a) :
           /\ e.leads \in {"in", "beside", "away"} \cup ListingIDs
           /\ e.leads = "beside" => e.name \in PackageFiles /\ e.holds \in Archives \cup {NoArchive}

VARIABLES listings,    \* Catalog.listings, a part of ListingIDs
          categories,  \* Catalog.categories, the lists in their order
          strictRules, \* whether AddRule has added a rule to the default ones
          downloadDir, \* the package under each name, NoArchive when there is none
          scanDirs,    \* the entries of each scan directory, which nothing empties
          job          \* what each goroutine does

galleryVars == <<listings, categories, strictRules, downloadDir, scanDirs, job>>

Categories == {o.category : o \in UNION {Offers[id] : id \in ListingIDs}}

\* sort.Slice by downloads; the order of equals is that of a Go map.
Popular(table, ids) ==
    {list \in Bijection(1..Cardinality(ids), ids) :
        \A i, j \in DOMAIN list : i < j => table[list[i]].downloads >= table[list[j]].downloads}

ListAll == Popular(listings, DOMAIN listings)
ListByCategory(c) == categories[c]

NoJob == [at |-> "idle", id |-> PackageRoot, offer |-> PackageRoot, strict |-> FALSE, alone |-> TRUE, took |-> NoArchive]

\* The default catalog is one such set of listings.
GalleryInit ==
    /\ listings = [id \in {} |-> PackageRoot] /\ categories = [c \in Categories |-> <<>>]
    /\ strictRules = FALSE
    /\ downloadDir = [f \in PackageFiles |-> NoArchive]
    /\ scanDirs = [id \in ListingIDs |-> {}]
    /\ job = [i \in Installers |-> NoJob]

-----------------------------------------------------------------------------
\* Faulty form of the next definition: the old place in the index is kept.
IndexAppended(table) ==
    {[c \in Categories |-> categories[c] \o
        SetToSeq({id \in DOMAIN table : table[id].category = c} \ {categories[c][i] : i \in DOMAIN categories[c]})]}

rebuildCategories(table) ==
    LET Of(c) == Popular(table, {id \in DOMAIN table : table[id].category = c}) IN
    {index \in [Categories -> UNION {Of(c) : c \in Categories}] : \A c \in Categories : index[c] \in Of(c)}

AddListing == \E id \in ListingIDs : \E o \in Offers[id] :
    /\ listings' = [x \in DOMAIN listings \cup {id} |-> IF x = id THEN o ELSE listings[x]]
    /\ categories' \in rebuildCategories(listings')
    /\ UNCHANGED <<strictRules, downloadDir, scanDirs, job>>

AddRule ==
    /\ strictRules' = TRUE
    /\ UNCHANGED <<listings, categories, downloadDir, scanDirs, job>>

(* Somebody puts a package into the download directory; an installation    *)
(* that is under way is disturbed by it.                                   *)
StagePackage == \E d \in Deliveries :
    /\ downloadDir' = [downloadDir EXCEPT ![d.file] = d.package]
    /\ job' = [i \in Installers |->
                 IF job[i].at # "idle" /\ job[i].offer.file = d.file THEN [job[i] EXCEPT !.alone = FALSE] ELSE job[i]]
    /\ UNCHANGED <<listings, categories, strictRules, scanDirs>>

-----------------------------------------------------------------------------
JobAt(i, where) == job[i].at = where
Goes(i, where) == job' = [job EXCEPT ![i].at = where]
Stops(i) == job' = [job EXCEPT ![i] = NoJob]
PackageOf(i) == downloadDir[job[i].offer.file]

(* The listing is read once; of two installations of a listing neither is  *)
(* alone.                                                                  *)
GetListing == \E i \in Installers, id \in DOMAIN listings :
    /\ JobAt(i, "idle")
    /\ LET others == {j \in Installers : job[j].at # "idle" /\ job[j].id = id} IN
       job' = [j \in Installers |->
                 IF j = i THEN [NoJob EXCEPT !.at = "verify", !.id = id, !.offer = listings[id], !.alone = others = {}]
                 ELSE IF j \in others THEN [job[j] EXCEPT !.alone = FALSE] ELSE job[j]]
    /\ UNCHANGED <<listings, categories, strictRules, downloadDir, scanDirs>>

\* Without a sum in the listing the package is not looked at.
VerifyChecksum == \E i \in Installers :
    /\ JobAt(i, "verify")
    /\ IF job[i].offer.sum \in {NoArchive, PackageOf(i)} THEN Goes(i, "extract") ELSE Stops(i)
    /\ UNCHANGED <<listings, categories, strictRules, downloadDir, scanDirs>>

(* An entry replaces the file of its name.  The entry of a directory       *)
(* becomes a file, so that it cannot be where entries under it are.        *)
Fits(dir, entry) == \A e \in dir : e.name # entry.under /\ e.under # entry.name
Placed(dir, entry) == {e \in dir : e.name # entry.name \/ e.under # entry.under} \cup {entry}

(* An entry that leads onto the package that is being unpacked empties it, *)
(* so that nothing more can be read from it.                               *)
Laid(at, id, file, entry) ==
    LET dir == IF entry.leads = "in" THEN id ELSE entry.leads IN
    CASE entry.leads = "away" -> at
      [] entry.leads = "beside" /\ entry.name = file -> [at EXCEPT !.files[file] = NoArchive, !.ok = FALSE]
      [] entry.leads = "beside" /\ entry.name # file -> [at EXCEPT !.files[entry.name] = entry.holds]
      [] entry.leads \notin {"away", "beside"} /\ Fits(at.dirs[dir], entry) ->
             [at EXCEPT !.dirs[dir] = Placed(@, entry)]
      [] entry.leads \notin {"away", "beside"} /\ ~Fits(at.dirs[dir], entry) -> [at EXCEPT !.ok = FALSE]

\* The directories after the entries up to the first that cannot be laid.
Extracted(id, file, archive) ==
    LET upTo[n \in 0..Len(archive)] ==
            IF n = 0 THEN [dirs |-> scanDirs, files |-> downloadDir, ok |-> TRUE]
            ELSE IF upTo[n - 1].ok THEN Laid(upTo[n - 1], id, file, archive[n])
                 ELSE upTo[n - 1]
    IN upTo[Len(archive)]

(* The installation of i goes on as x.  Another one is disturbed when its  *)
(* package or its directory was written to.                                *)
Beside(i, x, done) ==
    [j \in Installers |->
        IF j = i THEN x
        ELSE IF job[j].at # "idle" /\ (\/ done.files[job[j].offer.file] # PackageOf(j)
                                       \/ done.dirs[job[j].id] # scanDirs[job[j].id])
             THEN [job[j] EXCEPT !.alone = FALSE] ELSE job[j]]

\* Faulty form of the next definition: an entry that cannot be unpacked is skipped.
ExtractSkipping == \E i \in Installers :
    /\ JobAt(i, "extract") /\ PackageOf(i) # NoArchive
    /\ LET done == Extracted(job[i].id, job[i].offer.file, PackageOf(i)) IN
       /\ scanDirs' = done.dirs /\ downloadDir' = done.files
       /\ job' = Beside(i, [job[i] EXCEPT !.at = "scan"], done)
    /\ UNCHANGED <<listings, categories, strictRules>>

(* extractXPI into a directory that keeps what earlier packages of the     *)
(* listing had.                                                            *)
ExtractXPI == \E i \in Installers :
    /\ JobAt(i, "extract")
    /\ IF PackageOf(i) = NoArchive THEN Stops(i) /\ UNCHANGED <<scanDirs, downloadDir>>
       ELSE LET done == Extracted(job[i].id, job[i].offer.file, PackageOf(i)) IN
            /\ scanDirs' = done.dirs /\ downloadDir' = done.files
            /\ job' = Beside(i, IF done.ok THEN [job[i] EXCEPT !.at = "scan"] ELSE NoJob, done)
    /\ UNCHANGED <<listings, categories, strictRules>>

(* The findings of high severity: code that is evaluated, and what rules   *)
(* of the program's own find.  A manifest that cannot be read is an error. *)
Refused(entry, strict) == entry.finds \in {"eval", "broken"} \/ (strict /\ entry.finds = "remote")

ScanListing == \E i \in Installers :
    /\ JobAt(i, "scan")
    /\ IF \E e \in scanDirs[job[i].id] : Refused(e, strictRules) THEN Stops(i)
       ELSE job' = [job EXCEPT ![i].at = "install", ![i].strict = strictRules]
    /\ UNCHANGED <<listings, categories, strictRules, downloadDir, scanDirs>>

(* The installer of the browser reads the package once more, and takes     *)
(* none with an entry that leads out of the directory.                     *)
InstallPackage == \E i \in Installers :
    /\ JobAt(i, "install")
    /\ IF PackageOf(i) = NoArchive \/ \E e \in ToSet(PackageOf(i)) : e.leads # "in" THEN Stops(i)
       ELSE job' = [job EXCEPT ![i].at = "installed", ![i].took = PackageOf(i)]
    /\ UNCHANGED <<listings, categories, strictRules, downloadDir, scanDirs>>

JobEnds == \E i \in Installers :
    /\ JobAt(i, "installed") /\ Stops(i)
    /\ UNCHANGED <<listings, categories, strictRules, downloadDir, scanDirs>>

GalleryNext ==
    \/ AddListing \/ AddRule \/ StagePackage
    \/ GetListing \/ VerifyChecksum \/ ExtractXPI \/ ScanListing \/ InstallPackage \/ JobEnds

-----------------------------------------------------------------------------
GalleryTypeOK ==
    /\ DOMAIN listings \subseteq ListingIDs
    /\ downloadDir \in [PackageFiles -> Archives \cup {NoArchive}]
    /\ \A i \in Installers : job[i].at \in {"idle", "verify", "extract", "scan", "install", "installed"}

\* An entry gives way to a later one of its name.
Lasting(archive) ==
    {archive[k] : k \in {k \in DOMAIN archive : \A m \in DOMAIN archive :
        archive[m].name = archive[k].name /\ archive[m].under = archive[k].under => m <= k}}

(* What an installation that was alone installs is the package whose sum   *)
(* the listing gives, and every file of it was unpacked and passed the     *)
(* rules that held.  One is not alone when another of its listing was      *)
(* under way, when its package was replaced meanwhile, or when another     *)
(* installation unpacked an entry onto its package or into its directory:  *)
(* the code does nothing against these.  Every listing is once in the list *)
(* of its category and in no other, also after an update moved it, and the *)
(* list of all has them by their downloads.                                *)
InstalledWasScanned ==
    /\ \A i \in Installers : JobAt(i, "installed") /\ job[i].alone =>
           /\ job[i].offer.sum \in {NoArchive, job[i].took}
           /\ job[i].took # NoArchive
           /\ \A entry \in Lasting(job[i].took) : ~Refused(entry, job[i].strict)
    /\ \A c \in Categories : LET list == ListByCategory(c) IN
           /\ \A id \in DOMAIN listings : Contains(list, id) <=> listings[id].category = c
           /\ IsInjective(list)
    /\ \A list \in ListAll : \A i \in DOMAIN list : Contains(ListByCategory(listings[list[i]].category), list[i])
=============================================================================
