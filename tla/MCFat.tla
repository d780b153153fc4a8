-------------------------------- MODULE MCFat ------------------------------
(***************************************************************************)
(* The FAT file system for TLC: the contents of files, the entries of      *)
(* directories with their long names, the tree of directories with the     *)
(* paths through it, and the conversions of names.  The four models share  *)
(* no state, so one of them runs in a behaviour and the others stay as     *)
(* they began.                                                             *)
(***************************************************************************)
EXTENDS WorkingDirectory, TLC

CONSTANTS FileClusters, ClusterSize, MaxSize, Slots, WriteFrom, WriteTo,
          MaxFiles,
          LongNames, ListingSlots, MaxClusters, MaxCreated,
          AskedNames, BaseLength, ExtLength, UnitsPerEntry, MaxUnits,
          Radix, MaxTail, MaxListed

VARIABLES active,
          file_fat, file_disk_fat, entries, contents, files, faults, hurt,
          dirs, created, dir_faults,
          listed

Contents == INSTANCE FatFiles
              WITH LastCluster <- FileClusters, fat <- file_fat,
                   disk_fat <- file_disk_fat, data <- contents
Listing  == INSTANCE FatDirectory
              WITH Names <- LongNames, PerCluster <- ListingSlots,
                   faults <- dir_faults
Naming   == INSTANCE FatNames WITH Names <- AskedNames

ASSUME FatAssumption ==
    /\ Contents!FatFilesAssumption
    /\ Listing!FatDirectoryAssumption
    /\ WorkingDirectoryAssumption
    /\ Naming!FatNamesAssumption

contents_vars == <<file_fat, file_disk_fat, entries, contents, files, faults, hurt>>
listing_vars  == <<dirs, created, dir_faults>>
suite_vars    == <<active, contents_vars, listing_vars, vars, listed>>

Symmetry == Permutations(Slots)

Fits(base, tail) ==
    [text |-> <<base, tail>>, short |-> <<base, tail>>, base |-> base,
     chunks |-> 0]
TooLong(text, base, chunks) ==
    [text |-> <<text, 0>>, short |-> <<"", 0>>, base |-> base,
     chunks |-> chunks]

(* A name that fits 8.3, and two long ones with the same alias base *)
SomeNames == {Fits("A", 0), TooLong("along", "B", 1), TooLong("longer", "B", 2)}

(* With the name B~1, which is also what an alias looks like *)
AliasNames == {Fits("B", 1), TooLong("along", "B", 1)}

(* Names that fit and names that do not, some of them what the alias of    *)
(* another looks like: with a base of 3 and an extension of 1, a+, .a and  *)
(* aa.aa begin with the aliases A~1, A~1 and A~1.A.                        *)
ManyNames ==
    {<<"a">>, <<"A">>, <<"a", ".">>, <<"a", ".", "a">>, <<".", "a">>,
     <<"+">>, <<"a", "+">>, <<"A", "+">>, <<"a", " ", "a">>, <<"a", "+", ".">>,
     <<"a", "~", "1">>, <<"~", "1">>, <<"a", "~", "1", ".", "a">>,
     <<"a", "a", "a", "a">>, <<"a", "a", ".", "a", "a">>,
     <<"a", ".", "a", ".", "a">>, <<"a", "a", "+", "a", "a", "a">>,
     <<"a", "?">>, <<"1", "0", "+">>}

From(start, components) == [from |-> start, components |-> components]

SomePaths == {From("", <<"a">>), From("", <<"b">>), From("", <<"..", "b">>),
              From("/", <<"a">>)}
SomeCdPaths == {From("", <<"b">>), From("", <<"..">>), From("/", <<"">>),
                From("~/", <<"a">>), From("", <<"a", "b", "">>)}

ManyPaths ==
    {From(start, <<c, d>>) : start \in {"", "/"}, c \in {"a", "b", ".."}, d \in {"a", ".."}}
      \union {From("", <<c, d, "..", "a">>) : c \in {"a", ".."}, d \in {"a", ".."}}
      \union {From("", <<".", "a">>), From("", <<"b", "">>), From("/", <<"">>)}

SuiteInit ==
    /\ active \in {"contents", "listing", "tree", "names"}
    /\ Contents!Init
    /\ Listing!Init
    /\ Init
    /\ Naming!Init

SuiteNext ==
    /\ UNCHANGED active
    /\ \/ /\ active = "contents"
          /\ Contents!Next
          /\ UNCHANGED <<listing_vars, vars, listed>>
       \/ /\ active = "listing"
          /\ Listing!Next
          /\ UNCHANGED <<contents_vars, vars, listed>>
       \/ /\ active = "tree"
          /\ Next
          /\ UNCHANGED <<contents_vars, listing_vars, listed>>
       \/ /\ active = "names"
          /\ Naming!Next
          /\ UNCHANGED <<contents_vars, listing_vars, vars>>

SuiteSpec == SuiteInit /\ [][SuiteNext]_suite_vars
----------------------------------------------------------------------------


(* A file shows nothing that another file left in a cluster.               *)
ShowsOwnData == active = "contents" => Contents!ShowsOwnData

(* parse_directory_entries shows the long name an entry was created with.  *)
LongNameIsOwn == active = "listing" => Listing!LongNameIsOwn

(* Entries: types; nothing stands behind the end marker; a directory that  *)
(* is removed was empty; two entries of a directory never answer to one    *)
(* name, and a long name shown is the entry's own.  Names: a file is       *)
(* listed under the name it was created with, aliases are names that fit,  *)
(* and no two files answer to one name, but for short names given with a   *)
(* dot at the end, which get_fat_filename drops.                           *)
EntriesSound ==
    /\ active = "listing" =>
         /\ Listing!TypeOK /\ Listing!EndIsTheEnd /\ Listing!TreeSound
         /\ Listing!NamesUnique /\ Listing!LongNameIsOwn
    /\ active = "names" =>
         Naming!NamesComeBack /\ Naming!OneAnswers /\ Naming!AliasesFit

(* An operation touches one entry, also when it is cut short.              *)
OthersStay == Listing!OthersStay

(* What create_file or create_directory has made is found by its name.     *)
CreatedIsFound == Listing!CreatedIsFound

(* Directories stay a tree in memory and on disk, and working directories  *)
(* stay in it, through failed writes and stops, but for a cluster that is  *)
(* linked and not yet cleared, and for a directory that is removed while a *)
(* process works in it.                                                    *)
TreeKept == active = "tree" => TypeOK /\ TreeSound /\ CwdLostOnlyByRmdir

(* A path that find_directory_from_path shortens leads where its           *)
(* components lead one by one, and a path means one file to open and to    *)
(* unlink.                                                                 *)
ShortPathsLead == active = "tree" => LookupIsWalk /\ OneFileOfPath

(* The shell's prompt leads to its working directory, but for "~/" paths,  *)
(* a full buffer and a removed directory.                                  *)
PromptLeads == active = "tree" => PromptFollows
=============================================================================
