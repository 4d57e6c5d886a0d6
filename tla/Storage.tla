------------------------------ MODULE Storage ------------------------------
(* What the program keeps in files and reads from them, part by part: one is *)
(* picked at the start and runs, the others stay as they begin.  They share  *)
(* no state, so that what one of them promises alone it promises among the   *)
(* others, too.                                                              *)
EXTENDS Integers, Sequences, FiniteSets

CONSTANTS
  Which,                       \* the parts that run
  None, NoOne, NoFile, NoGame, NoItem, Empty,
  \* what the parts take as they are; see there
  Callers, Jobs,
  Games,
  Images, Amounts, Toc,
  Entries, Absent,
  UserFiles, Zips, Emulators, Extracting, Extracted, MaxRecent,
  Sizes, Views, Looks, Texture, Aspect, MaxMoments,
  Streams, Values, MaxLength,
  BindingNames, PerPort, Ports, Pressed, Buttons, Axes, Keys, OldFiles, Ratios, Windows,
  MaxChanges, MaxSessions

(* A file to hash has a size, as have its siblings, and its algorithm reads  *)
(* pieces of them.                                                           *)
ASSUME HashAssumption ==
  /\ NoOne \notin Callers
  /\ \A j \in Jobs :
       /\ j.sizes \in Seq(Nat) \ {<<>>} /\ j.whole \in BOOLEAN
       /\ j.reads \in Seq([file: DOMAIN j.sizes, from: Nat, count: Nat])

(* A game's discs are a sequence, and there is no game that is none.         *)
ASSUME DriveAssumption ==
  /\ Games \subseteq [discs: Seq(STRING), named: BOOLEAN, playlist: BOOLEAN]
  /\ NoGame \notin Games

(* A core on the list serves some systems, one of several with its name a    *)
(* system of its own; numbers of menu items and systems are not none.        *)
ASSUME CoresAssumption ==
  /\ Len(Entries) \in Nat /\ DOMAIN Entries = 1..Len(Entries)
  /\ \A i \in DOMAIN Entries :
       /\ Entries[i].systems \subseteq Nat /\ IsFiniteSet(Entries[i].systems)
       /\ Entries[i].file # None
  /\ \A i, k \in DOMAIN Entries :
       Entries[i].name = Entries[k].name /\ Entries[i].file # Entries[k].file =>
         Entries[i].systems \cap Entries[k].systems = {}
  /\ None \notin Nat

(* The menu has room for an item.                                            *)
ASSUME MenuAssumption == MaxRecent \in Nat \ {0}

(* No file is none of the files there can be, and nothing is kept of a write *)
(* is none of the writes.                                                    *)
ASSUME FilesAssumption ==
  /\ None \notin Seq(Values \cup {0})
  /\ None \notin [place: Nat, value: Values]
  /\ None \notin [at: Nat, writes: BOOLEAN, reads: BOOLEAN,
                  kept: [place: Nat, value: Values] \cup {None}]

VARIABLES
  which,
  job, expected, written, at, lock, cdreader, ctx, before, result,
  game, drive, discs, names, saved, hardcore, told, vouched,
  disc, track, handle, answer,
  disk, filetime, servers, menu, dialog, chosen, loaded, system,
  recent, playing, history,
  moment, machine, progress, screen, file, restored,
  places, stream, owed, answered,
  session, bindings, inputDialog, settings, window, config, exported, ended, count

hashVars   == <<job, expected, written, at, lock, cdreader, ctx, before, result>>
driveVars  == <<game, drive, discs, names, saved, hardcore, told, vouched>>
imageVars  == <<disc, track, handle, answer>>
coreVars   == <<disk, filetime, servers, menu, dialog, chosen, loaded, system>>
recentVars == <<recent, playing, history>>
stateVars  == <<moment, machine, progress, screen, file, restored>>
fileVars   == <<places, stream, owed, answered>>
configVars == <<session, bindings, inputDialog, settings, window, config, exported, ended, count>>
vars == <<which, hashVars, driveVars, imageVars, coreVars, recentVars, stateVars, fileVars,
          configVars>>

-----------------------------------------------------------------------------
Hash     == INSTANCE HashFile
Drive    == INSTANCE Discs WITH menu <- discs
Image    == INSTANCE DiscImage WITH Discs <- Images, asked <- track
Cores    == INSTANCE CoreList
Recent   == INSTANCE RecentList WITH Files <- UserFiles
State    == INSTANCE StateFile WITH loaded <- restored
Files    == INSTANCE CoreFiles WITH disk <- places, promised <- owed, told <- answered
Settings == INSTANCE Configuration WITH Names <- BindingNames, dialog <- inputDialog,
                                        before <- ended

(* An image's hunks have frames, and its tracks numbers of their own; how the *)
(* sectors of a track are made can be told as the code tells it, and a frame *)
(* has room for one.  The sums an image has of itself say which file is its  *)
(* parent, that it is not the image, and whether it can be opened.           *)
ASSUME ImageAssumption ==
  /\ Amounts \subseteq Nat \ {0}
  /\ \A d \in Images :
       /\ d.perHunk \in Nat \ {0}
       /\ Len(d.tracks) \in Nat \ {0} /\ DOMAIN d.tracks = 1..Len(d.tracks)
       /\ \A i \in DOMAIN d.tracks :
            /\ {d.tracks[i].number, d.tracks[i].frames, d.tracks[i].pregap} \subseteq Nat
            /\ d.tracks[i].form.header \in Nat /\ d.tracks[i].form.size \in Nat \ {0}
            /\ d.tracks[i].form.header + d.tracks[i].form.size <= Image!Unit
            /\ Image!Recognize(d.tracks[i].type, d.tracks[i].form)
                 = <<d.tracks[i].form.header, d.tracks[i].form.size>>
       /\ \A i, k \in DOMAIN d.tracks : d.tracks[i].number = d.tracks[k].number => i = k
       /\ Len(d.files) \in Nat /\ DOMAIN d.files = 1..Len(d.files)
       /\ \A i \in DOMAIN d.files : d.files[i] # None
       /\ d.parent # None => \A i, k \in DOMAIN d.files :
            /\ d.files[i].readable /\ Image!SumsFit(d, d.files[i])
            /\ d.files[k].readable /\ Image!SumsFit(d, d.files[k])
            =>
              /\ d.files[i].md5 = d.parent.md5 /\ d.files[i].sha1 = d.parent.sha1
              /\ ~d.files[i].itself /\ d.files[i].opens = d.files[k].opens

(* A core's memory and frames have a size, and frames fit the texture; NoFile *)
(* is no picture.                                                            *)
ASSUME StateAssumption ==
  /\ Sizes # {} /\ Sizes \subseteq Nat \ {0}
  /\ Texture \in Nat \X Nat /\ Aspect \in (Nat \ {0}) \X (Nat \ {0})
  /\ Views # {} /\ Views \subseteq (1..Texture[1]) \X (1..Texture[2])
  /\ Looks # {}
  /\ Looks \subseteq [format: {"RGB565", "0RGB1555", "XRGB8888"}, bottom: BOOLEAN,
                      preserve: BOOLEAN]
  /\ \A v \in Views : NoFile \notin [1..v[2] -> [1..v[1] -> [1..3 -> 0..255]]]

(* Every controller has its bindings, no two of one name, and no name is one *)
(* of an old file; SDL's names are told apart, and there are those of the    *)
(* defaults; ratios are those offered; None is no file, and no size.         *)
ASSUME SettingsAssumption ==
  /\ PerPort \in Nat /\ Ports \in Nat
  /\ BindingNames \in Seq([port: Nat, what: STRING]) /\ Ports * PerPort <= Len(BindingNames)
  /\ \A i, j \in DOMAIN BindingNames : BindingNames[i] = BindingNames[j] => i = j
  /\ \A i \in DOMAIN BindingNames : BindingNames[i].what # "LSTICK_X"
  /\ Buttons \cap Axes = {} /\ (Buttons \cup Axes) \cap {"-", "+"} = {} /\ "none" \notin Keys
  /\ "a" \in Buttons /\ "leftx" \in Axes /\ {"P", "X"} \subseteq Keys
  /\ Pressed \subseteq Settings!Bindings
  /\ Ratios \subseteq 2..10 /\ Windows \subseteq Int \X Int
  /\ OldFiles \subseteq Settings!ConfigFiles /\ \A f \in OldFiles : Settings!Holds(f)
  /\ None \notin Settings!ConfigFiles /\ None \notin Int \X Int

-----------------------------------------------------------------------------
Init ==
  /\ which \in Which
  /\ Hash!Init /\ Drive!Init /\ Image!Init /\ Cores!Init
  /\ Recent!Init /\ State!Init /\ Files!Init /\ Settings!Init
  /\ which # "image" => disc = CHOOSE d \in Images : TRUE
  /\ which # "settings" => config = None

OthersStay ==
  /\ UNCHANGED which
  /\ IF which = "hash"     THEN TRUE ELSE UNCHANGED hashVars
  /\ IF which = "drive"    THEN TRUE ELSE UNCHANGED driveVars
  /\ IF which = "image"    THEN TRUE ELSE UNCHANGED imageVars
  /\ IF which = "cores"    THEN TRUE ELSE UNCHANGED coreVars
  /\ IF which = "recent"   THEN TRUE ELSE UNCHANGED recentVars
  /\ IF which = "state"    THEN TRUE ELSE UNCHANGED stateVars
  /\ IF which = "files"    THEN TRUE ELSE UNCHANGED fileVars
  /\ IF which = "settings" THEN TRUE ELSE UNCHANGED configVars
Next ==
  \/ which = "hash"     /\ OthersStay /\ Hash!Next
  \/ which = "drive"    /\ OthersStay /\ Drive!Next
  \/ which = "image"    /\ OthersStay /\ Image!Next
  \/ which = "cores"    /\ OthersStay /\ Cores!Next
  \/ which = "recent"   /\ OthersStay /\ Recent!Next
  \/ which = "state"    /\ OthersStay /\ State!Next
  \/ which = "files"    /\ OthersStay /\ Files!Next
  \/ which = "settings" /\ OthersStay /\ Settings!Next

Spec == Init /\ [][Next]_vars

-----------------------------------------------------------------------------
HashIsOfFinishedFile == which = "hash" => Hash!HashIsOfFinishedFile
NotDoneMeansMore     == which = "hash" => Hash!NotDoneMeansMore
DrivesAgree          == which = "drive" => Drive!DrivesAgree
ReadsAskedTrack      == which = "image" => Image!ReadsAskedTrack
MenuLoadsWhatItSays  == which = "cores" => Cores!MenuLoadsWhatItSays
MenuIsRight          == which = "recent" => Recent!MenuIsRight
LoadRestores         == which = "state" => State!LoadRestores
FilesHoldWrites      == which = "files" => Files!FilesHoldWrites
ConfigurationReturns == which = "settings" => Settings!ConfigurationReturns
=============================================================================
