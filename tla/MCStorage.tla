----------------------------- MODULE MCStorage -----------------------------
(* Storage with few and small files, games, images, cores, streams and       *)
(* settings.                                                                 *)
EXTENDS Storage

Piece(f, from, n) == [file |-> f, from |-> from, count |-> n]
MCJobs ==
  {[sizes |-> <<2>>, whole |-> TRUE, chd |-> FALSE, intact |-> TRUE, reads |-> <<>>],
   [sizes |-> <<2>>, whole |-> FALSE, chd |-> FALSE, intact |-> FALSE,
    reads |-> <<Piece(1, 0, 1), Piece(1, 2, 1)>>],
   [sizes |-> <<2>>, whole |-> FALSE, chd |-> TRUE, intact |-> FALSE,
    reads |-> <<Piece(1, 0, 1), Piece(1, 2, 1)>>],
   [sizes |-> <<1, 1>>, whole |-> FALSE, chd |-> FALSE, intact |-> TRUE,
    reads |-> <<Piece(1, 0, 1), Piece(2, 0, 1)>>]}

Game(kinds, named, playlist) == [discs |-> kinds, named |-> named, playlist |-> playlist]
MCGames ==
  {Game(<<>>, FALSE, FALSE), Game(<<"known", "unknown", "unsupported">>, FALSE, TRUE),
   Game(<<"known", "unknown">>, TRUE, FALSE), Game(<<"known", "unknown">>, FALSE, FALSE)}

Entry(f, name, systems, deprecated) ==
  [file |-> f, name |-> name, systems |-> systems, deprecated |-> deprecated]
MCEntries ==
  <<Entry("a", "A", {1, 3}, FALSE), Entry("b", "B", {1}, FALSE),
    Entry("b", "B", {2, 3}, FALSE), Entry("c", "C", {2}, TRUE)>>

(* The sectors of tracks: where the user data begins, how much there is, and *)
(* what tells the format.  (An instance of its own, with no images, since    *)
(* the images are made from it.)                                             *)
Made  == INSTANCE DiscImage WITH Discs <- {}, asked <- track
Raw1  == Made!Form(16, 2048, 17, TRUE, 1, FALSE)
Raw2  == Made!Form(16, 2336, 0, TRUE, 2, FALSE)
XA1   == Made!Form(24, 2048, 25, TRUE, 2, FALSE)
XA2   == Made!Form(24, 2324, 25, TRUE, 2, TRUE)
Bare  == Made!Form(0, 2048, 1, FALSE, 0, FALSE)
Sound == Made!Form(0, 2352, 0, FALSE, 0, FALSE)
Whole(tracks, perHunk) ==
  [tracks |-> tracks, perHunk |-> perHunk, parent |-> None, hasMD5 |-> FALSE, hasSHA1 |-> TRUE,
   files |-> <<>>]
Beside(md5, sha1, itself, alike, opens) ==
  [md5 |-> md5, sha1 |-> sha1, itself |-> itself, alike |-> alike, readable |-> TRUE,
   opens |-> opens]
MCDiscs ==
  {Whole(<<Made!Track(1, "MODE2_RAW", 3, 0, XA1), Made!Track(2, "AUDIO", 2, 1, Sound),
           Made!Track(3, "MODE2_RAW", 2, 0, XA2)>>, 4),
   Whole(<<Made!Track(1, "AUDIO", 2, 0, Sound), Made!Track(2, "MODE1_RAW", 5, 1, Raw1),
           Made!Track(3, "MODE2_RAW", 2, 0, Raw2)>>, 2),
   Whole(<<Made!Track(1, "MODE1", 5, 0, Bare)>>, 3),
   [tracks |-> <<Made!Track(1, "MODE1_RAW", 3, 0, Raw1)>>, perHunk |-> 2,
    parent |-> [md5 |-> "p", sha1 |-> "q"], hasMD5 |-> TRUE, hasSHA1 |-> TRUE,
    files |-> <<Beside("x", "q", FALSE, FALSE, TRUE), Beside("c", "c", TRUE, TRUE, TRUE),
                Beside("p", "q", FALSE, TRUE, TRUE)>>]}

MCExtracted ==
  [zip \in {"zip", "otherZip"} |-> IF zip = "zip" THEN "content" ELSE "otherContent"]

Look(format, bottom, preserve) == [format |-> format, bottom |-> bottom, preserve |-> preserve]
MCLooks   == {Look("RGB565", FALSE, FALSE), Look("XRGB8888", TRUE, FALSE),
              Look("0RGB1555", FALSE, TRUE)}
MCViews   == {<<3, 2>>, <<2, 3>>}
MCTexture == <<4, 3>>
MCAspect  == <<4, 3>>

Name(port, what) == [port |-> port, what |-> what]
MCNames == <<Name(0, "B"), Name(0, "LSTICK_LEFT"), Name(0, "LSTICK_RIGHT"),
             Name(1, "B"), Name(1, "LSTICK_LEFT"), Name(1, "LSTICK_RIGHT"), Name(2, "PAUSE")>>
Press(type, pad, code, mods) == [type |-> type, pad |-> pad, code |-> code, mods |-> mods]
MCPressed ==
  {Press("button", 12, "a", {}), Press("axis", 1, "lefty", {"-"}),
   Press("key", -1, "P", {"Alt+", "Ctrl+"}), Press("key", -1, "", {})}
MCWindows  == {<<3, 2>>}
MCOldFiles ==
  {[bindings |-> <<[name |-> Name(1, "LSTICK_X"), text |-> <<"J", "1", " ", "leftx">>]>>,
    emulator |-> [ratio |-> 12], saves |-> [interval |-> 45, path |-> <<"S">>],
    video |-> [filter |-> TRUE], window |-> None]}
=============================================================================
