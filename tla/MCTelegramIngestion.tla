------------------------ MODULE MCTelegramIngestion ------------------------
(* Instances of TelegramIngestion for TLC. *)
EXTENDS TelegramIngestion, TLC

CONSTANT album

\* A media group, its second component maybe a message of its own.
AlbumThenText == [i \in Ids |-> CASE i = 1 -> {album} [] i = 2 -> {album, 2} [] OTHER -> {i}]

Plain == [caption |-> FALSE, kind |-> None]
Image == [caption |-> FALSE, kind |-> "image"]
Video == [caption |-> TRUE, kind |-> "video"]

\* An edit turns the image into a captioned video.
EditedAlbum == [i \in Ids |-> [c \in Contents |->
                    IF i = 3 THEN Plain ELSE IF c = 0 THEN Image ELSE Video]]

=============================================================================
