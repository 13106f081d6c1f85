------------------------------ MODULE Playlist ------------------------------
(***************************************************************************)
(* What a listener may expect of the player: a list is played from its     *)
(* first song to its last, one after the other. It begins again after its  *)
(* last song and after a stop, and at no other time.                       *)
(***************************************************************************)
EXTENDS Integers

CONSTANTS Singers, NoSinger, NumSongs

VARIABLES
  song,       \* the song published last: its singer and its number
  phase       \* "stopped", "begins", "plays", or "lost": nothing is promised

Init == song = <<NoSinger, 0>> /\ phase = "stopped"

(* A list is about to begin: from silence, or after its last song.         *)
Begin == /\ phase = "stopped" \/ (phase = "plays" /\ song[2] = NumSongs)
         /\ phase' = "begins"
         /\ UNCHANGED song

First == /\ phase = "begins"
         /\ \E s \in Singers : song' = <<s, 1>>
         /\ phase' = "plays"

Advance == /\ phase = "plays"
           /\ song[2] < NumSongs
           /\ song' = <<song[1], song[2] + 1>>
           /\ UNCHANGED phase

Stop == phase = "plays" /\ phase' = "stopped" /\ UNCHANGED song

GiveUp == phase' = "lost"

Next == Begin \/ First \/ Advance \/ Stop \/ GiveUp

Spec == Init /\ [][Next]_<<song, phase>>

=============================================================================
