----------------------------- MODULE ByteStream -----------------------------
(***************************************************************************)
(* What a relay promises about one direction of a connection: the sink     *)
(* sees a growing prefix of what the source wrote.                         *)
(***************************************************************************)
EXTENDS Naturals, Sequences, SequencesExt

CONSTANT Byte
VARIABLES sent, received

streamVars == <<sent, received>>

StreamInit == sent = <<>> /\ received = <<>>

\* The source adds bytes, the sink gets bytes, or both.
StreamNext ==
    /\ IsPrefix(sent, sent') /\ \A i \in DOMAIN sent' : sent'[i] \in Byte
    /\ IsPrefix(received, received')
    /\ IsPrefix(received', sent')

StreamSpec == StreamInit /\ [][StreamNext]_streamVars
=============================================================================
