--------------------------- MODULE PersistenceMC ---------------------------
(***************************************************************************)
(* The file and the calls: the two uses the program makes of its messages. *)
(* What is said of messages alone is evaluated before the first Dump.      *)
(***************************************************************************)
EXTENDS Persistence, Calls

BeforeDump == ~ exists /\ node = Fresh

\* Every message, of all thirteen types, is read as it was written.
MessagesRoundTrip == BeforeDump => CodecRoundTrip

\* No message object keeps anything of an earlier use or of a broken parse.
MessagesForget == BeforeDump => NothingSurvives

\* The other end understands what the call sites and the handlers build.
MessagesUnderstood == BeforeDump => CallsUnderstood
=============================================================================
