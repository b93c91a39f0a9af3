------------------------------- MODULE Milter -------------------------------
(***************************************************************************)
(* process_article of the milter filter: commands sent to a milter one by  *)
(* one, each but the last answered before the next is sent.  Events is     *)
(* what the other side does: one response per command, a frame of length   *)
(* zero, or a connection that cannot be made, breaks or closes.  Only the  *)
(* TCP or Unix connection has to be made within a time: a sequence of      *)
(* events that is too short leaves the exchange waiting (and a TLS         *)
(* handshake that does not end never gets as far as connected).            *)
(***************************************************************************)
EXTENDS Integers, Sequences, FiniteSetsExt

CONSTANT Headers   \* number of headers of the article

ASSUME HeadersAssumption == Headers \in Nat

Responses == {"continue", "accept", "reject", "discard", "tempfail", "other"}
Faults    == {"empty", "broken"}

\* CONNECT, one command per header, END_HEADERS, BODY, END_MESSAGE; QUIT has
\* no response, but sending it may fail.
Commands == Headers + 4

\* Mutant: what the milter drops without a word to the sender passes.
HandleResponseDiscards(e) ==
    CASE e \in {"accept", "continue", "discard"} -> "ok"
      [] e = "reject"   -> "rejected"
      [] e = "tempfail" -> "tempfail"
      [] OTHER          -> "error"

HandleResponse(e) ==
    CASE e \in {"accept", "continue"} -> "ok"
      [] e \in {"reject", "discard"}  -> "rejected"
      [] e = "tempfail"               -> "tempfail"
      [] OTHER                        -> "error"

\* The command whose response decides: the first that is not answered with
\* continue, or the last.
Decisive(events) ==
    Min({n \in 1 .. Commands :
           n = Commands \/ n > Len(events) \/ events[n] # "continue"})

Verdict(events, n) ==
    LET verdict == HandleResponse(events[n])
    IN  IF n > Len(events) THEN "waiting"
        ELSE IF n = Commands /\ verdict = "ok" /\ n < Len(events) /\ events[n + 1] = "broken"
        THEN "error" ELSE verdict

\* connected: what connect returned, by whichever scheme.
ProcessArticle(connected, events) ==
    IF connected THEN Verdict(events, Decisive(events)) ELSE "error"

=============================================================================
