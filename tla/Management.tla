----------------------------- MODULE Management -----------------------------
(***************************************************************************)
(* The management socket: a thread that accepts one connection at a time,  *)
(* puts its bytes together to lines and carries out the line's command.    *)
(* Clients, and what poll and read tell of them, are external.  Statistics *)
(* and processor state only leave the program here, so of the commands     *)
(* SETLOG has an effect that is kept.                                      *)
(***************************************************************************)
EXTENDS Integers, SequencesExt

CONSTANTS
  BufSize,    \* BUF_SZ
  Byte,       \* what clients send
  Newline,
  SetLog,     \* lines that are SETLOG commands, with what they ask for
  MaxSent,    \* bound: bytes sent in one connection
  MaxConns    \* bound: connections made

ASSUME ManagementAssumption == BufSize \in Nat \ {0, 1} /\ Newline \in Byte

VARIABLES
  clients,    \* connections made so far, and whether the last one waits for accept
  skt_fd,     \* a connection, or -1
  peer,       \* what its other end has done: "open", "eof" or "reset"
  wire,       \* its bytes not yet read
  revents,    \* what the last poll answered, for the listener and for skt_fd
  mpc,        \* where mgmt_thread is
  input,      \* input_buffer up to current_input_pos
  log_enables_mask,
  heard,      \* the bytes read from this connection
  lines,      \* the lines processed for it
  whole       \* nothing of them has been dropped, nor taken from another's

mgmtVars == <<clients, skt_fd, peer, wire, revents, mpc, input, log_enables_mask, heard, lines, whole>>
mgmtClient == <<clients, skt_fd, peer, wire>>
mgmtState  == <<input, log_enables_mask, heard, lines, whole>>
-----------------------------------------------------------------------------
(* The clients. *)

Connect ==
  /\ clients.made < MaxConns /\ ~clients.waiting
  /\ clients' = [made |-> clients.made + 1, waiting |-> TRUE]
  /\ UNCHANGED <<skt_fd, peer, wire, revents, mpc, mgmtState>>

Send ==
  /\ skt_fd # -1 /\ peer = "open" /\ Len(heard) + Len(wire) < MaxSent
  /\ \E b \in Byte : wire' = Append(wire, b)
  /\ UNCHANGED <<clients, skt_fd, peer, revents, mpc, mgmtState>>

Leave ==
  /\ skt_fd # -1 /\ peer = "open"
  /\ peer' \in {"eof", "reset"}
  /\ UNCHANGED <<clients, skt_fd, wire, revents, mpc, mgmtState>>
-----------------------------------------------------------------------------
(* mgmt_thread *)

SktEvents ==
  (IF wire # <<>> \/ peer # "open" THEN {"IN"} ELSE {}) \cup (IF peer = "reset" THEN {"HUP"} ELSE {})

PollSockets ==
  /\ mpc = "poll"
  /\ revents' = [listen |-> clients.waiting, skt |-> IF skt_fd = -1 THEN {} ELSE SktEvents]
  /\ revents'.listen \/ revents'.skt # {}
  /\ mpc' = "listen"
  /\ UNCHANGED <<mgmtClient, mgmtState>>

\* accept replaces whatever skt_fd was, also when it fails.
Accept ==
  /\ mpc = "listen"
  /\ mpc' = "skt"
  /\ IF revents.listen
     THEN /\ skt_fd' \in {clients.made, -1}
          /\ clients' = [clients EXCEPT !.waiting = FALSE]
          /\ peer' = "open" /\ wire' = <<>>
          /\ heard' = <<>> /\ lines' = <<>> /\ whole' = (input = <<>>)
          /\ UNCHANGED <<input, log_enables_mask>>
     ELSE UNCHANGED <<mgmtClient, mgmtState>>
  /\ UNCHANGED revents

\* revents may be of the connection that Accept has replaced.
Serve ==
  /\ mpc = "skt"
  /\ skt_fd' = IF "HUP" \in revents.skt THEN -1 ELSE skt_fd
  /\ mpc' = IF revents.skt = {"IN"} THEN "read" ELSE "poll"
  /\ UNCHANGED <<clients, peer, wire, revents, mgmtState>>
-----------------------------------------------------------------------------
(* get_input *)

\* The loop that looks for newlines: the lines it finds, and where the rest begins.
Scan(buf) ==
  LET s[i \in 0 .. Len(buf)] ==
        IF i = 0 THEN [start_pt |-> 0, found |-> <<>>]
        ELSE IF buf[i] # Newline THEN s[i - 1]
        ELSE [start_pt |-> i, found |-> Append(s[i - 1].found, SubSeq(buf, s[i - 1].start_pt + 1, i - 1))]
  IN s[Len(buf)]

\* Mutant of Kept: the buffer is reset whenever a line was found.
KeptWithoutLine(buf, start_pt) == IF start_pt = 0 /\ Len(buf) > 1 THEN buf ELSE <<>>

\* What is copied down to the bottom of the buffer.
Kept(buf, start_pt) ==
  IF start_pt < Len(buf) - 1 THEN SubSeq(buf, start_pt + 1, Len(buf)) ELSE <<>>

\* process_line, as far as it changes anything: log_set
Processed(mask, line) ==
  IF line \notin DOMAIN SetLog THEN mask
  ELSE IF SetLog[line].on THEN mask \cup {SetLog[line].flag} ELSE mask \ {SetLog[line].flag}

ReadSome ==
  /\ mpc = "read" /\ skt_fd # -1
  /\ LET room == BufSize - Len(input) - 1
         n    == IF Len(wire) < room THEN Len(wire) ELSE room
         buf  == input \o SubSeq(wire, 1, n)
         scan == Scan(buf)
     IN /\ n > 0
        /\ input' = Kept(buf, scan.start_pt)
        /\ log_enables_mask' = FoldLeft(Processed, log_enables_mask, scan.found)
        /\ heard' = heard \o SubSeq(wire, 1, n)
        /\ lines' = lines \o scan.found
        /\ whole' = (whole /\ Len(buf) - scan.start_pt # 1)
        /\ wire' = SubSeq(wire, n + 1, Len(wire))
  /\ UNCHANGED <<clients, skt_fd, peer, revents, mpc>>

\* The buffer is full, there is nothing more, or read fails.
ReadNone ==
  /\ mpc = "read"
  /\ LET full == Len(input) >= BufSize - 1
     IN /\ full \/ wire = <<>> \/ skt_fd = -1
        /\ skt_fd' = IF ~full /\ peer = "reset" THEN -1 ELSE skt_fd
  /\ mpc' = "poll"
  /\ UNCHANGED <<clients, peer, wire, revents, mgmtState>>
-----------------------------------------------------------------------------
MgmtInit ==
  /\ clients = [made |-> 0, waiting |-> FALSE]
  /\ skt_fd = -1 /\ peer = "open" /\ wire = <<>>
  /\ revents = [listen |-> FALSE, skt |-> {}] /\ mpc = "poll"
  /\ input = <<>> /\ log_enables_mask = {}
  /\ heard = <<>> /\ lines = <<>> /\ whole = TRUE

MgmtNext ==
  \/ Connect \/ Send \/ Leave
  \/ PollSockets \/ Accept \/ Serve \/ ReadSome \/ ReadNone
-----------------------------------------------------------------------------
\* The reference: the stream cut at its newlines.
Ends(b, n) == {p \in 1 .. n : b[p] = Newline}

\* ls are the lines that end in the first n bytes of b, the last of them at st.
IsCut(b, n, ls, st) ==
  /\ st \in Ends(b, n) \cup {0}
  /\ \A p \in Ends(b, n) : p <= st
  /\ Len(ls) = Cardinality(Ends(b, n))
  /\ \A p \in Ends(b, n), q \in Ends(b, n) \cup {0} :
       q < p /\ (\A r \in Ends(b, n) : r <= q \/ p <= r) =>
         ls[Cardinality(Ends(b, p))] = SubSeq(b, q + 1, p - 1)

(* However a client's bytes arrive, in whatever pieces and with whatever   *)
(* hang-ups and new clients in between, the lines carried out are the      *)
(* lines it sent, and what is kept is the line it has begun: unless a      *)
(* piece ended one byte into a line, or the connection before ended inside *)
(* one (section 10 of the README).  About get_input.                       *)
LinesAsSent ==
  whole => LET begun == Len(heard) - Len(input)
           IN  /\ IsCut(heard, Len(heard), lines, begun)
               /\ input = SubSeq(heard, begun + 1, Len(heard))
=============================================================================
