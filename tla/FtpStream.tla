----------------------------- MODULE FtpStream -----------------------------
(***************************************************************************)
(* myFTP (Lab1): what its client and its server share, the messages and    *)
(* the TCP connections that carry them.                                    *)
(*                                                                         *)
(* A message is a header of HeaderLen cells, sometimes followed by one     *)
(* cell for its name or credentials, or ListLen cells of a listing; a byte *)
(* of a file is a cell.  TCP keeps the order of the cells and nothing      *)
(* else: recv returns any number of them up to the size asked for, except  *)
(* that a short message, sent by one send(), is not cut.  The LIST_REPLY   *)
(* is not short: its listing may have 2047 characters, more than the rest  *)
(* of a segment, and is cut like a file.                                   *)
(***************************************************************************)
EXTENDS Integers, Sequences

CONSTANTS
    Client,      \* the running ftp_client programs
    Name,        \* names of files
    Byte,        \* contents of a cell of a file
    NoFile,      \* what a directory holds under a name that does not exist
    HeaderLen,   \* sizeof(FTPpack): 12 bytes in the code
    ListLen,     \* the segments that a listing is sent in
    MAXFILELEN   \* the size of every buffer: 4080 bytes in the code

ASSUME SizeAssumption ==
    /\ HeaderLen \in Nat \ {0} /\ ListLen \in Nat \ {0}
    /\ MAXFILELEN \in Nat /\ MAXFILELEN >= HeaderLen

VARIABLE conns  \* the connections, in the order of connect()

Request == {"OPEN", "AUTH", "QUIT", "LIST", "GET", "PUT"}

\* The reply to each request; a file itself goes out as FILE_DATA.
ReplyTo == [OPEN |-> "OPEN_REPLY", AUTH |-> "AUTH_REPLY", QUIT |-> "QUIT_REPLY",
            LIST |-> "LIST_REPLY", GET |-> "GET_REPLY", PUT |-> "PUT_REPLY"]
MessageType == Request \cup {ReplyTo[r] : r \in Request} \cup {"FILE_DATA"}

HeaderCell == [type : MessageType, status : {0, 1}, len : Nat, pos : 1 .. HeaderLen]

Header(type, status, len) ==
    [i \in 1 .. HeaderLen |-> [type |-> type, status |-> status, len |-> len, pos |-> i]]

NameCell == [name : Name]
AuthCell == [right : BOOLEAN]
ListCell == [names : SUBSET Name, piece : 1 .. ListLen]
Cell == HeaderCell \cup NameCell \cup AuthCell \cup ListCell \cup Byte

Listing(names) == [i \in 1 .. ListLen |-> [names |-> names, piece |-> i]]

\* A cell tells what it belongs to.
ASSUME CellAssumption ==
    /\ Byte \cap (HeaderCell \cup ListCell) = {}
    /\ NoFile \notin Seq(Byte)

File == Seq(Cell) \cup {NoFile}

\* client closes its end (left), the server's process dies (dead); authed
\* remembers that the server has accepted credentials on the connection, torn
\* that ls has taken the beginning of a listing for the whole.
Connection == [client : Client, up : Seq(Cell), down : Seq(Cell), left : BOOLEAN,
               dead : BOOLEAN, authed : BOOLEAN, torn : BOOLEAN]

NewConnection(c) == [client |-> c, up |-> Header("OPEN", 0, 0), down |-> << >>,
                     left |-> FALSE, dead |-> FALSE, authed |-> FALSE, torn |-> FALSE]

Drop(s, k) == SubSeq(s, k + 1, Len(s))

\* What one fread takes from the rest of a file.
Piece(s) == IF Len(s) < MAXFILELEN THEN s ELSE SubSeq(s, 1, MAXFILELEN)

\* A header stands at the front of s: isMyFTP, and the test of m_type.
AnyHeader(s) == s # << >> /\ s[1] \in HeaderCell /\ s[1].pos = 1
IsHeader(s, type) == AnyHeader(s) /\ s[1].type = type

\* Where TCP may cut: before a message, and anywhere in a file or a listing.
CutBefore(cell) ==
    \/ cell \in Byte
    \/ cell \in HeaderCell /\ cell.pos = 1
    \/ cell \in ListCell /\ cell.piece > 1

\* recv(fd, buffer, n, 0) may return the first k cells of s.
Received(s, n, k) ==
    /\ k \in 1 .. Len(s) /\ k <= n
    /\ k < n /\ k < Len(s) => CutBefore(s[k + 1])
=============================================================================
