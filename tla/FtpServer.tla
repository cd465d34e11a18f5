----------------------------- MODULE FtpServer -----------------------------
(***************************************************************************)
(* ftp_server.cpp: one connection at a time, one request at a time.  Every *)
(* handler is one action, but for the two loops that move a file.          *)
(***************************************************************************)
EXTENDS FtpStream

CONSTANT MaxCrash   \* bound: how often the server's process dies

ASSUME CrashAssumption == MaxCrash \in Nat

VARIABLES
    spc,        \* where the server is
    conn,       \* the accepted connection, client in the code; 0 when none
    accepted,   \* connections accepted or lost with a dead process
    store,      \* the files of the server's working directory
    fileLen,    \* the length announced by the last FILE_DATA
    sname,      \* the file of the PUT in progress
    sleft,      \* what the GET in progress has still to send
    crashes     \* how often the process has died

serverVars == <<spc, conn, accepted, store, fileLen, sname, sleft, crashes>>

(***************************************************************************)
(* "accept" at the label Here, "cmd" before the recv of a header, "get" in *)
(* the loop that sends a file, "putfirst" and "putmore" in the loop that   *)
(* receives one before and after its first piece, "spin" in a loop that    *)
(* gets 0 from every recv, "down" when there is no process.                *)
(***************************************************************************)
ServerPlace == {"accept", "cmd", "get", "putfirst", "putmore", "spin", "down"}
Putting == {"putfirst", "putmore"}

ServerTypeOK ==
    /\ spc \in ServerPlace
    /\ accepted \in 0 .. Len(conns) /\ conn \in 0 .. accepted
    /\ store \in [Name -> File]
    /\ fileLen \in Nat
    /\ sname \in Name
    /\ sleft \in Seq(Cell)
    /\ crashes \in 0 .. MaxCrash

\* A new process, its directory as given.
ServerInit(files) ==
    /\ spc = "accept" /\ conn = 0 /\ accepted = 0
    /\ store = files
    /\ fileLen = 0 /\ sname \in Name /\ sleft = << >>
    /\ crashes = 0

Up == conns[conn].up

\* The first n cells are read, and cells sent; a peer that has closed gets nothing.
Answered(n, cells) ==
    [conns EXCEPT ![conn].up = Drop(@, n),
                  ![conn].down = IF conns[conn].left THEN @ ELSE @ \o cells]

\* Mutant: accept does not wait for a connection.
AcceptAny ==
    /\ spc = "accept"
    /\ accepted' = accepted + 1
    /\ conn' = accepted + 1
    /\ spc' = "cmd"
    /\ UNCHANGED <<conns, store, fileLen, sname, sleft, crashes>>

\* The kernel queues connections; accept takes the oldest.
Accept ==
    /\ spc = "accept"
    /\ accepted < Len(conns)
    /\ accepted' = accepted + 1
    /\ conn' = accepted + 1
    /\ spc' = "cmd"
    /\ UNCHANGED <<conns, store, fileLen, sname, sleft, crashes>>

Asked(request) == spc = "cmd" /\ IsHeader(Up, request)

ServeOpen ==
    /\ Asked("OPEN")
    /\ conns' = Answered(HeaderLen, Header(ReplyTo["OPEN"], 1, 0))
    /\ UNCHANGED serverVars

\* Back to accept, without a close.
Here == conn' = 0 /\ spc' = "accept"

\* Mutant: a rejected client stays connected.
ServeAuthKeepsConnection ==
    /\ Asked("AUTH")
    /\ \E right \in BOOLEAN :
        /\ Up[HeaderLen + 1] = [right |-> right]
        /\ conns' = [Answered(HeaderLen + 1,
                              Header(ReplyTo["AUTH"], IF right THEN 1 ELSE 0, 0))
                        EXCEPT ![conn].authed = right]
    /\ UNCHANGED serverVars

\* The only credentials are compared with strcmp; others lose the connection.
ServeAuth ==
    /\ Asked("AUTH")
    /\ \E right \in BOOLEAN :
        /\ Up[HeaderLen + 1] = [right |-> right]
        /\ conns' = [Answered(HeaderLen + 1,
                              Header(ReplyTo["AUTH"], IF right THEN 1 ELSE 0, 0))
                        EXCEPT ![conn].authed = right]
        /\ IF right THEN UNCHANGED <<conn, spc>> ELSE Here
    /\ UNCHANGED <<accepted, store, fileLen, sname, sleft, crashes>>

ServeQuit ==
    /\ Asked("QUIT")
    /\ conns' = Answered(HeaderLen, Header(ReplyTo["QUIT"], 0, 0))
    /\ Here
    /\ UNCHANGED <<accepted, store, fileLen, sname, sleft, crashes>>

\* Header and listing go out in one send().
ServeList ==
    /\ Asked("LIST")
    /\ conns' = Answered(HeaderLen,
            Header(ReplyTo["LIST"], 0, 0) \o Listing({n \in Name : store[n] # NoFile}))
    /\ UNCHANGED serverVars

-----------------------------------------------------------------------------
(* GET: the reply, the header of FILE_DATA, and the file in pieces.        *)

ServeGet ==
    /\ Asked("GET")
    /\ \E n \in Name :
        /\ Up[HeaderLen + 1] = [name |-> n]
        /\ IF store[n] = NoFile
           THEN /\ conns' = Answered(HeaderLen + 1, Header(ReplyTo["GET"], 0, 0))
                /\ UNCHANGED <<spc, sleft>>
           ELSE /\ conns' = Answered(HeaderLen + 1,
                        Header(ReplyTo["GET"], 1, 0)
                        \o Header("FILE_DATA", 0, Len(store[n])))
                /\ sleft' = store[n]
                /\ spc' = IF store[n] = << >> THEN "cmd" ELSE "get"
    /\ UNCHANGED <<conn, accepted, store, fileLen, sname, crashes>>

\* Mutant: the last piece is left out when it does not fill the buffer.
SendPieceFull ==
    /\ spc = "get"
    /\ conns' = Answered(0, IF Len(sleft) < MAXFILELEN THEN << >> ELSE Piece(sleft))
    /\ sleft' = Drop(sleft, Len(Piece(sleft)))
    /\ spc' = IF sleft' = << >> THEN "cmd" ELSE "get"
    /\ UNCHANGED <<conn, accepted, store, fileLen, sname, crashes>>

\* One fread of at most MAXFILELEN, and its send.
SendPiece ==
    /\ spc = "get"
    /\ conns' = Answered(0, Piece(sleft))
    /\ sleft' = Drop(sleft, Len(Piece(sleft)))
    /\ spc' = IF sleft' = << >> THEN "cmd" ELSE "get"
    /\ UNCHANGED <<conn, accepted, store, fileLen, sname, crashes>>

-----------------------------------------------------------------------------
(* PUT: the file is emptied before the reply, and then grows by whatever   *)
(* recv returns until it has the length that FILE_DATA has announced.  The *)
(* code's cnt is that length and HeaderLen.                                *)

ServePut ==
    /\ Asked("PUT")
    /\ \E n \in Name :
        /\ Up[HeaderLen + 1] = [name |-> n]
        /\ store' = [store EXCEPT ![n] = << >>]
        /\ sname' = n
    /\ conns' = Answered(HeaderLen + 1, Header(ReplyTo["PUT"], 0, 0))
    /\ spc' = "putfirst"
    /\ UNCHANGED <<conn, accepted, fileLen, sleft, crashes>>

\* cnt == fileLen + sizeof(FTPpack)
UntilComplete == spc' = IF Len(store'[sname]) = fileLen' THEN "cmd" ELSE "putmore"

\* The first piece begins with FILE_DATA's header, which is not written.
PutFirst ==
    /\ spc = "putfirst"
    /\ IsHeader(Up, "FILE_DATA")
    /\ fileLen' = Up[1].len
    /\ \E k \in HeaderLen .. MAXFILELEN :
        /\ Received(Up, MAXFILELEN, k)
        /\ store' = [store EXCEPT ![sname] = @ \o SubSeq(Up, HeaderLen + 1, k)]
        /\ conns' = Answered(k, << >>)
    /\ UntilComplete
    /\ UNCHANGED <<conn, accepted, sname, sleft, crashes>>

\* Mutant: the loop ends with its second piece.
PutMoreOnce ==
    /\ spc = "putmore"
    /\ \E k \in 1 .. MAXFILELEN :
        /\ Received(Up, MAXFILELEN, k)
        /\ store' = [store EXCEPT ![sname] = @ \o SubSeq(Up, 1, k)]
        /\ conns' = Answered(k, << >>)
    /\ spc' = "cmd"
    /\ UNCHANGED <<conn, accepted, fileLen, sname, sleft, crashes>>

PutMore ==
    /\ spc = "putmore"
    /\ \E k \in 1 .. MAXFILELEN :
        /\ Received(Up, MAXFILELEN, k)
        /\ store' = [store EXCEPT ![sname] = @ \o SubSeq(Up, 1, k)]
        /\ conns' = Answered(k, << >>)
    /\ fileLen' = fileLen
    /\ UntilComplete
    /\ UNCHANGED <<conn, accepted, sname, sleft, crashes>>

-----------------------------------------------------------------------------
\* The client has closed and everything is read: recv returns 0, now and for
\* ever, and no branch of either loop looks at that. As the first piece of a
\* file, 0 cells are less than a header: fwrite gets the length 0 - HeaderLen
\* as a size_t and writes whatever follows the buffer.
ReadEnd ==
    /\ spc \in {"cmd"} \cup Putting
    /\ Up = << >> /\ conns[conn].left
    /\ spc' = "spin"
    /\ IF spc = "putfirst"
       THEN \E junk \in Byte : store' = [store EXCEPT ![sname] = <<junk>>]
       ELSE store' = store
    /\ UNCHANGED <<conns, conn, accepted, fileLen, sname, sleft, crashes>>

\* The process is killed (SIGPIPE among others): the kernel closes every
\* connection, the queued ones too; what was sent still arrives.
ServerDies ==
    /\ spc # "down" /\ crashes < MaxCrash
    /\ crashes' = crashes + 1
    /\ spc' = "down" /\ conn' = 0 /\ sleft' = << >>
    /\ accepted' = Len(conns)
    /\ conns' = [k \in DOMAIN conns |-> [conns[k] EXCEPT !.dead = TRUE, !.up = << >>]]
    /\ UNCHANGED <<store, fileLen, sname>>

ServerStarts ==
    /\ spc = "down"
    /\ spc' = "accept" /\ fileLen' = 0
    /\ UNCHANGED <<conns, conn, accepted, store, sname, sleft, crashes>>

ServerRuns ==
    \/ Accept \/ ServeOpen \/ ServeAuth \/ ServeQuit \/ ServeList
    \/ ServeGet \/ SendPiece
    \/ ServePut \/ PutFirst \/ PutMore
    \/ ReadEnd

ServerNext == ServerRuns \/ ServerDies \/ ServerStarts
=============================================================================
