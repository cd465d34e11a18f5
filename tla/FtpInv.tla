------------------------------- MODULE FtpInv -------------------------------
(***************************************************************************)
(* The inductive invariant behind the properties of Ftp: for every         *)
(* connection, how the place of its client, the place of the server and    *)
(* what is under way in both directions go together.                       *)
(***************************************************************************)
EXTENDS Ftp

\* s is that header, and more.
Begins(s, header) == s = header \o Drop(s, HeaderLen)

\* s is the header of FILE_DATA and no more of the file than it announces.
IsFileData(s) ==
    /\ s # << >> /\ s[1] \in HeaderCell
    /\ Begins(s, Header("FILE_DATA", 0, s[1].len))
    /\ Drop(s, HeaderLen) \in Seq(Byte)
    /\ Len(Drop(s, HeaderLen)) <= s[1].len

-----------------------------------------------------------------------------
(* Who is connected to whom.                                               *)

\* A connection that its client has not closed is the client's only one; a
\* program is ended, connected or at its prompt.
SockInv ==
    /\ \A c \in Client :
        /\ cpc[c] \notin {"prompt", "gone"} => sock[c] # 0
        /\ cpc[c] = "gone" => sock[c] = 0
        /\ sock[c] # 0 => conns[sock[c]].client = c /\ ~conns[sock[c]].left
    /\ \A k \in DOMAIN conns : ~conns[k].left => sock[conns[k].client] = k

\* The server's place says whether it has a connection, which is not a dead one.
ConnInv ==
    /\ spc \in {"accept", "down"} <=> conn = 0
    /\ spc = "get" <=> sleft # << >>
    /\ \A k \in DOMAIN conns : conns[k].dead =>
          crashes > 0 /\ k <= accepted /\ k # conn /\ conns[k].up = << >>

\* Both directories hold bytes of files only, never a header.
FileInv ==
    /\ store \in Directory /\ mine \in [Client -> Directory]
    /\ \A c \in Client :
          cpc[c] \in {"PUT", "putdata"} \cup Getting => mine[c][name[c]] # NoFile

-----------------------------------------------------------------------------
(* What is under way between client c and its end of connection sock[c].   *)

\* A request as client c sends it, n the file it is about.
IsRequest(s, type, n) ==
    \/ type \in {"OPEN", "LIST", "QUIT"} /\ s = Header(type, 0, 0)
    \/ type = "AUTH" /\ \E right \in BOOLEAN :
                            s = Append(Header("AUTH", 0, 0), [right |-> right])
    \/ type \in {"GET", "PUT"} /\ s = Append(Header(type, 0, 0), [name |-> n])

\* The replies that take the server back to its next request.
IsAnswer(s, type) ==
    \/ type = "prompt" /\ s = << >>
    \/ type \in {"OPEN", "AUTH"} /\ s = Header(ReplyTo[type], 1, 0)
    \/ type = "GET" /\ s = Header("GET_REPLY", 0, 0)
    \/ type = "LIST" /\ \E names \in SUBSET Name :
                            s = Header("LIST_REPLY", 0, 0) \o Listing(names)

\* The replies with which it drops a connection.
IsDismissal(s, type) ==
    \/ type = "AUTH" /\ s = Header("AUTH_REPLY", 0, 0)
    \/ type = "QUIT" /\ s = Header("QUIT_REPLY", 0, 0)

\* The reply of a GET that finds its file.
IsFileReply(s) ==
    /\ Begins(s, Header("GET_REPLY", 1, 0))
    /\ IsFileData(Drop(s, HeaderLen))

\* What comes before the data of a GET, and the file as far as it is there.
GetComes(c) ==
    \/ cpc[c] = "GET" /\ IsFileReply(Down(c))
    \/ cpc[c] = "getfirst" /\ IsFileData(Down(c)) /\ mine[c][name[c]] = << >>
    \/ /\ cpc[c] = "getmore" /\ Down(c) \in Seq(Byte)
       /\ Len(mine[c][name[c]]) < want[c]
       /\ Len(mine[c][name[c]]) + Len(Down(c)) <= want[c]

GetData(c) ==
    CASE cpc[c] = "GET" -> Drop(Drop(Down(c), HeaderLen), HeaderLen)
      [] cpc[c] = "getfirst" -> Drop(Down(c), HeaderLen)
      [] OTHER -> mine[c][name[c]] \o Down(c)

GetLength(c) ==
    CASE cpc[c] = "GET" -> Drop(Down(c), HeaderLen)[1].len
      [] cpc[c] = "getfirst" -> Down(c)[1].len
      [] OTHER -> want[c]

\* The server has gone: what it has sent can still be read.
DeadLink(c) ==
    \/ cpc[c] \in Request \cup {"prompt", "putdata", "spin"} /\ Down(c) = << >>
    \/ IsAnswer(Down(c), cpc[c]) \/ IsDismissal(Down(c), cpc[c])
    \/ cpc[c] = "PUT" /\ Down(c) = Header("PUT_REPLY", 0, 0)
    \/ GetComes(c)

\* Not accepted yet.
QueuedLink(c) ==
    /\ cpc[c] = "OPEN" /\ Down(c) = << >>
    /\ conns[sock[c]].up = Header("OPEN", 0, 0)

\* Accepted and dropped.
DismissedLink(c) == conns[sock[c]].up = << >> /\ IsDismissal(Down(c), cpc[c])

\* GET: what has come and what is still to be sent make up the file.
GetLink(c) ==
    /\ Up = << >> /\ spc \in {"cmd", "get"}
    /\ GetComes(c)
    /\ store[name[c]] # NoFile
    /\ GetLength(c) = Len(store[name[c]])
    /\ GetData(c) \o sleft = store[name[c]]

\* PUT: what is written, what is under way and what is still to be sent do.
PutLink(c) ==
    /\ sname = name[c] /\ mine[c][sname] # NoFile
    /\ \/ /\ spc = "putfirst" /\ store[sname] = << >>
          /\ cpc[c] = "PUT" /\ Down(c) = Header("PUT_REPLY", 0, 0) /\ Up = << >>
       \/ /\ spc = "putfirst" /\ store[sname] = << >>
          /\ Down(c) = << >>
          /\ cpc[c] = IF rest[c] = << >> THEN "prompt" ELSE "putdata"
          /\ Begins(Up, Header("FILE_DATA", 0, Len(mine[c][sname])))
          /\ Drop(Up, HeaderLen) \o rest[c] = mine[c][sname]
       \/ /\ spc = "putmore" /\ store[sname] # NoFile
          /\ Down(c) = << >>
          /\ cpc[c] = IF rest[c] = << >> THEN "prompt" ELSE "putdata"
          /\ fileLen = Len(mine[c][sname]) /\ Len(store[sname]) < fileLen
          /\ (store[sname] \o Up) \o rest[c] = mine[c][sname]

\* The connection that the server reads.
ServedLink(c) ==
    \/ spc = "cmd" /\ cpc[c] \in Request /\ Down(c) = << >> /\ IsRequest(Up, cpc[c], name[c])
    \/ spc = "cmd" /\ Up = << >> /\ IsAnswer(Down(c), cpc[c])
    \/ GetLink(c)
    \/ PutLink(c)

\* What the server reads from a client that has torn a listing, closed its
\* connection over the rest or about to.
TornServed(c) ==
    \/ spc = "cmd" /\ Up = << >>
    \/ spc \in {"get", "putfirst"} /\ Up = << >> /\ (conns[conn].left \/ cpc[c] # "prompt")
    \/ /\ spc = "cmd" /\ (conns[conn].left \/ cpc[c] # "prompt")
       /\ \E type \in {"LIST", "GET", "PUT"}, n \in Name : IsRequest(Up, type, n)
    \/ spc = "cmd" /\ Up = Header("QUIT", 0, 0) /\ ~conns[conn].left /\ cpc[c] = "QUIT"
    \/ spc = "spin" /\ conns[conn].left

\* Such a client: the rest of the listing comes before any other reply.
TornLink(c) ==
    /\ Down(c) # << >> /\ Down(c)[1] \in ListCell
    /\ cpc[c] \in {"prompt", "LIST", "GET", "PUT", "QUIT"} /\ isAuth[c]
    /\ sock[c] <= accepted
    /\ \/ conns[sock[c]].dead
       \/ conn = sock[c] /\ TornServed(c)
       \/ conn # sock[c] /\ cpc[c] = "QUIT" /\ conns[sock[c]].up = << >>

Link(c) ==
    IF conns[sock[c]].torn THEN TornLink(c)
    ELSE IF conns[sock[c]].dead THEN DeadLink(c)
    ELSE IF conn = sock[c] THEN ServedLink(c)
    ELSE IF sock[c] > accepted THEN QueuedLink(c)
    ELSE DismissedLink(c)

LinkInv == \A c \in Client : sock[c] # 0 => Link(c)

-----------------------------------------------------------------------------
(* Connections that their client has closed.                               *)

IsPrefix(p, s) == Len(p) <= Len(s) /\ p = SubSeq(s, 1, Len(p))

\* What the server reads of a client that has left, file being the client's
\* copy of the file of a PUT.
LeftLink(file) ==
    \/ spc = "spin"
    \/ spc \in {"cmd", "get"} \cup Putting /\ Up = << >>
    \/ spc = "cmd" /\ \E type \in Request, n \in Name : IsRequest(Up, type, n)
    \/ /\ spc = "putfirst" /\ store[sname] = << >> /\ file # NoFile
       /\ Begins(Up, Header("FILE_DATA", 0, Len(file)))
       /\ IsPrefix(Drop(Up, HeaderLen), file)
    \/ /\ spc = "putmore" /\ store[sname] # NoFile /\ file # NoFile
       /\ fileLen = Len(file) /\ Len(store[sname]) < fileLen
       /\ IsPrefix(store[sname] \o Up, file)

\* The server reads for ever from a client that has closed its connection over a
\* torn listing; the client is not accepted again.
Stranded(c) ==
    /\ conn # 0 /\ conns[conn].left /\ conns[conn].torn /\ conns[conn].client = c
    /\ TornServed(c)
    /\ sock[c] = 0 \/ sock[c] > accepted

\* Only a program that has ended leaves a connection to be served, or one that has
\* torn a listing.
LeftInv ==
    \A k \in DOMAIN conns :
        conns[k].left /\ ~conns[k].dead =>
            /\ k > accepted => /\ cpc[conns[k].client] = "gone"
                               /\ conns[k].up = Header("OPEN", 0, 0)
            /\ k = conn => \/ /\ cpc[conns[k].client] = "gone"
                              /\ LeftLink(mine[conns[k].client][sname])
                           \/ cpc[conns[k].client] # "gone" /\ Stranded(conns[k].client)

-----------------------------------------------------------------------------
(* Credentials.                                                            *)

\* auth and ls look at isAuth.
AskInv ==
    \A c \in Client : /\ cpc[c] = "AUTH" => ~isAuth[c]
                      /\ cpc[c] = "LIST" => isAuth[c]

\* As long as the server has not died, a client that takes itself for logged in
\* is, on the connection it has, or waits for ever to be accepted on another.
AuthInv ==
    /\ AskInv
    /\ crashes = 0 => \A c \in Client :
        /\ isAuth[c] /\ cpc[c] # "gone" => \/ sock[c] # 0 /\ conns[sock[c]].authed
                                           \/ Stranded(c)
        /\ cpc[c] = "AUTH" /\ Down(c) = Header("AUTH_REPLY", 1, 0) => conns[sock[c]].authed
    /\ AuthBeforeService

IInv ==
    /\ TypeOK /\ SockInv /\ ConnInv /\ FileInv
    /\ LinkInv /\ LeftInv /\ AuthInv
=============================================================================
