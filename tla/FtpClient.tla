----------------------------- MODULE FtpClient -----------------------------
(***************************************************************************)
(* ftp_client.cpp: a command at a time. A command sends its request and    *)
(* waits in recv for the reply; GET and PUT then move a file. The program  *)
(* keeps one socket and the flags isSocket and isAuth across commands.     *)
(***************************************************************************)
EXTENDS FtpStream

CONSTANT MaxConn   \* bound: connections opened in a behaviour

VARIABLES
    cpc,     \* where a client is
    sock,    \* its connection; 0 when isSocket is 0
    isAuth,  \* isAuth: the server has accepted this client's credentials
    mine,    \* the files of the client's working directory
    name,    \* the file of the GET or PUT in progress
    rest,    \* what the PUT in progress has still to send
    want     \* fileLen of the GET in progress

clientVars == <<cpc, sock, isAuth, mine, name, rest, want>>

(***************************************************************************)
(* "prompt" in main, the name of a request while its reply is awaited,     *)
(* "getfirst" and "getmore" in the loop that receives a file, "putdata" in *)
(* the loop that sends one, "spin" in a loop that gets 0 from every recv,  *)
(* "gone" when the program has ended.                                      *)
(***************************************************************************)
Getting == {"getfirst", "getmore"}
ClientPlace == Request \cup Getting \cup {"prompt", "putdata", "spin", "gone"}

ClientTypeOK ==
    /\ cpc \in [Client -> ClientPlace]
    /\ sock \in [Client -> 0 .. Len(conns)]
    /\ isAuth \in [Client -> BOOLEAN]
    /\ mine \in [Client -> [Name -> File]]
    /\ name \in [Client -> Name]
    /\ rest \in [Client -> Seq(Cell)]
    /\ want \in [Client -> Nat]

\* New processes, their directories as given.
ClientInit(files) ==
    /\ cpc = [c \in Client |-> "prompt"]
    /\ sock = [c \in Client |-> 0]
    /\ isAuth = [c \in Client |-> FALSE]
    /\ mine = files
    /\ name \in [Client -> Name]
    /\ rest = [c \in Client |-> << >>]
    /\ want = [c \in Client |-> 0]

Down(c) == conns[sock[c]].down
Goes(c, place) == cpc' = [cpc EXCEPT ![c] = place]
Reads(c, n) == conns' = [conns EXCEPT ![sock[c]].down = Drop(@, n)]

\* What is sent to a process that has died is lost.
Sends(c, cells) ==
    conns' = [conns EXCEPT ![sock[c]].up = IF conns[sock[c]].dead THEN @ ELSE @ \o cells]

-----------------------------------------------------------------------------
(* Commands: the guards are those of the code, in eval and in each command. *)

AtPrompt(c) == cpc[c] = "prompt" /\ sock[c] # 0
LoggedIn(c) == AtPrompt(c) /\ isAuth[c]

\* open: connect(), which the kernel grants before the server accepts.
Open(c) ==
    /\ cpc[c] = "prompt" /\ sock[c] = 0
    /\ Len(conns) < MaxConn
    /\ conns' = Append(conns, NewConnection(c))
    /\ sock' = [sock EXCEPT ![c] = Len(conns')]
    /\ Goes(c, "OPEN")
    /\ UNCHANGED <<isAuth, mine, name, rest, want>>

Authen(c) ==
    /\ AtPrompt(c) /\ ~isAuth[c]
    /\ \E right \in BOOLEAN :
         Sends(c, Append(Header("AUTH", 0, 0), [right |-> right]))
    /\ Goes(c, "AUTH")
    /\ UNCHANGED <<sock, isAuth, mine, name, rest, want>>

\* Mutant: ls does not ask for isAuth.
LsUnchecked(c) ==
    /\ AtPrompt(c)
    /\ Sends(c, Header("LIST", 0, 0))
    /\ Goes(c, "LIST")
    /\ UNCHANGED <<sock, isAuth, mine, name, rest, want>>

Ls(c) ==
    /\ LoggedIn(c)
    /\ Sends(c, Header("LIST", 0, 0))
    /\ Goes(c, "LIST")
    /\ UNCHANGED <<sock, isAuth, mine, name, rest, want>>

MyGet(c) ==
    /\ LoggedIn(c)
    /\ \E n \in Name :
        /\ Sends(c, Append(Header("GET", 0, 0), [name |-> n]))
        /\ name' = [name EXCEPT ![c] = n]
    /\ Goes(c, "GET")
    /\ UNCHANGED <<sock, isAuth, mine, rest, want>>

MyPut(c) ==
    /\ LoggedIn(c)
    /\ \E n \in Name :
        /\ mine[c][n] # NoFile
        /\ Sends(c, Append(Header("PUT", 0, 0), [name |-> n]))
        /\ name' = [name EXCEPT ![c] = n]
    /\ Goes(c, "PUT")
    /\ UNCHANGED <<sock, isAuth, mine, rest, want>>

\* quit without a connection ends the program at once.
Quit(c) ==
    /\ cpc[c] = "prompt"
    /\ \/ sock[c] = 0 /\ Goes(c, "gone") /\ UNCHANGED conns
       \/ sock[c] # 0 /\ Sends(c, Header("QUIT", 0, 0)) /\ Goes(c, "QUIT")
    /\ UNCHANGED <<sock, isAuth, mine, name, rest, want>>

Command(c) == Authen(c) \/ Ls(c) \/ MyGet(c) \/ MyPut(c) \/ Quit(c)

-----------------------------------------------------------------------------
(* Replies.                                                                *)

Replied(c, request) ==
    /\ cpc[c] = request
    /\ IsHeader(Down(c), ReplyTo[request])

\* A closed socket: nothing more is read, the server will see the end.
Closed(k) == conns' = [conns EXCEPT ![k].left = TRUE, ![k].down = << >>]

\* closefd: isAuth keeps its value.
Closefd(c) ==
    /\ Closed(sock[c])
    /\ sock' = [sock EXCEPT ![c] = 0]

OpenReply(c) ==
    /\ Replied(c, "OPEN") /\ Down(c)[1].status = 1
    /\ Reads(c, HeaderLen)
    /\ Goes(c, "prompt")
    /\ UNCHANGED <<sock, isAuth, mine, name, rest, want>>

\* Mutant: rejected credentials count as accepted, and the connection stays.
AuthReplyAny(c) ==
    /\ Replied(c, "AUTH")
    /\ isAuth' = [isAuth EXCEPT ![c] = TRUE] /\ Reads(c, HeaderLen) /\ UNCHANGED sock
    /\ Goes(c, "prompt")
    /\ UNCHANGED <<mine, name, rest, want>>

AuthReply(c) ==
    /\ Replied(c, "AUTH")
    /\ \/ /\ Down(c)[1].status = 1
          /\ isAuth' = [isAuth EXCEPT ![c] = TRUE]
          /\ Reads(c, HeaderLen)
          /\ UNCHANGED sock
       \/ Down(c)[1].status = 0 /\ Closefd(c) /\ UNCHANGED isAuth
    /\ Goes(c, "prompt")
    /\ UNCHANGED <<mine, name, rest, want>>

\* One recv for the header and the listing, long enough for both. Whatever it
\* returns is printed; what TCP delivers later is left to the next command.
LsReply(c) ==
    /\ Replied(c, "LIST")
    /\ \E k \in HeaderLen .. HeaderLen + ListLen :
        /\ Received(Down(c), HeaderLen + ListLen, k)
        /\ conns' = [conns EXCEPT ![sock[c]].down = Drop(@, k),
                                  ![sock[c]].torn = @ \/ k < HeaderLen + ListLen]
    /\ Goes(c, "prompt")
    /\ UNCHANGED <<sock, isAuth, mine, name, rest, want>>

\* No such file, or the local file is emptied for the one to come.
GetReply(c) ==
    /\ Replied(c, "GET")
    /\ Reads(c, HeaderLen)
    /\ \/ Down(c)[1].status = 0 /\ Goes(c, "prompt") /\ UNCHANGED mine
       \/ /\ Down(c)[1].status = 1
          /\ Goes(c, "getfirst")
          /\ mine' = [mine EXCEPT ![c][name[c]] = << >>]
    /\ UNCHANGED <<sock, isAuth, name, rest, want>>

PutReply(c) ==
    /\ Replied(c, "PUT")
    /\ LET file == mine[c][name[c]]
           data == Header("FILE_DATA", 0, Len(file))
           k    == sock[c]
       IN  /\ conns' = [conns EXCEPT ![k].down = Drop(@, HeaderLen),
                                     ![k].up = IF conns[k].dead THEN @ ELSE @ \o data]
           /\ rest' = [rest EXCEPT ![c] = file]
           /\ Goes(c, IF file = << >> THEN "prompt" ELSE "putdata")
    /\ UNCHANGED <<sock, isAuth, mine, name, want>>

QuitReply(c) ==
    /\ Replied(c, "QUIT")
    /\ Closefd(c)
    /\ Goes(c, "gone")
    /\ UNCHANGED <<isAuth, mine, name, rest, want>>

-----------------------------------------------------------------------------
(* The two loops over a file.                                              *)

\* One fread and its send.
PutPiece(c) ==
    /\ cpc[c] = "putdata"
    /\ Sends(c, Piece(rest[c]))
    /\ rest' = [rest EXCEPT ![c] = Drop(@, Len(Piece(@)))]
    /\ Goes(c, IF rest'[c] = << >> THEN "prompt" ELSE "putdata")
    /\ UNCHANGED <<sock, isAuth, mine, name, want>>

\* cnt == fileLen + sizeof(FTPpack)
UntilGot(c) ==
    Goes(c, IF Len(mine'[c][name[c]]) = want'[c] THEN "prompt" ELSE "getmore")

Writes(c, cells) == mine' = [mine EXCEPT ![c][name[c]] = @ \o cells]

\* Mutant: the header is written to the file as well.
GetFirstWithHeader(c) ==
    /\ cpc[c] = "getfirst"
    /\ IsHeader(Down(c), "FILE_DATA")
    /\ want' = [want EXCEPT ![c] = Down(c)[1].len]
    /\ \E k \in HeaderLen .. MAXFILELEN :
        /\ Received(Down(c), MAXFILELEN, k)
        /\ Writes(c, SubSeq(Down(c), 1, k))
        /\ Reads(c, k)
    /\ UntilGot(c)
    /\ UNCHANGED <<sock, isAuth, name, rest>>

GetFirst(c) ==
    /\ cpc[c] = "getfirst"
    /\ IsHeader(Down(c), "FILE_DATA")
    /\ want' = [want EXCEPT ![c] = Down(c)[1].len]
    /\ \E k \in HeaderLen .. MAXFILELEN :
        /\ Received(Down(c), MAXFILELEN, k)
        /\ Writes(c, SubSeq(Down(c), HeaderLen + 1, k))
        /\ Reads(c, k)
    /\ UntilGot(c)
    /\ UNCHANGED <<sock, isAuth, name, rest>>

GetMore(c) ==
    /\ cpc[c] = "getmore"
    /\ \E k \in 1 .. MAXFILELEN :
        /\ Received(Down(c), MAXFILELEN, k)
        /\ Writes(c, SubSeq(Down(c), 1, k))
        /\ Reads(c, k)
    /\ want' = want
    /\ UntilGot(c)
    /\ UNCHANGED <<sock, isAuth, name, rest>>

-----------------------------------------------------------------------------
(* Failures.                                                               *)

\* Nothing will come any more.
AtEnd(c) == sock[c] # 0 /\ conns[sock[c]].dead /\ Down(c) = << >>

\* A buffer that is no header of the expected type; open looks at the status alone.
Unexpected(c) ==
    /\ Down(c) # << >>
    /\ ~ IF cpc[c] = "OPEN" THEN AnyHeader(Down(c)) /\ Down(c)[1].status = 1
                            ELSE IsHeader(Down(c), ReplyTo[cpc[c]])

\* Every command closes the connection on a wrong reply; quit ends the program.
Fails(c) ==
    /\ cpc[c] \in Request
    /\ AtEnd(c) \/ Unexpected(c)
    /\ Closefd(c)
    /\ Goes(c, IF cpc[c] = "QUIT" THEN "gone" ELSE "prompt")
    /\ UNCHANGED <<isAuth, mine, name, rest, want>>

\* recv returns 0 in the loop of GET: cnt does not move, the loop never ends.
GetEnd(c) ==
    /\ cpc[c] \in Getting
    /\ AtEnd(c)
    /\ Goes(c, "spin")
    /\ UNCHANGED <<conns, sock, isAuth, mine, name, rest, want>>

\* The end of the input at the prompt, or a signal anywhere: no QUIT is sent.
Leave(c) ==
    /\ cpc[c] # "gone"
    /\ Goes(c, "gone")
    /\ IF sock[c] = 0 THEN UNCHANGED <<conns, sock>> ELSE Closefd(c)
    /\ UNCHANGED <<isAuth, mine, name, rest, want>>

\* What the program does by itself, in answer to the network.
ClientRuns(c) ==
    \/ OpenReply(c) \/ AuthReply(c) \/ LsReply(c) \/ QuitReply(c)
    \/ GetReply(c) \/ GetFirst(c) \/ GetMore(c)
    \/ PutReply(c) \/ PutPiece(c)
    \/ Fails(c) \/ GetEnd(c)
=============================================================================
