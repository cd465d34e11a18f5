-------------------------------- MODULE Ftp --------------------------------
(***************************************************************************)
(* myFTP as a whole: one server and several clients, joined by the         *)
(* connections of FtpStream.                                               *)
(***************************************************************************)
EXTENDS FtpServer, FtpClient

CONSTANTS
    ServerFiles,  \* the possible first contents of the server's directory
    ClientFiles,  \* the possible first contents of the clients' directories
    Patient       \* TRUE: no command is typed while the server is still reading a PUT

ASSUME PatientAssumption == Patient \in BOOLEAN

Directory == [Name -> Seq(Byte) \cup {NoFile}]

ASSUME FilesAssumption ==
    ServerFiles \subseteq Directory /\ ClientFiles \subseteq [Client -> Directory]

vars == <<conns, serverVars, clientVars>>

Init ==
    /\ conns = << >>
    /\ \E files \in ServerFiles : ServerInit(files)
    /\ \E files \in ClientFiles : ClientInit(files)

\* PUT has no final reply: the prompt is back while the data is on its way.
Settled(c) ==
    LET k == sock[c]
    IN  k # 0 => conns[k].up = << >> /\ ~(conn = k /\ spc \in Putting)

ClientNext(c) ==
    \/ spc # "down" /\ Open(c)
    \/ (Patient => Settled(c)) /\ Command(c)
    \/ ClientRuns(c)
    \/ Leave(c)

Next ==
    \/ ServerNext /\ UNCHANGED clientVars
    \/ \E c \in Client : ClientNext(c) /\ UNCHANGED serverVars

Spec == Init /\ [][Next]_vars

\* recv and send return when they can; nobody has to type a command, to kill a
\* process or to start one.
Fairness ==
    /\ WF_vars(ServerRuns /\ UNCHANGED clientVars)
    /\ \A c \in Client : WF_vars(ClientRuns(c) /\ UNCHANGED serverVars)

FairSpec == Spec /\ Fairness

-----------------------------------------------------------------------------
\* Every variable has its type.
TypeOK ==
    /\ conns \in Seq(Connection)
    /\ ServerTypeOK
    /\ ClientTypeOK

\* When a client with a connection is back at its prompt, nothing of an earlier
\* reply is left that the next command could take for its own: nothing at all, or
\* the rest of a listing that ls has not waited for, which is no reply; and the
\* server waits on the same connection for the next request, unless it has died or
\* still reads a PUT.
InSync ==
    \A c \in Client :
        cpc[c] = "prompt" /\ sock[c] # 0 =>
            /\ IF conns[sock[c]].torn THEN Down(c) # << >> /\ Down(c)[1] \in ListCell
                                     ELSE Down(c) = << >>
            /\ \/ conns[sock[c]].dead
               \/ conn = sock[c] /\ spc = "cmd"
               \/ conn = sock[c] /\ spc \in Putting /\ ~conns[conn].torn

\* Whenever the server leaves the loop of PUT, its file is the one of the client
\* that has sent it: no byte of a header or of another request, and none missing,
\* however the stream is cut into recv's.
PutIsWhole ==
    [][(spc \in Putting /\ spc' = "cmd") =>
          store'[sname] = mine[conns[conn].client][sname]]_vars

\* Whenever a client leaves the loop of GET for its prompt, its file is the one
\* in the server's directory; that a new process serves others meanwhile is left out.
GetIsWhole ==
    [][\A c \in Client :
          cpc[c] \in Getting /\ cpc'[c] = "prompt" /\ crashes = 0 =>
              mine'[c][name[c]] = store[name[c]]]_vars

\* The server asks nobody for credentials, only the clients do: as long as they
\* have no other process to reconnect to, no file or listing is asked for, sent
\* or received on a connection where the server has not accepted credentials.
AuthBeforeService ==
    crashes = 0 =>
        /\ \A k \in DOMAIN conns :
             (\E i \in DOMAIN conns[k].up :
                 conns[k].up[i] \in HeaderCell
                 /\ conns[k].up[i].type \in {"LIST", "GET", "PUT"}) => conns[k].authed
        /\ spc \in Putting \cup {"get"} => conns[conn].authed

\* Only a client that ends without QUIT, or that has closed the connection over the
\* rest of a listing, makes the server loop for ever: neither a rejected client, nor
\* one that has quit, nor a file of any length does.  What such a loop writes to a
\* file, and the descriptors that accept uses up, are not looked at.
SpinsOnlyForTheGone ==
    spc = "spin" =>
        /\ conns[conn].left
        /\ cpc[conns[conn].client] = "gone" \/ conns[conn].torn

\* A command on the connection that the server has accepted comes back to the
\* prompt, unless the server's process dies.
CommandReturns ==
    \A c \in Client :
        conn # 0 /\ sock[c] = conn /\ cpc[c] # "prompt"
            ~> cpc[c] \in {"prompt", "gone"} \/ crashes > 0
=============================================================================
