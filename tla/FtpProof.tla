------------------------------ MODULE FtpProof ------------------------------
(* Proofs about myFTP, for any number of clients, files and connections: every *)
(* step of a client keeps the inductive invariant too, and what follows.       *)
EXTENDS FtpServerProof

-----------------------------------------------------------------------------
(* A step of one client leaves the others and their connections alone.      *)

OnlyClient(c) ==
    /\ UNCHANGED serverVars
    /\ cpc' \in [Client -> ClientPlace] /\ isAuth' \in [Client -> BOOLEAN]
    /\ mine' \in [Client -> Directory] /\ name' \in [Client -> Name]
    /\ rest' \in [Client -> Seq(Cell)] /\ want' \in [Client -> Nat]
    /\ cpc'[c] \in {"PUT", "putdata"} \cup Getting => mine'[c][name'[c]] # NoFile
    /\ \A d \in Client \ {c} :
          /\ cpc'[d] = cpc[d] /\ sock'[d] = sock[d] /\ isAuth'[d] = isAuth[d]
          /\ mine'[d] = mine[d] /\ name'[d] = name[d]
          /\ rest'[d] = rest[d] /\ want'[d] = want[d]

LEMMA SameLink ==
    ASSUME NEW d \in Client, sock[d] # 0,
           sock'[d] = sock[d], conns'[sock[d]] = conns[sock[d]],
           cpc'[d] = cpc[d], mine'[d] = mine[d], name'[d] = name[d],
           isAuth'[d] = isAuth[d], rest'[d] = rest[d], want'[d] = want[d],
           UNCHANGED <<spc, conn, accepted, store, fileLen, sname, sleft>>,
           Link(d)
    PROVE  Link(d)'
<1>1. Down(d)' = Down(d) /\ (conn = sock[d] => Up' = Up)
  BY DEF Down, Up
<1>2. GetComes(d)' <=> GetComes(d)
  BY <1>1 DEF GetComes
<1>3. DeadLink(d)' <=> DeadLink(d)
  BY <1>1, <1>2 DEF DeadLink
<1>4. QueuedLink(d)' <=> QueuedLink(d)
  BY <1>1 DEF QueuedLink
<1>5. DismissedLink(d)' <=> DismissedLink(d)
  BY <1>1 DEF DismissedLink
<1>6. GetData(d)' = GetData(d) /\ GetLength(d)' = GetLength(d)
  BY <1>1 DEF GetData, GetLength
<1>7. conn = sock[d] => (GetLink(d)' <=> GetLink(d))
  BY <1>1, <1>2, <1>6 DEF GetLink
<1>8. conn = sock[d] => (PutLink(d)' <=> PutLink(d))
  BY <1>1 DEF PutLink
<1>9. conn = sock[d] => (ServedLink(d)' <=> ServedLink(d))
  BY <1>1, <1>7, <1>8 DEF ServedLink
<1>10. conn = sock[d] => (TornServed(d)' <=> TornServed(d))
  BY <1>1 DEF TornServed
<1>11. TornLink(d)' <=> TornLink(d)
  BY <1>1, <1>10 DEF TornLink
<1> QED BY <1>3, <1>4, <1>5, <1>9, <1>11 DEF Link

\* What the server reads from a stranded client is nothing or a request.
LEMMA TornLeaves ==
    ASSUME IInv, NEW c, TornServed(c), conns[conn].left \/ cpc[c] = "QUIT", NEW file
    PROVE  LeftLink(file)
<1>1. PICK n \in Name : n = sname
  BY DEF IInv, TypeOK, ServerTypeOK
<1>2. Up = Header("QUIT", 0, 0) => IsRequest(Up, "QUIT", n)
  BY DEF IsRequest
<1>3. {"LIST", "GET", "PUT", "QUIT"} \subseteq Request
  BY DEF Request
<1> QED BY <1>2, <1>3 DEF TornServed, LeftLink, Putting

\* What follows for the other clients, and for the connections that nobody has.
LEMMA OthersStay ==
    ASSUME IInv, NEW c \in Client, cpc[c] # "gone", OnlyClient(c),
           sock'[c] \in {0, sock[c]} \/ sock'[c] > accepted,
           \A j \in 1 .. Len(conns) : j # sock[c] => conns'[j] = conns[j]
    PROVE  /\ \A d \in Client \ {c} : sock[d] # 0 => sock[d] # sock[c] /\ Link(d)'
           /\ \A d \in Client : Stranded(d) => Stranded(d)'
           /\ \A j \in 1 .. Len(conns) :
                 conns[j].left /\ ~conns[j].dead =>
                     /\ j > accepted => /\ cpc'[conns[j].client] = "gone"
                                        /\ conns[j].up = Header("OPEN", 0, 0)
                     /\ j = conn =>
                           \/ /\ cpc'[conns[j].client] = "gone"
                              /\ LeftLink(mine[conns[j].client][sname])'
                           \/ /\ cpc'[conns[j].client] # "gone"
                              /\ Stranded(conns[j].client)'
<1>1. /\ DOMAIN conns = 1 .. Len(conns)
      /\ \A j \in 1 .. Len(conns) : conns[j] \in Connection
      /\ \A d \in Client : sock[d] # 0 => sock[d] \in 1 .. Len(conns)
      /\ conn # 0 => conn \in 1 .. Len(conns)
  BY StateFacts
<1>a. /\ spc' = spc /\ conn' = conn /\ accepted' = accepted /\ store' = store
      /\ fileLen' = fileLen /\ sname' = sname
  BY DEF OnlyClient, serverVars
<1>2. ASSUME NEW d \in Client \ {c}, sock[d] # 0 PROVE sock[d] # sock[c] /\ Link(d)'
  <2>1. sock[d] # sock[c]
    BY <1>2 DEF IInv, SockInv
  <2>2. conns'[sock[d]] = conns[sock[d]] /\ Link(d)
    BY <1>1, <1>2, <2>1 DEF IInv, LinkInv
  <2>3. /\ sock'[d] = sock[d] /\ cpc'[d] = cpc[d] /\ mine'[d] = mine[d]
        /\ name'[d] = name[d] /\ rest'[d] = rest[d] /\ want'[d] = want[d]
        /\ isAuth'[d] = isAuth[d]
        /\ UNCHANGED <<spc, conn, accepted, store, fileLen, sname, sleft>>
    BY <1>2 DEF OnlyClient, serverVars
  <2> QED BY <1>2, <2>1, <2>2, <2>3, SameLink
<1>3. conn # 0 /\ conns[conn].left => conns'[conn] = conns[conn]
  BY <1>1 DEF IInv, SockInv
<1>4. ASSUME NEW d \in Client, Stranded(d) PROVE Stranded(d)'
  <2>1. /\ conn # 0 /\ conns[conn].left /\ conns[conn].torn /\ conns[conn].client = d
        /\ TornServed(d) /\ (sock[d] = 0 \/ sock[d] > accepted)
    BY <1>4 DEF Stranded
  <2>2. conns'[conn] = conns[conn] /\ Up' = Up
    BY <1>3, <1>a, <2>1 DEF Up
  <2>3. TornServed(d)'
    BY <1>a, <2>1, <2>2 DEF TornServed
  <2>4. sock'[d] = 0 \/ sock'[d] > accepted
    BY <2>1 DEF OnlyClient
  <2> QED BY <1>a, <2>1, <2>2, <2>3, <2>4 DEF Stranded
<1>5. ASSUME NEW j \in 1 .. Len(conns), conns[j].left, ~conns[j].dead
      PROVE  /\ j > accepted => /\ cpc'[conns[j].client] = "gone"
                                /\ conns[j].up = Header("OPEN", 0, 0)
             /\ j = conn => \/ /\ cpc'[conns[j].client] = "gone"
                               /\ LeftLink(mine[conns[j].client][sname])'
                            \/ /\ cpc'[conns[j].client] # "gone"
                               /\ Stranded(conns[j].client)'
  <2>1. PICK d \in Client : d = conns[j].client
    BY <1>1, <1>5 DEF Connection
  <2>2. j > accepted => cpc[d] = "gone" /\ conns[j].up = Header("OPEN", 0, 0)
    BY <1>1, <1>5, <2>1 DEF IInv, LeftInv
  <2>3. cpc[d] = "gone" => cpc'[d] = "gone" /\ mine'[d] = mine[d]
    BY DEF OnlyClient
  <2>4. ASSUME j = conn
        PROVE  \/ cpc'[d] = "gone" /\ LeftLink(mine[d][sname])'
               \/ cpc'[d] # "gone" /\ Stranded(d)'
    <3>0. conn # 0
      BY <1>1, <2>4
    <3>1. Up' = Up
      BY <1>3, <1>5, <1>a, <2>4, <3>0 DEF Up
    <3>2. \/ cpc[d] = "gone" /\ LeftLink(mine[d][sname])
          \/ cpc[d] # "gone" /\ Stranded(d)
      BY <1>5, <2>1, <2>4, <3>0, LeftConn
    <3>3. PICK file : file = mine'[d][sname]
      OBVIOUS
    <3>4. LeftLink(file) => LeftLink(file)'
      BY <1>a, <3>1 DEF LeftLink
    <3>5. CASE cpc[d] = "gone" /\ LeftLink(mine[d][sname])
      BY <1>a, <2>3, <3>3, <3>4, <3>5
    <3>6. CASE cpc[d] # "gone" /\ Stranded(d)
      <4>1. LeftLink(file)
        <5>1. TornServed(d) /\ conns[conn].left
          BY <3>6 DEF Stranded
        <5> QED BY <5>1, TornLeaves
      <4>2. Stranded(d)'
        BY <1>4, <3>6
      <4> QED BY <1>a, <3>3, <3>4, <4>1, <4>2
    <3> QED BY <3>2, <3>5, <3>6
  <2>5. conns'[j].client = d
    <3>1. j # sock[c]
      BY <1>1, <1>5 DEF IInv, SockInv
    <3> QED BY <2>1, <3>1
  <2> QED BY <2>1, <2>2, <2>3, <2>4, <2>5
<1> QED BY <1>2, <1>4, <1>5

LEMMA FilesStay == ASSUME IInv, NEW c \in Client, OnlyClient(c) PROVE FileInv'
<1>1. store' \in Directory /\ mine' \in [Client -> Directory]
  BY DEF OnlyClient, serverVars, IInv, FileInv
<1>2. ASSUME NEW d \in Client, cpc'[d] \in {"PUT", "putdata"} \cup Getting
      PROVE  mine'[d][name'[d]] # NoFile
  <2>1. CASE d = c
    BY <1>2, <2>1 DEF OnlyClient
  <2>2. CASE d # c
    <3>1. cpc'[d] = cpc[d] /\ mine'[d] = mine[d] /\ name'[d] = name[d]
      BY <2>2 DEF OnlyClient
    <3> QED BY <1>2, <3>1 DEF IInv, FileInv
  <2> QED BY <2>1, <2>2
<1> QED BY <1>1, <1>2 DEF FileInv

\* A listing cut off leaves its client where it can only type a command, read the
\* rest for a reply, or end; a header never comes first there.
LEMMA NotTorn ==
    ASSUME IInv, NEW c \in Client, cpc[c] \notin {"prompt", "gone"},
           \/ cpc[c] \in {"OPEN", "AUTH", "putdata", "spin"} \cup Getting
           \/ AnyHeader(Down(c))
    PROVE  sock[c] # 0 /\ ~conns[sock[c]].torn
<1>0. sock[c] # 0
  BY DEF IInv, SockInv
<1>1. Down(c) # << >> /\ Down(c)[1] \in ListCell => ~AnyHeader(Down(c))
  BY ListIsNoHeader
<1>2. conns[sock[c]].torn => TornLink(c)
  BY <1>0 DEF IInv, LinkInv, Link
<1> QED BY <1>0, <1>1, <1>2 DEF TornLink, Getting

\* A client that the server reads for ever has no other accepted connection.
LEMMA NotStranded ==
    ASSUME IInv, NEW c \in Client, sock[c] # 0, cpc[c] # "OPEN" \/ Down(c) # << >>
    PROVE  ~Stranded(c)
<1>1. Link(c) /\ sock[c] \in 1 .. Len(conns) /\ conn \in Int /\ accepted \in Int
      /\ conn <= accepted /\ DOMAIN conns = 1 .. Len(conns)
  BY StateFacts DEF IInv, LinkInv
<1>2. conns[sock[c]].dead => sock[c] <= accepted
  BY <1>1 DEF IInv, ConnInv
<1>3. ~QueuedLink(c)
  BY DEF QueuedLink
<1>4. ~(sock[c] > accepted)
  BY <1>1, <1>2, <1>3 DEF Link, TornLink
<1> QED BY <1>4 DEF Stranded

\* What a client has to see to on a connection that it keeps.
OwnClient(c, up, down) ==
    /\ cpc'[c] # "gone"
    /\ conns[sock[c]].dead => up = << >>
    /\ Link(c)'
    /\ cpc'[c] = "AUTH" => ~isAuth'[c]
    /\ cpc'[c] = "LIST" => isAuth'[c]
    /\ crashes = 0 =>
          /\ isAuth'[c] => conns[sock[c]].authed \/ Stranded(c)
          /\ cpc'[c] = "AUTH" /\ down = Header("AUTH_REPLY", 1, 0) => conns[sock[c]].authed
          /\ AsksService(up) => conns[sock[c]].authed

\* Connection k after a step that reads and sends on it, or tears a listing.
Renews(k, up, down, authed) ==
    /\ conns' \in Seq(Connection) /\ Len(conns') = Len(conns)
    /\ \A j \in 1 .. Len(conns) : j # k => conns'[j] = conns[j]
    /\ conns'[k].client = conns[k].client
    /\ conns'[k].left = conns[k].left /\ conns'[k].dead = conns[k].dead
    /\ conns'[k].up = up /\ conns'[k].down = down /\ conns'[k].authed = authed

LEMMA ClientGoesOn ==
    ASSUME IInv, NEW c \in Client, sock[c] # 0, OnlyClient(c), sock' = sock,
           NEW up, NEW down, Renews(sock[c], up, down, conns[sock[c]].authed),
           OwnClient(c, up, down)
    PROVE  IInv'
<1>0. PICK k : k = sock[c]
  OBVIOUS
<1>1. /\ k \in 1 .. Len(conns) /\ Len(conns) \in Nat /\ DOMAIN conns = 1 .. Len(conns)
      /\ conns[k].client = c /\ ~conns[k].left /\ cpc[c] # "gone"
      /\ conn \in 0 .. accepted /\ accepted \in 0 .. Len(conns)
      /\ \A d \in Client : sock[d] # 0 => sock[d] \in 1 .. Len(conns)
  BY <1>0, StateFacts DEF IInv, SockInv
<1>2. /\ conns' \in Seq(Connection) /\ Len(conns') = Len(conns)
      /\ DOMAIN conns' = 1 .. Len(conns)
      /\ \A j \in 1 .. Len(conns) : j # k => conns'[j] = conns[j]
      /\ \A j \in 1 .. Len(conns) : /\ conns'[j].client = conns[j].client
                                    /\ conns'[j].left = conns[j].left
                                    /\ conns'[j].dead = conns[j].dead
                                    /\ conns'[j].authed = conns[j].authed
      /\ conns'[k].up = up /\ conns'[k].down = down
  BY <1>0, <1>1, LenProperties DEF Renews
<1>3. /\ spc' = spc /\ conn' = conn /\ accepted' = accepted /\ store' = store
      /\ fileLen' = fileLen /\ sname' = sname /\ sleft' = sleft /\ crashes' = crashes
      /\ cpc' \in [Client -> ClientPlace] /\ isAuth' \in [Client -> BOOLEAN]
      /\ mine' \in [Client -> Directory] /\ name' \in [Client -> Name]
      /\ rest' \in [Client -> Seq(Cell)] /\ want' \in [Client -> Nat]
  BY DEF OnlyClient, serverVars
<1>4. \A d \in Client \ {c} : cpc'[d] = cpc[d] /\ isAuth'[d] = isAuth[d]
  BY DEF OnlyClient
<1>5. TypeOK'
  <2>1. ServerTypeOK'
    BY <1>2, <1>3 DEF IInv, TypeOK, ServerTypeOK
  <2>2. ClientTypeOK'
    <3>1. mine' \in [Client -> [Name -> File]]
      <4>1. Directory \subseteq [Name -> File]
        BY ByteCells DEF Directory, File
      <4> QED BY <1>3, <4>1
    <3> QED BY <1>2, <1>3, <3>1 DEF IInv, TypeOK, ClientTypeOK
  <2> QED BY <1>2, <2>1, <2>2 DEF TypeOK
<1>6. SockInv'
  <2>1. \A d \in Client :
          /\ cpc'[d] \notin {"prompt", "gone"} => sock[d] # 0
          /\ cpc'[d] = "gone" => sock[d] = 0
          /\ sock[d] # 0 => conns'[sock[d]].client = d /\ ~conns'[sock[d]].left
    BY <1>1, <1>2, <1>4 DEF IInv, SockInv, OwnClient
  <2>2. \A j \in 1 .. Len(conns) : ~conns'[j].left => sock[conns'[j].client] = j
    BY <1>1, <1>2 DEF IInv, SockInv
  <2> QED BY <1>2, <2>1, <2>2 DEF SockInv
<1>7. ConnInv'
  <2>1. ASSUME NEW j \in 1 .. Len(conns), conns'[j].dead
        PROVE  crashes > 0 /\ j <= accepted /\ j # conn /\ conns'[j].up = << >>
    <3>1. conns[j].dead
      BY <1>2, <2>1
    <3>2. crashes > 0 /\ j <= accepted /\ j # conn /\ conns[j].up = << >>
      BY <1>1, <3>1 DEF IInv, ConnInv
    <3> QED BY <1>0, <1>2, <3>1, <3>2 DEF OwnClient
  <2> QED BY <1>2, <1>3, <2>1 DEF IInv, ConnInv
<1>8. FileInv'
  BY FilesStay
<1>9. LinkInv'
  <2>1. \A d \in Client \ {c} : sock[d] # 0 => Link(d)'
    BY <1>0, <1>1, <1>2, OthersStay
  <2>2. Link(c)'
    BY DEF OwnClient
  <2> QED BY <2>1, <2>2 DEF LinkInv
<1>10. LeftInv'
  <2>1. SUFFICES ASSUME NEW j \in 1 .. Len(conns), conns'[j].left, ~conns'[j].dead
                 PROVE  /\ j > accepted => /\ cpc'[conns'[j].client] = "gone"
                                           /\ conns'[j].up = Header("OPEN", 0, 0)
                        /\ j = conn => \/ /\ cpc'[conns'[j].client] = "gone"
                                          /\ LeftLink(mine[conns[j].client][sname])'
                                       \/ /\ cpc'[conns'[j].client] # "gone"
                                          /\ Stranded(conns[j].client)'
    BY <1>2, <1>3 DEF LeftInv
  <2>2. j # k /\ conns'[j] = conns[j]
    BY <1>1, <1>2, <2>1
  <2> QED BY <1>0, <1>1, <1>2, <2>1, <2>2, OthersStay
<1>11. AuthInv'
  <2>1. ASSUME crashes = 0, NEW d \in Client
        PROVE  /\ isAuth'[d] /\ cpc'[d] # "gone" =>
                     (sock[d] # 0 /\ conns'[sock[d]].authed) \/ Stranded(d)'
               /\ cpc'[d] = "AUTH" /\ conns'[sock[d]].down = Header("AUTH_REPLY", 1, 0) =>
                     conns'[sock[d]].authed
    <3>0. Stranded(d) => Stranded(d)'
      BY <1>0, <1>1, <1>2, OthersStay
    <3>1. CASE d = c
      BY <1>0, <1>1, <1>2, <2>1, <3>0, <3>1 DEF OwnClient
    <3>2. CASE d # c
      <4>1. /\ isAuth[d] /\ cpc[d] # "gone" =>
                  (sock[d] # 0 /\ conns[sock[d]].authed) \/ Stranded(d)
            /\ cpc[d] = "AUTH" => sock[d] # 0
            /\ cpc[d] = "AUTH" /\ conns[sock[d]].down = Header("AUTH_REPLY", 1, 0) =>
                  conns[sock[d]].authed
        BY <2>1 DEF IInv, AuthInv, SockInv, Down
      <4>2. sock[d] # 0 => conns'[sock[d]] = conns[sock[d]]
        BY <1>0, <1>1, <1>2, <3>2, OthersStay
      <4> QED BY <1>4, <3>0, <3>2, <4>1, <4>2
    <3> QED BY <3>1, <3>2
  <2>2. ASSUME crashes = 0, NEW j \in 1 .. Len(conns), AsksService(conns'[j].up)
        PROVE  conns'[j].authed
    <3>1. CASE j = k
      BY <1>0, <1>1, <1>2, <2>2, <3>1 DEF OwnClient
    <3>2. CASE j # k
      <4>1. conns'[j] = conns[j]
        BY <1>2, <3>2
      <4> QED BY <1>1, <2>2, <4>1 DEF IInv, AuthInv, AuthBeforeService, AsksService
    <3> QED BY <3>1, <3>2
  <2>3. ASSUME crashes = 0, spc \in Putting \cup {"get"} PROVE conns'[conn].authed
    <3>1. conns[conn].authed /\ conn # 0
      BY <2>3 DEF IInv, AuthInv, AuthBeforeService, ConnInv, Putting
    <3>2. conn \in 1 .. Len(conns)
      BY <3>1, StateFacts
    <3> QED BY <1>2, <3>1, <3>2
  <2>4. AuthBeforeService'
    BY <1>2, <1>3, <2>2, <2>3 DEF AuthBeforeService, AsksService
  <2>5. AskInv'
    <3>1. \A d \in Client : /\ cpc'[d] = "AUTH" => ~isAuth'[d]
                            /\ cpc'[d] = "LIST" => isAuth'[d]
      BY <1>4 DEF IInv, AuthInv, AskInv, OwnClient
    <3> QED BY <3>1 DEF AskInv
  <2>6. crashes' = 0 => \A d \in Client :
          /\ isAuth'[d] /\ cpc'[d] # "gone" =>
                (sock'[d] # 0 /\ conns'[sock'[d]].authed) \/ Stranded(d)'
          /\ cpc'[d] = "AUTH" /\ Down(d)' = Header("AUTH_REPLY", 1, 0) =>
                conns'[sock'[d]].authed
    BY <1>3, <2>1 DEF Down
  <2> QED BY <2>4, <2>5, <2>6 DEF AuthInv
<1> QED BY <1>5, <1>6, <1>7, <1>8, <1>9, <1>10, <1>11 DEF IInv

LEMMA ClientStays ==
    ASSUME IInv, NEW c \in Client, sock[c] # 0, OnlyClient(c), sock' = sock,
           NEW up, NEW down, Rewrites(sock[c], up, down, conns[sock[c]].authed),
           OwnClient(c, up, down)
    PROVE  IInv'
<1>1. Renews(sock[c], up, down, conns[sock[c]].authed)
  BY DEF Rewrites, Renews
<1> QED BY <1>1, ClientGoesOn

\* The client's file of a PUT that it abandons.
LEMMA LeavesServed ==
    ASSUME IInv, NEW c \in Client, ServedLink(c)
    PROVE  LeftLink(mine[c][sname])
<1>1. CASE cpc[c] \in Request /\ spc = "cmd" /\ IsRequest(Up, cpc[c], name[c])
  <2>1. name[c] \in Name
    BY DEF IInv, TypeOK, ClientTypeOK
  <2> QED BY <1>1, <2>1 DEF LeftLink
<1>2. CASE Up = << >> /\ spc \in {"cmd", "get"} \cup Putting
  BY <1>2 DEF LeftLink
<1>3. CASE PutLink(c) /\ Up # << >>
  <2>1. PICK file \in Seq(Byte) : file = mine[c][sname] /\ file # NoFile
    BY <1>3 DEF PutLink, IInv, FileInv, Directory, TypeOK, ServerTypeOK
  <2>2. rest[c] \in Seq(Cell)
    BY DEF IInv, TypeOK, ClientTypeOK
  <2>3. conn # 0 /\ Up \in Seq(Cell)
    <3>1. conn # 0
      BY <1>3 DEF PutLink, IInv, ConnInv
    <3> QED BY <3>1, StateFacts DEF Up, Connection
  <2>4. CASE spc = "putfirst"
    <3>1. /\ store[sname] = << >>
          /\ Begins(Up, Header("FILE_DATA", 0, Len(file)))
          /\ Drop(Up, HeaderLen) \o rest[c] = file
      BY <1>3, <2>1, <2>4 DEF PutLink
    <3>2. PICK d \in Seq(Cell) : d = Drop(Up, HeaderLen)
      BY <2>3, SizeAssumption, DropIsSeq
    <3>3. d \o rest[c] = file
      BY <3>1, <3>2
    <3>4. IsPrefix(d, file)
      BY <2>2, <3>3, ConcatParts
    <3> QED BY <2>1, <2>4, <3>1, <3>2, <3>4 DEF LeftLink
  <2>5. CASE spc = "putmore"
    <3>1. /\ store[sname] # NoFile /\ fileLen = Len(file) /\ Len(store[sname]) < fileLen
          /\ (store[sname] \o Up) \o rest[c] = file
      BY <1>3, <2>1, <2>5 DEF PutLink
    <3>2. store[sname] \in Seq(Cell)
      BY <3>1, ByteCells DEF IInv, FileInv, Directory, TypeOK, ServerTypeOK
    <3>3. PICK d \in Seq(Cell) : d = store[sname] \o Up
      BY <2>3, <3>2, ConcatProperties
    <3>4. d \o rest[c] = file
      BY <3>1, <3>3
    <3>5. IsPrefix(d, file)
      BY <2>2, <3>4, ConcatParts
    <3> QED BY <2>1, <2>5, <3>1, <3>3, <3>5 DEF LeftLink
  <2> QED BY <1>3, <2>4, <2>5 DEF PutLink
<1>4. CASE GetLink(c)
  BY <1>4 DEF GetLink, LeftLink
<1> QED BY <1>1, <1>2, <1>3, <1>4 DEF ServedLink, PutLink, Putting

\* A socket is closed by a client that ends, or on a connection that the
\* server has dropped.
LEMMA ClientCloses ==
    ASSUME IInv, NEW c \in Client, sock[c] # 0, OnlyClient(c), Closefd(c),
           isAuth' = isAuth, mine' = mine,
           cpc'[c] \in {"prompt", "gone"},
           \/ cpc'[c] = "gone" \/ conns[sock[c]].dead \/ conns[sock[c]].torn
           \/ sock[c] # conn /\ sock[c] <= accepted,
           cpc[c] = "QUIT" => cpc'[c] = "gone",
           crashes = 0 /\ cpc'[c] = "prompt" /\ isAuth[c] =>
               conns[sock[c]].torn /\ sock[c] = conn
    PROVE  IInv'
<1>0. PICK k : k = sock[c]
  OBVIOUS
<1>1. /\ k \in 1 .. Len(conns) /\ Len(conns) \in Nat /\ DOMAIN conns = 1 .. Len(conns)
      /\ conns \in Seq(Connection) /\ conns[k] \in Connection
      /\ conns[k].client = c /\ ~conns[k].left /\ cpc[c] # "gone"
      /\ conn \in 0 .. accepted /\ accepted \in 0 .. Len(conns)
      /\ \A d \in Client : sock[d] # 0 => sock[d] \in 1 .. Len(conns)
  BY <1>0, StateFacts DEF IInv, SockInv
<1>2. /\ conns' \in Seq(Connection) /\ Len(conns') = Len(conns)
      /\ DOMAIN conns' = 1 .. Len(conns)
      /\ \A j \in 1 .. Len(conns) : j # k => conns'[j] = conns[j]
      /\ \A j \in 1 .. Len(conns) : /\ conns'[j].client = conns[j].client
                                    /\ conns'[j].left = (conns[j].left \/ j = k)
                                    /\ conns'[j].dead = conns[j].dead
                                    /\ conns'[j].torn = conns[j].torn
                                    /\ conns'[j].authed = conns[j].authed
                                    /\ conns'[j].up = conns[j].up
  <2>1. PICK r \in Connection : r = [conns[k] EXCEPT !.left = TRUE, !.down = << >>]
    BY <1>1, EmptySeq DEF Connection
  <2>2. conns' = [conns EXCEPT ![k] = [conns[k] EXCEPT !.left = TRUE, !.down = << >>]]
    BY <1>0, <1>1 DEF Closefd, Closed, Connection
  <2>3. conns' = [conns EXCEPT ![k] = r]
    BY <2>1, <2>2
  <2>4. /\ conns' \in Seq(Connection) /\ Len(conns') = Len(conns)
        /\ \A j \in 1 .. Len(conns) : conns'[j] = IF j = k THEN r ELSE conns[j]
    BY <1>1, <2>3, ExceptSeq
  <2>5. /\ r.client = conns[k].client /\ r.left = TRUE /\ r.dead = conns[k].dead
        /\ r.torn = conns[k].torn /\ r.authed = conns[k].authed /\ r.up = conns[k].up
    BY <1>1, <2>1 DEF Connection
  <2>6. \A j \in 1 .. Len(conns) : conns[j] \in Connection
    BY StateFacts
  <2>7. \A j \in 1 .. Len(conns) : conns[j].left \in BOOLEAN
    BY <2>6 DEF Connection
  <2>8. DOMAIN conns' = 1 .. Len(conns)
    BY <2>4, LenProperties
  <2> QED BY <2>4, <2>5, <2>7, <2>8
<1>3. /\ spc' = spc /\ conn' = conn /\ accepted' = accepted /\ store' = store
      /\ fileLen' = fileLen /\ sname' = sname /\ sleft' = sleft /\ crashes' = crashes
      /\ cpc' \in [Client -> ClientPlace] /\ isAuth' \in [Client -> BOOLEAN]
      /\ mine' \in [Client -> Directory] /\ name' \in [Client -> Name]
      /\ rest' \in [Client -> Seq(Cell)] /\ want' \in [Client -> Nat]
  BY DEF OnlyClient, serverVars
<1>4. /\ \A d \in Client \ {c} : cpc'[d] = cpc[d] /\ sock'[d] = sock[d]
      /\ sock'[c] = 0 /\ sock' \in [Client -> 0 .. Len(conns)]
  <2>1. sock \in [Client -> 0 .. Len(conns)] /\ sock' = [sock EXCEPT ![c] = 0]
    BY DEF IInv, TypeOK, ClientTypeOK, Closefd
  <2>2. 0 \in 0 .. Len(conns)
    BY <1>1
  <2> QED BY <2>1, <2>2 DEF OnlyClient
<1>5. TypeOK'
  <2>1. ServerTypeOK'
    BY <1>2, <1>3 DEF IInv, TypeOK, ServerTypeOK
  <2>2. ClientTypeOK'
    <3>1. mine' \in [Client -> [Name -> File]]
      BY DEF IInv, TypeOK, ClientTypeOK
    <3> QED BY <1>2, <1>3, <1>4, <3>1 DEF ClientTypeOK
  <2> QED BY <1>2, <2>1, <2>2 DEF TypeOK
<1>6. SockInv'
  <2>1. ASSUME NEW d \in Client
        PROVE  /\ cpc'[d] \notin {"prompt", "gone"} => sock'[d] # 0
               /\ cpc'[d] = "gone" => sock'[d] = 0
               /\ sock'[d] # 0 => conns'[sock'[d]].client = d /\ ~conns'[sock'[d]].left
    <3>1. CASE d = c
      BY <1>4, <3>1
    <3>2. CASE d # c
      <4>1. sock[d] # k
        BY <1>1, <3>2 DEF IInv, SockInv
      <4> QED BY <1>1, <1>2, <1>4, <3>2, <4>1 DEF IInv, SockInv
    <3> QED BY <3>1, <3>2
  <2>2. ASSUME NEW j \in 1 .. Len(conns), ~conns'[j].left
        PROVE  sock'[conns'[j].client] = j
    <3>1. j # k /\ ~conns[j].left /\ conns[j] \in Connection
      BY <1>2, <2>2, StateFacts
    <3>2. sock[conns[j].client] = j /\ conns[j].client \in Client
      BY <1>1, <3>1 DEF IInv, SockInv, Connection
    <3>3. conns[j].client # c
      BY <1>0, <3>1, <3>2
    <3> QED BY <1>2, <1>4, <3>2, <3>3
  <2> QED BY <1>2, <2>1, <2>2 DEF SockInv
<1>7. ConnInv'
  BY <1>1, <1>2, <1>3 DEF IInv, ConnInv
<1>8. FileInv'
  BY FilesStay
<1>9. LinkInv'
  <2>1. \A d \in Client \ {c} : sock[d] # 0 => Link(d)'
    BY <1>0, <1>1, <1>2, <1>4, OthersStay
  <2> QED BY <1>4, <2>1 DEF LinkInv
<1>10. ASSUME conns[k].torn, k = conn
       PROVE  /\ cpc'[c] # "gone" => Stranded(c)'
              /\ LeftLink(mine[c][sname])'
  <2>1. TornLink(c)
    BY <1>0, <1>1, <1>10 DEF IInv, LinkInv, Link
  <2>2. TornServed(c) /\ ~conns[conn].dead /\ conn # 0
    BY <1>0, <1>1, <1>10, <2>1, StateFacts DEF TornLink
  <2>3. Up' = Up /\ conns'[conn].left /\ conns'[conn].torn /\ conns'[conn].client = c
        /\ ~conns'[conn].dead
    BY <1>1, <1>2, <1>3, <1>10, <2>2 DEF Up
  <2>4. cpc'[c] # "gone" => TornServed(c)'
    BY <1>3, <2>2, <2>3 DEF TornServed
  <2>5. cpc'[c] # "gone" => Stranded(c)'
    BY <1>3, <1>4, <2>2, <2>3, <2>4 DEF Stranded
  <2>6. PICK file : file = mine[c][sname]
    OBVIOUS
  <2>7. PICK n \in Name : n = sname
    BY DEF IInv, TypeOK, ServerTypeOK
  <2>8. LeftLink(file)'
    <3>1. {"LIST", "GET", "PUT", "QUIT"} \subseteq Request
      BY DEF Request
    <3>2. Up = Header("QUIT", 0, 0) => IsRequest(Up, "QUIT", n)
      BY DEF IsRequest
    <3> QED BY <1>3, <2>2, <2>3, <3>1, <3>2 DEF TornServed, LeftLink, Putting
  <2> QED BY <1>3, <2>5, <2>6, <2>8
<1>11. LeftInv'
  <2>1. SUFFICES ASSUME NEW j \in 1 .. Len(conns), conns'[j].left, ~conns'[j].dead
                 PROVE  /\ j > accepted => /\ cpc'[conns'[j].client] = "gone"
                                           /\ conns'[j].up = Header("OPEN", 0, 0)
                        /\ j = conn => \/ /\ cpc'[conns'[j].client] = "gone"
                                          /\ LeftLink(mine[conns[j].client][sname])'
                                       \/ /\ cpc'[conns'[j].client] # "gone"
                                          /\ Stranded(conns[j].client)'
    BY <1>2, <1>3 DEF LeftInv
  <2>2. CASE j # k
    <3>1. conns'[j] = conns[j]
      BY <1>2, <2>2
    <3>2. /\ j > accepted => /\ cpc'[conns[j].client] = "gone"
                              /\ conns[j].up = Header("OPEN", 0, 0)
          /\ j = conn => \/ /\ cpc'[conns[j].client] = "gone"
                            /\ LeftLink(mine[conns[j].client][sname])'
                         \/ /\ cpc'[conns[j].client] # "gone"
                            /\ Stranded(conns[j].client)'
      BY <1>0, <1>1, <1>2, <1>4, <2>1, <3>1, OthersStay
    <3> QED BY <3>1, <3>2
  <2>3. CASE j = k
    <3>1. ~conns[k].dead /\ Link(c) /\ conns'[j].client = c
      BY <1>0, <1>1, <1>2, <2>1, <2>3 DEF IInv, LinkInv
    <3>2. ASSUME k > accepted
          PROVE  cpc'[c] = "gone" /\ conns'[k].up = Header("OPEN", 0, 0)
      <4>0. ~conns[k].torn
        BY <1>0, <1>1, <3>1, <3>2 DEF Link, TornLink
      <4>1. k # conn /\ cpc'[c] = "gone"
        BY <1>0, <1>1, <3>1, <3>2, <4>0
      <4>2. QueuedLink(c)
        BY <1>0, <3>1, <3>2, <4>0, <4>1 DEF Link
      <4> QED BY <1>0, <1>1, <1>2, <4>1, <4>2 DEF QueuedLink
    <3>3. ASSUME k = conn, ~conns[k].torn
          PROVE  cpc'[c] = "gone" /\ LeftLink(mine[c][sname])'
      <4>1. ServedLink(c) /\ cpc'[c] = "gone"
        BY <1>0, <3>1, <3>3 DEF Link
      <4>2. PICK file : file = mine[c][sname]
        OBVIOUS
      <4>3. LeftLink(file)
        BY <4>1, <4>2, LeavesServed
      <4>4. Up' = Up
        BY <1>1, <1>2, <1>3, <3>3 DEF Up
      <4>5. LeftLink(file)'
        BY <1>3, <4>3, <4>4 DEF LeftLink
      <4>6. mine'[c][sname'] = file
        BY <1>3, <4>2
      <4> QED BY <4>1, <4>5, <4>6
    <3> QED BY <1>10, <2>3, <3>1, <3>2, <3>3
  <2> QED BY <2>2, <2>3
<1>12. AuthInv'
  <2>1. ASSUME crashes = 0, NEW d \in Client
        PROVE  /\ isAuth'[d] /\ cpc'[d] # "gone" =>
                     (sock'[d] # 0 /\ conns'[sock'[d]].authed) \/ Stranded(d)'
               /\ cpc'[d] = "AUTH" /\ conns'[sock'[d]].down = Header("AUTH_REPLY", 1, 0) =>
                     conns'[sock'[d]].authed
    <3>0. Stranded(d) => Stranded(d)'
      BY <1>0, <1>1, <1>2, <1>4, OthersStay
    <3>1. CASE d = c
      <4>1. cpc'[c] = "prompt" \/ cpc'[c] = "gone"
        OBVIOUS
      <4>2. cpc'[c] = "prompt" /\ isAuth[c] => conns[k].torn /\ k = conn
        BY <1>0, <2>1
      <4> QED BY <1>3, <1>10, <3>1, <4>1, <4>2
    <3>2. CASE d # c
      <4>1. /\ isAuth[d] /\ cpc[d] # "gone" =>
                  (sock[d] # 0 /\ conns[sock[d]].authed) \/ Stranded(d)
            /\ cpc[d] = "AUTH" => sock[d] # 0
            /\ cpc[d] = "AUTH" /\ conns[sock[d]].down = Header("AUTH_REPLY", 1, 0) =>
                  conns[sock[d]].authed
        BY <2>1 DEF IInv, AuthInv, SockInv, Down
      <4>2. sock[d] # 0 => conns'[sock[d]] = conns[sock[d]]
        BY <1>0, <1>1, <1>2, <1>4, <3>2, OthersStay
      <4> QED BY <1>4, <3>0, <3>2, <4>1, <4>2
    <3> QED BY <3>1, <3>2
  <2>2. ASSUME crashes = 0, NEW j \in 1 .. Len(conns), AsksService(conns'[j].up)
        PROVE  conns'[j].authed
    BY <1>1, <1>2, <2>2 DEF IInv, AuthInv, AuthBeforeService, AsksService
  <2>3. ASSUME crashes = 0, spc \in Putting \cup {"get"} PROVE conns'[conn].authed
    <3>1. conns[conn].authed /\ conn # 0
      BY <2>3 DEF IInv, AuthInv, AuthBeforeService, ConnInv, Putting
    <3>2. conn \in 1 .. Len(conns)
      BY <3>1, StateFacts
    <3> QED BY <1>2, <3>1, <3>2
  <2>4. AuthBeforeService'
    BY <1>2, <1>3, <2>2, <2>3 DEF AuthBeforeService, AsksService
  <2>5. AskInv'
    <3>1. cpc'[c] \notin {"AUTH", "LIST"}
      OBVIOUS
    <3>2. \A d \in Client : /\ cpc'[d] = "AUTH" => ~isAuth[d]
                            /\ cpc'[d] = "LIST" => isAuth[d]
      BY <1>4, <3>1 DEF IInv, AuthInv, AskInv
    <3> QED BY <3>2 DEF AskInv
  <2>6. crashes' = 0 => \A d \in Client :
          /\ isAuth'[d] /\ cpc'[d] # "gone" =>
                (sock'[d] # 0 /\ conns'[sock'[d]].authed) \/ Stranded(d)'
          /\ cpc'[d] = "AUTH" /\ Down(d)' = Header("AUTH_REPLY", 1, 0) =>
                conns'[sock'[d]].authed
    BY <1>3, <2>1 DEF Down
  <2> QED BY <2>4, <2>5, <2>6 DEF AuthInv
<1> QED BY <1>5, <1>6, <1>7, <1>8, <1>9, <1>11, <1>12 DEF IInv

\* A program without a connection ends.
LEMMA EndsUnconnected ==
    ASSUME IInv, NEW c \in Client, sock[c] = 0, cpc[c] # "gone", Goes(c, "gone"),
           UNCHANGED <<conns, sock, isAuth, mine, name, rest, want>>, UNCHANGED serverVars
    PROVE  IInv'
<1>1. /\ cpc' = [cpc EXCEPT ![c] = "gone"] /\ cpc \in [Client -> ClientPlace]
      /\ cpc' \in [Client -> ClientPlace] /\ cpc'[c] = "gone"
      /\ \A d \in Client \ {c} : cpc'[d] = cpc[d]
  BY DEF Goes, IInv, TypeOK, ClientTypeOK, ClientPlace
<1>2. /\ spc' = spc /\ conn' = conn /\ accepted' = accepted /\ store' = store
      /\ fileLen' = fileLen /\ sname' = sname /\ sleft' = sleft /\ crashes' = crashes
      /\ conns' = conns /\ sock' = sock /\ isAuth' = isAuth /\ mine' = mine
      /\ name' = name /\ rest' = rest /\ want' = want
  BY DEF serverVars
<1>3. OnlyClient(c)
  BY <1>1, <1>2 DEF OnlyClient, IInv, TypeOK, ClientTypeOK, FileInv, Getting
<1>4. TypeOK'
  BY <1>1, <1>2 DEF IInv, TypeOK, ServerTypeOK, ClientTypeOK
<1>5. SockInv' /\ ConnInv' /\ FileInv'
  <2>1. SockInv'
    BY <1>1, <1>2 DEF IInv, SockInv
  <2>2. ConnInv'
    BY <1>2 DEF IInv, ConnInv
  <2>3. FileInv'
    BY <1>1, <1>2 DEF IInv, FileInv, Getting
  <2> QED BY <2>1, <2>2, <2>3
<1>a. sock'[c] \in {0, sock[c]} /\ \A j \in 1 .. Len(conns) : conns'[j] = conns[j]
  BY <1>2
<1>6. LinkInv'
  <2>1. \A d \in Client \ {c} : sock[d] # 0 => Link(d)'
    BY <1>3, <1>a, OthersStay
  <2> QED BY <1>2, <2>1 DEF LinkInv
<1>7. LeftInv'
  <2>1. DOMAIN conns = 1 .. Len(conns)
    BY StateFacts
  <2>2. SUFFICES ASSUME NEW j \in 1 .. Len(conns), conns[j].left, ~conns[j].dead
                 PROVE  /\ j > accepted => /\ cpc'[conns[j].client] = "gone"
                                           /\ conns[j].up = Header("OPEN", 0, 0)
                        /\ j = conn => \/ /\ cpc'[conns[j].client] = "gone"
                                          /\ LeftLink(mine[conns[j].client][sname])'
                                       \/ /\ cpc'[conns[j].client] # "gone"
                                          /\ Stranded(conns[j].client)'
    BY <1>2, <2>1 DEF LeftInv
  <2> QED BY <1>3, <1>a, <2>2, OthersStay
<1>8. AuthInv'
  <2>1. AskInv'
    BY <1>1, <1>2 DEF IInv, AuthInv, AskInv
  <2>2. ASSUME crashes = 0, NEW d \in Client
        PROVE  /\ isAuth[d] /\ cpc'[d] # "gone" =>
                     (sock[d] # 0 /\ conns[sock[d]].authed) \/ Stranded(d)'
               /\ cpc'[d] = "AUTH" /\ Down(d) = Header("AUTH_REPLY", 1, 0) =>
                     conns[sock[d]].authed
    <3>1. Stranded(d) => Stranded(d)'
      BY <1>3, <1>a, OthersStay
    <3>2. cpc'[d] # "gone" => cpc'[d] = cpc[d]
      BY <1>1
    <3> QED BY <2>2, <3>1, <3>2 DEF IInv, AuthInv
  <2>3. AuthBeforeService'
    BY <1>2 DEF IInv, AuthInv, AuthBeforeService
  <2> QED BY <1>2, <2>1, <2>2, <2>3 DEF AuthInv, Down
<1> QED BY <1>4, <1>5, <1>6, <1>7, <1>8 DEF IInv

LEMMA Opened ==
    ASSUME IInv, NEW c \in Client, Open(c), UNCHANGED serverVars
    PROVE  IInv'
<1>0. PICK k : k = Len(conns) + 1
  OBVIOUS
<1>1. /\ cpc[c] = "prompt" /\ sock[c] = 0
      /\ conns' = Append(conns, NewConnection(c))
      /\ sock' = [sock EXCEPT ![c] = Len(conns')]
      /\ cpc' = [cpc EXCEPT ![c] = "OPEN"]
      /\ isAuth' = isAuth /\ mine' = mine /\ name' = name /\ rest' = rest /\ want' = want
      /\ spc' = spc /\ conn' = conn /\ accepted' = accepted /\ store' = store
      /\ fileLen' = fileLen /\ sname' = sname /\ sleft' = sleft /\ crashes' = crashes
  BY DEF Open, Goes, serverVars
<1>2. /\ conns \in Seq(Connection) /\ Len(conns) \in Nat /\ DOMAIN conns = 1 .. Len(conns)
      /\ conn \in 0 .. accepted /\ accepted \in 0 .. Len(conns)
      /\ \A d \in Client : /\ sock[d] \in 0 .. Len(conns)
                           /\ sock[d] # 0 => sock[d] \in 1 .. Len(conns)
  BY StateFacts
<1>3. PICK new \in Connection : new = NewConnection(c)
  <2>1. Header("OPEN", 0, 0) \in Seq(Cell) /\ << >> \in Seq(Cell)
    BY MessageTypes, HeaderFacts, EmptySeq DEF Request
  <2> QED BY <2>1 DEF NewConnection, Connection
<1>4. /\ new.client = c /\ new.up = Header("OPEN", 0, 0) /\ new.down = << >>
      /\ new.left = FALSE /\ new.dead = FALSE /\ new.authed = FALSE
      /\ new.torn = FALSE
  BY <1>3 DEF NewConnection
<1>5. /\ conns' \in Seq(Connection) /\ Len(conns') = k /\ DOMAIN conns' = 1 .. k
      /\ \A j \in 1 .. Len(conns) : conns'[j] = conns[j]
      /\ conns'[k] = new
  <2>1. conns' = Append(conns, new)
    BY <1>1, <1>3
  <2>2. /\ conns' \in Seq(Connection) /\ Len(conns') = k
        /\ \A j \in 1 .. Len(conns) : conns'[j] = conns[j]
        /\ conns'[k] = new
    BY <1>0, <1>2, <2>1, AppendProperties
  <2> QED BY <2>2, LenProperties
<1>6. /\ k \in Nat \ {0} /\ k > accepted /\ k # conn
      /\ \A j : j \in 1 .. k <=> j \in 1 .. Len(conns) \/ j = k
      /\ \A j \in 1 .. Len(conns) : j # k
  BY <1>0, <1>2
<1>7. /\ cpc' \in [Client -> ClientPlace] /\ cpc'[c] = "OPEN"
      /\ sock' \in [Client -> 0 .. k] /\ sock'[c] = k
      /\ \A d \in Client \ {c} : cpc'[d] = cpc[d] /\ sock'[d] = sock[d]
  <2>1. cpc \in [Client -> ClientPlace] /\ sock \in [Client -> 0 .. Len(conns)]
    BY DEF IInv, TypeOK, ClientTypeOK
  <2>2. sock' = [sock EXCEPT ![c] = k]
    BY <1>1, <1>5
  <2>3. k \in 0 .. k /\ \A j \in 0 .. Len(conns) : j \in 0 .. k
    BY <1>0, <1>2
  <2>4. sock' \in [Client -> 0 .. k]
    BY <2>1, <2>2, <2>3
  <2> QED BY <1>1, <2>1, <2>2, <2>4 DEF ClientPlace, Request
<1>8. OnlyClient(c)
  <2>1. cpc'[c] \notin {"PUT", "putdata"} \cup Getting
    BY <1>7 DEF Getting
  <2> QED BY <1>1, <1>7, <2>1 DEF OnlyClient, serverVars, IInv, TypeOK, ClientTypeOK, FileInv
<1>9. TypeOK'
  <2>1. ServerTypeOK'
    <3>1. accepted' \in 0 .. Len(conns')
      BY <1>0, <1>1, <1>2, <1>5
    <3> QED BY <1>1, <3>1 DEF IInv, TypeOK, ServerTypeOK
  <2>2. ClientTypeOK'
    BY <1>1, <1>5, <1>7 DEF IInv, TypeOK, ClientTypeOK
  <2> QED BY <1>5, <2>1, <2>2 DEF TypeOK
<1>10. SockInv'
  <2>1. ASSUME NEW d \in Client
        PROVE  /\ cpc'[d] \notin {"prompt", "gone"} => sock'[d] # 0
               /\ cpc'[d] = "gone" => sock'[d] = 0
               /\ sock'[d] # 0 => conns'[sock'[d]].client = d /\ ~conns'[sock'[d]].left
    <3>1. CASE d = c
      BY <1>4, <1>5, <1>6, <1>7, <3>1
    <3>2. CASE d # c
      BY <1>2, <1>5, <1>7, <3>2 DEF IInv, SockInv
    <3> QED BY <3>1, <3>2
  <2>2. ASSUME NEW j \in 1 .. k, ~conns'[j].left PROVE sock'[conns'[j].client] = j
    <3>1. CASE j = k
      BY <1>4, <1>5, <1>7, <3>1
    <3>2. CASE j \in 1 .. Len(conns)
      <4>a. conns'[j] = conns[j] /\ j # 0 /\ j \in DOMAIN conns
        BY <1>2, <1>5, <3>2
      <4>b. conns[j].client \in Client
        BY <3>2, StateFacts DEF Connection
      <4>1. /\ sock[conns[j].client] = j /\ conns[j].client \in Client
            /\ conns'[j] = conns[j] /\ j # 0
        BY <2>2, <4>a, <4>b DEF IInv, SockInv
      <4>2. conns[j].client # c
        BY <1>1, <4>1
      <4> QED BY <1>7, <4>1, <4>2
    <3> QED BY <1>6, <2>2, <3>1, <3>2
  <2> QED BY <1>5, <2>1, <2>2 DEF SockInv
<1>11. ConnInv'
  <2>1. ASSUME NEW j \in 1 .. k, conns'[j].dead
        PROVE  crashes > 0 /\ j <= accepted /\ j # conn /\ conns'[j].up = << >>
    <3>1. j \in 1 .. Len(conns) /\ conns'[j] = conns[j]
      BY <1>4, <1>5, <1>6, <2>1
    <3> QED BY <1>2, <2>1, <3>1 DEF IInv, ConnInv
  <2> QED BY <1>1, <1>5, <2>1 DEF IInv, ConnInv
<1>12. FileInv'
  BY <1>8, FilesStay
<1>a. /\ cpc[c] # "gone" /\ sock'[c] > accepted
      /\ \A j \in 1 .. Len(conns) : j # sock[c] => conns'[j] = conns[j]
  BY <1>1, <1>5, <1>6, <1>7
<1>13. LinkInv'
  <2>1. \A d \in Client \ {c} : sock[d] # 0 => Link(d)'
    BY <1>8, <1>a, OthersStay
  <2>2. QueuedLink(c)'
    BY <1>4, <1>5, <1>7 DEF QueuedLink, Down
  <2>3. Link(c)'
    BY <1>1, <1>4, <1>5, <1>6, <1>7, <2>2 DEF Link
  <2> QED BY <1>7, <2>1, <2>3 DEF LinkInv
<1>14. LeftInv'
  <2>1. SUFFICES ASSUME NEW j \in 1 .. k, conns'[j].left, ~conns'[j].dead
                 PROVE  /\ j > accepted => /\ cpc'[conns'[j].client] = "gone"
                                           /\ conns'[j].up = Header("OPEN", 0, 0)
                        /\ j = conn => \/ /\ cpc'[conns'[j].client] = "gone"
                                          /\ LeftLink(mine[conns[j].client][sname])'
                                       \/ /\ cpc'[conns'[j].client] # "gone"
                                          /\ Stranded(conns[j].client)'
    BY <1>1, <1>5 DEF LeftInv
  <2>2. j \in 1 .. Len(conns) /\ conns'[j] = conns[j]
    BY <1>4, <1>5, <1>6, <2>1
  <2> QED BY <1>8, <1>a, <2>1, <2>2, OthersStay
<1>15. AuthInv'
  <2>1. crashes = 0 /\ isAuth[c] => Stranded(c)
    BY <1>1 DEF IInv, AuthInv
  <2>2. ASSUME crashes = 0, NEW d \in Client
        PROVE  /\ isAuth[d] /\ cpc'[d] # "gone" =>
                     (sock'[d] # 0 /\ conns'[sock'[d]].authed) \/ Stranded(d)'
               /\ cpc'[d] = "AUTH" /\ conns'[sock'[d]].down = Header("AUTH_REPLY", 1, 0) =>
                     conns'[sock'[d]].authed
    <3>0. Stranded(d) => Stranded(d)'
      BY <1>8, <1>a, OthersStay
    <3>1. CASE d = c
      BY <1>7, <2>1, <2>2, <3>0, <3>1
    <3>2. CASE d # c
      <4>1. /\ isAuth[d] /\ cpc[d] # "gone" =>
                  (sock[d] # 0 /\ conns[sock[d]].authed) \/ Stranded(d)
            /\ cpc[d] = "AUTH" => sock[d] # 0
            /\ cpc[d] = "AUTH" /\ conns[sock[d]].down = Header("AUTH_REPLY", 1, 0) =>
                  conns[sock[d]].authed
        BY <2>2 DEF IInv, AuthInv, SockInv, Down
      <4>2. sock[d] # 0 => conns'[sock[d]] = conns[sock[d]]
        BY <1>2, <1>5
      <4> QED BY <1>7, <3>0, <3>2, <4>1, <4>2
    <3> QED BY <3>1, <3>2
  <2>3. ASSUME crashes = 0, NEW j \in 1 .. k, AsksService(conns'[j].up)
        PROVE  conns'[j].authed
    <3>1. CASE j = k
      <4>1. conns'[j].up = Header("OPEN", 0, 0)
        BY <1>4, <1>5, <3>1
      <4>2. IsRequest(Header("OPEN", 0, 0), "OPEN", sname) /\ sname \in Name
        BY DEF IsRequest, IInv, TypeOK, ServerTypeOK
      <4>3. \A i \in DOMAIN Header("OPEN", 0, 0) :
              Header("OPEN", 0, 0)[i] \in HeaderCell => Header("OPEN", 0, 0)[i].type = "OPEN"
        BY <4>2, RequestFacts DEF Request
      <4> QED BY <2>3, <4>1, <4>3 DEF AsksService
    <3>2. CASE j \in 1 .. Len(conns)
      <4>1. conns'[j] = conns[j]
        BY <1>5, <3>2
      <4> QED BY <1>2, <2>3, <3>2, <4>1 DEF IInv, AuthInv, AuthBeforeService, AsksService
    <3> QED BY <1>6, <3>1, <3>2
  <2>4. ASSUME crashes = 0, spc \in Putting \cup {"get"} PROVE conns'[conn].authed
    <3>1. conns[conn].authed /\ conn # 0
      BY <2>4 DEF IInv, AuthInv, AuthBeforeService, ConnInv, Putting
    <3>2. conn \in 1 .. Len(conns)
      BY <3>1, StateFacts
    <3> QED BY <1>5, <3>1, <3>2
  <2>5. AuthBeforeService'
    BY <1>1, <1>5, <2>3, <2>4 DEF AuthBeforeService, AsksService
  <2>6. AskInv'
    BY <1>1, <1>7 DEF IInv, AuthInv, AskInv
  <2> QED BY <1>1, <2>2, <2>5, <2>6 DEF AuthInv, Down
<1> QED BY <1>9, <1>10, <1>11, <1>12, <1>13, <1>14, <1>15 DEF IInv

-----------------------------------------------------------------------------
(* What a client does to its connection.                                   *)

LEMMA OwnRewrites ==
    ASSUME IInv, NEW c \in Client, sock[c] # 0, NEW up \in Seq(Cell), NEW down \in Seq(Cell),
           conns' = [conns EXCEPT ![sock[c]] =
                        [conns[sock[c]] EXCEPT !.up = up, !.down = down]]
    PROVE  Rewrites(sock[c], up, down, conns[sock[c]].authed)
<1>1. PICK k : k = sock[c]
  OBVIOUS
<1>2. conns \in Seq(Connection) /\ k \in 1 .. Len(conns) /\ conns[k] \in Connection
  BY <1>1, StateFacts
<1>3. PICK r \in Connection : r = [conns[k] EXCEPT !.up = up, !.down = down]
  BY <1>2 DEF Connection
<1>4. /\ r.client = conns[k].client /\ r.left = conns[k].left /\ r.dead = conns[k].dead
      /\ r.up = up /\ r.down = down /\ r.authed = conns[k].authed
      /\ r.torn = conns[k].torn
  BY <1>2, <1>3 DEF Connection
<1>5. conns' = [conns EXCEPT ![k] = r]
  BY <1>1, <1>3
<1>6. Rewrites(k, r.up, r.down, r.authed)
  BY <1>2, <1>4, <1>5, RecordRewritten
<1> QED BY <1>1, <1>4, <1>6

LEMMA SendsRewrites ==
    ASSUME IInv, NEW c \in Client, sock[c] # 0, NEW cells \in Seq(Cell), Sends(c, cells),
           NEW up, up = IF conns[sock[c]].dead THEN conns[sock[c]].up
                                               ELSE conns[sock[c]].up \o cells
    PROVE  Rewrites(sock[c], up, conns[sock[c]].down, conns[sock[c]].authed)
<1>1. PICK k : k = sock[c]
  OBVIOUS
<1>2. conns[k] \in Connection
  BY <1>1, StateFacts
<1>3. conns[k].up \in Seq(Cell) /\ conns[k].down \in Seq(Cell)
  BY <1>2 DEF Connection
<1>4. up \in Seq(Cell)
  BY <1>1, <1>3, ConcatProperties
<1>5. conns' = [conns EXCEPT ![k].up = up]
  BY <1>1 DEF Sends
<1>6. PICK down \in Seq(Cell) : down = conns[k].down
  BY <1>3
<1>7. conns' = [conns EXCEPT ![k] = [conns[k] EXCEPT !.up = up, !.down = down]]
  BY <1>2, <1>5, <1>6 DEF Connection
<1>8. conns' = [conns EXCEPT ![sock[c]] =
                   [conns[sock[c]] EXCEPT !.up = up, !.down = down]]
  BY <1>1, <1>7
<1>9. Rewrites(sock[c], up, down, conns[sock[c]].authed)
  BY <1>4, <1>8, OwnRewrites
<1> QED BY <1>1, <1>6, <1>9

LEMMA ReadsRewrites ==
    ASSUME IInv, NEW c \in Client, sock[c] # 0, NEW n \in Nat, Reads(c, n)
    PROVE  /\ Drop(Down(c), n) \in Seq(Cell)
           /\ Rewrites(sock[c], conns[sock[c]].up, Drop(Down(c), n), conns[sock[c]].authed)
<1>1. PICK k : k = sock[c]
  OBVIOUS
<1>2. conns[k] \in Connection
  BY <1>1, StateFacts
<1>3. conns[k].up \in Seq(Cell) /\ conns[k].down \in Seq(Cell)
  BY <1>2 DEF Connection
<1>4. PICK down \in Seq(Cell) : down = Drop(conns[k].down, n)
  BY <1>3, DropIsSeq
<1>5. conns' = [conns EXCEPT ![k].down = down]
  BY <1>1, <1>4 DEF Reads
<1>6. PICK up \in Seq(Cell) : up = conns[k].up
  BY <1>3
<1>7. conns' = [conns EXCEPT ![k] = [conns[k] EXCEPT !.up = up, !.down = down]]
  BY <1>2, <1>5, <1>6 DEF Connection
<1>8. conns' = [conns EXCEPT ![sock[c]] =
                   [conns[sock[c]] EXCEPT !.up = up, !.down = down]]
  BY <1>1, <1>7
<1>9. Rewrites(sock[c], up, down, conns[sock[c]].authed)
  BY <1>8, OwnRewrites
<1> QED BY <1>1, <1>4, <1>6, <1>9 DEF Down

-----------------------------------------------------------------------------
(* Commands.                                                               *)

\* At its prompt, with nothing on the way, a client and the server wait for the
\* next command, the client perhaps before the rest of a listing.
LEMMA PromptFacts ==
    ASSUME IInv, NEW c \in Client, AtPrompt(c), Settled(c)
    PROVE  /\ sock[c] # 0 /\ conns[sock[c]].up = << >>
           /\ conns[sock[c]].dead \/ (conn = sock[c] /\ spc = "cmd")
           /\ IF conns[sock[c]].torn THEN TornLink(c) ELSE conns[sock[c]].down = << >>
<1>1. cpc[c] = "prompt" /\ sock[c] # 0 /\ Link(c)
  BY DEF AtPrompt, IInv, LinkInv
<1>2. conns[sock[c]].up = << >> /\ ~(conn = sock[c] /\ spc \in Putting)
  BY <1>1 DEF Settled
<1>3. /\ cpc[c] \notin Request /\ ~GetComes(c)
      /\ \A s : ~IsDismissal(s, cpc[c])
      /\ \A s : IsAnswer(s, cpc[c]) => s = << >>
  BY <1>1 DEF Request, GetComes, IsDismissal, IsAnswer
<1>a. CASE conns[sock[c]].torn
  <2>1. TornLink(c)
    BY <1>1, <1>a DEF Link
  <2>2. ~conns[sock[c]].dead => conn = sock[c] /\ TornServed(c) /\ ~conns[conn].left
    BY <1>1, <2>1 DEF TornLink, IInv, SockInv
  <2> QED BY <1>1, <1>2, <1>a, <2>1, <2>2 DEF TornServed, Putting, Up
<1>4. CASE ~conns[sock[c]].torn /\ conns[sock[c]].dead
  BY <1>1, <1>2, <1>3, <1>4 DEF Link, DeadLink, Down
<1>5. CASE ~conns[sock[c]].torn /\ ~conns[sock[c]].dead
  <2>1. ~QueuedLink(c) /\ ~DismissedLink(c)
    BY <1>1, <1>3 DEF QueuedLink, DismissedLink
  <2>2. ServedLink(c) /\ conn = sock[c]
    BY <1>1, <1>5, <2>1 DEF Link
  <2>3. ~GetLink(c) /\ ~PutLink(c)
    BY <1>2, <1>3, <2>2 DEF GetLink, PutLink, Putting
  <2> QED BY <1>1, <1>2, <1>3, <1>5, <2>2, <2>3 DEF ServedLink, Down
<1> QED BY <1>a, <1>4, <1>5

LEMMA CommandSent ==
    ASSUME IInv, NEW c \in Client, AtPrompt(c), Settled(c),
           NEW type \in Request \ {"OPEN"}, NEW cells, Sends(c, cells), Goes(c, type),
           NEW n \in Name, IsRequest(cells, type, n), name' = [name EXCEPT ![c] = n],
           UNCHANGED <<sock, isAuth, mine, rest, want>>, UNCHANGED serverVars,
           type = "AUTH" => ~isAuth[c],
           type \in {"LIST", "GET", "PUT"} => isAuth[c],
           type = "PUT" => mine[c][n] # NoFile
    PROVE  IInv'
<1>0. PICK k : k = sock[c]
  OBVIOUS
<1>1. /\ k # 0 /\ conns[k].up = << >>
      /\ conns[k].dead \/ (conn = k /\ spc = "cmd")
      /\ IF conns[k].torn THEN TornLink(c) ELSE conns[k].down = << >>
  BY <1>0, PromptFacts
<1>a. PICK down : down = conns[k].down
  OBVIOUS
<1>2. cells \in Seq(Cell) /\ \A i \in DOMAIN cells : cells[i] \in HeaderCell => cells[i].type = type
  BY RequestFacts
<1>3. PICK up : up = IF conns[k].dead THEN << >> ELSE cells
  OBVIOUS
<1>4. Rewrites(sock[c], up, down, conns[sock[c]].authed)
  <2>1. conns[k].up \o cells = cells
    BY <1>1, <1>2, ConcatEmptySeq
  <2>2. up = IF conns[sock[c]].dead THEN conns[sock[c]].up ELSE conns[sock[c]].up \o cells
    BY <1>0, <1>1, <1>3, <2>1
  <2>3. Rewrites(sock[c], up, conns[sock[c]].down, conns[sock[c]].authed)
    BY <1>0, <1>1, <1>2, <2>2, SendsRewrites
  <2> QED BY <1>0, <1>a, <2>3
<1>5. /\ cpc' \in [Client -> ClientPlace] /\ cpc'[c] = type
      /\ name' \in [Client -> Name] /\ name'[c] = n
      /\ \A d \in Client \ {c} : cpc'[d] = cpc[d] /\ name'[d] = name[d]
      /\ sock' = sock /\ isAuth' = isAuth /\ mine' = mine /\ rest' = rest /\ want' = want
      /\ spc' = spc /\ conn' = conn /\ accepted' = accepted
  <2>1. cpc \in [Client -> ClientPlace] /\ name \in [Client -> Name] /\ type \in ClientPlace
    BY DEF IInv, TypeOK, ClientTypeOK, ClientPlace
  <2> QED BY <2>1 DEF Goes, serverVars
<1>6. OnlyClient(c)
  <2>1. cpc'[c] \in {"PUT", "putdata"} \cup Getting => type = "PUT"
    BY <1>5 DEF Getting, Request
  <2>2. cpc'[c] \in {"PUT", "putdata"} \cup Getting => mine'[c][name'[c]] # NoFile
    BY <1>5, <2>1
  <2> QED BY <1>5, <2>2 DEF OnlyClient, IInv, TypeOK, ClientTypeOK, FileInv
<1>7. /\ conns'[k].up = up /\ conns'[k].down = down /\ conns'[k].dead = conns[k].dead
      /\ conns'[k].torn = conns[k].torn /\ conns'[k].left = conns[k].left
  BY <1>0, <1>4 DEF Rewrites
<1>8. Down(c)' = down /\ Down(c) = down /\ sock'[c] = k /\ cpc'[c] \in Request
  BY <1>0, <1>5, <1>7, <1>a DEF Down
<1>9. ASSUME ~conns[k].torn
      PROVE  Link(c)' /\ ~(type = "AUTH" /\ down = Header("AUTH_REPLY", 1, 0))
  <2>0. down = << >>
    BY <1>1, <1>9, <1>a
  <2>1. Link(c)'
    <3>1. CASE conns[k].dead
      <4>1. DeadLink(c)'
        BY <1>8, <2>0 DEF DeadLink
      <4> QED BY <1>7, <1>8, <1>9, <3>1, <4>1 DEF Link
    <3>2. CASE ~conns[k].dead
      <4>1. conn' = k /\ spc' = "cmd" /\ Up' = cells
        BY <1>1, <1>3, <1>5, <1>7, <3>2 DEF Up
      <4>2. IsRequest(Up', cpc'[c], name'[c])
        BY <1>5, <4>1
      <4>3. ServedLink(c)'
        BY <1>8, <2>0, <4>1, <4>2 DEF ServedLink, IsRequest
      <4> QED BY <1>7, <1>8, <1>9, <3>2, <4>1, <4>3 DEF Link
    <3> QED BY <3>1, <3>2
  <2>2. << >> # Header("AUTH_REPLY", 1, 0)
    BY MessageTypes, SeenBare DEF Shows
  <2> QED BY <2>0, <2>1, <2>2
<1>10. ASSUME conns[k].torn
       PROVE  Link(c)' /\ ~(type = "AUTH" /\ down = Header("AUTH_REPLY", 1, 0))
  <2>1. TornLink(c) /\ type \in {"LIST", "GET", "PUT", "QUIT"}
    BY <1>1, <1>10 DEF TornLink, Request
  <2>2. TornLink(c)'
    <3>1. ~conns[k].dead => TornServed(c)' /\ conn' = k
      <4>1. ASSUME ~conns[k].dead PROVE conn' = k /\ spc' = "cmd" /\ Up' = cells
        BY <1>1, <1>3, <1>5, <1>7, <4>1 DEF Up
      <4>2. ~conns[k].left
        BY <1>0, <1>1 DEF IInv, SockInv
      <4>3. type = "QUIT" => cells = Header("QUIT", 0, 0)
        BY DEF IsRequest
      <4>4. ASSUME ~conns[k].dead PROVE IsRequest(Up', type, n)
        BY <4>1, <4>4
      <4> QED BY <1>5, <1>7, <2>1, <4>1, <4>2, <4>3, <4>4 DEF TornServed, IsRequest
    <3> QED BY <1>0, <1>5, <1>7, <1>8, <2>1, <3>1 DEF TornLink
  <2>3. Link(c)'
    BY <1>7, <1>8, <1>10, <2>2 DEF Link
  <2> QED BY <1>5, <2>1, <2>3
<1>11. OwnClient(c, up, down)
  <2>1. cpc'[c] # "gone"
    BY <1>8 DEF Request
  <2>2. conns[sock[c]].dead => up = << >>
    BY <1>0, <1>3
  <2>3. crashes = 0 /\ isAuth[c] => conns[sock[c]].authed
    <3>1. ~Stranded(c)
      BY <1>0, <1>1, NotStranded DEF AtPrompt
    <3> QED BY <3>1 DEF IInv, AuthInv, AtPrompt
  <2>4. Link(c)' /\ ~(type = "AUTH" /\ down = Header("AUTH_REPLY", 1, 0))
    BY <1>9, <1>10
  <2>5. AsksService(up) => isAuth[c]
    <3>1. AsksService(up) => up # << >>
      BY DEF AsksService
    <3> QED BY <1>2, <1>3, <3>1 DEF AsksService
  <2>6. /\ cpc'[c] = "AUTH" => ~isAuth'[c]
        /\ cpc'[c] = "LIST" => isAuth'[c]
    BY <1>5
  <2> QED BY <1>5, <2>1, <2>2, <2>3, <2>4, <2>5, <2>6 DEF OwnClient
<1> QED BY <1>0, <1>1, <1>4, <1>5, <1>6, <1>11, ClientStays

LEMMA SameName ==
    ASSUME IInv, NEW c \in Client, name' = name
    PROVE  name[c] \in Name /\ name' = [name EXCEPT ![c] = name[c]]
BY DEF IInv, TypeOK, ClientTypeOK

LEMMA AuthenSent ==
    ASSUME IInv, NEW c \in Client, Settled(c), Authen(c), UNCHANGED serverVars PROVE IInv'
<1>1. PICK right \in BOOLEAN : Sends(c, Append(Header("AUTH", 0, 0), [right |-> right]))
  BY DEF Authen
<1>2. PICK cells : cells = Append(Header("AUTH", 0, 0), [right |-> right])
  OBVIOUS
<1>3. PICK n : n = name[c]
  OBVIOUS
<1>4. n \in Name /\ name' = [name EXCEPT ![c] = n]
  BY <1>3, SameName DEF Authen
<1>5. IsRequest(cells, "AUTH", n) /\ Sends(c, cells)
  BY <1>1, <1>2 DEF IsRequest
<1>6. /\ AtPrompt(c) /\ ~isAuth[c] /\ Goes(c, "AUTH")
      /\ UNCHANGED <<sock, isAuth, mine, rest, want>>
      /\ "AUTH" \in Request \ {"OPEN"}
  BY DEF Authen, Request
<1> QED BY <1>4, <1>5, <1>6, CommandSent

LEMMA LsSent ==
    ASSUME IInv, NEW c \in Client, Settled(c), Ls(c), UNCHANGED serverVars PROVE IInv'
<1>1. PICK cells : cells = Header("LIST", 0, 0)
  OBVIOUS
<1>2. PICK n : n = name[c]
  OBVIOUS
<1>3. n \in Name /\ name' = [name EXCEPT ![c] = n]
  BY <1>2, SameName DEF Ls
<1>4. IsRequest(cells, "LIST", n) /\ Sends(c, cells)
  BY <1>1 DEF IsRequest, Ls
<1>5. /\ AtPrompt(c) /\ isAuth[c] /\ Goes(c, "LIST")
      /\ UNCHANGED <<sock, isAuth, mine, rest, want>>
      /\ "LIST" \in Request \ {"OPEN"}
  BY DEF Ls, LoggedIn, Request
<1> QED BY <1>3, <1>4, <1>5, CommandSent

LEMMA GetSent ==
    ASSUME IInv, NEW c \in Client, Settled(c), MyGet(c), UNCHANGED serverVars PROVE IInv'
<1>1. PICK n \in Name : /\ Sends(c, Append(Header("GET", 0, 0), [name |-> n]))
                        /\ name' = [name EXCEPT ![c] = n]
  BY DEF MyGet
<1>2. PICK cells : cells = Append(Header("GET", 0, 0), [name |-> n])
  OBVIOUS
<1>3. IsRequest(cells, "GET", n) /\ Sends(c, cells)
  BY <1>1, <1>2 DEF IsRequest
<1>4. /\ AtPrompt(c) /\ isAuth[c] /\ Goes(c, "GET")
      /\ UNCHANGED <<sock, isAuth, mine, rest, want>>
      /\ "GET" \in Request \ {"OPEN"}
  BY DEF MyGet, LoggedIn, Request
<1> QED BY <1>1, <1>3, <1>4, CommandSent

LEMMA PutSent ==
    ASSUME IInv, NEW c \in Client, Settled(c), MyPut(c), UNCHANGED serverVars PROVE IInv'
<1>1. PICK n \in Name : /\ mine[c][n] # NoFile
                        /\ Sends(c, Append(Header("PUT", 0, 0), [name |-> n]))
                        /\ name' = [name EXCEPT ![c] = n]
  BY DEF MyPut
<1>2. PICK cells : cells = Append(Header("PUT", 0, 0), [name |-> n])
  OBVIOUS
<1>3. IsRequest(cells, "PUT", n) /\ Sends(c, cells)
  BY <1>1, <1>2 DEF IsRequest
<1>4. /\ AtPrompt(c) /\ isAuth[c] /\ Goes(c, "PUT")
      /\ UNCHANGED <<sock, isAuth, mine, rest, want>>
      /\ "PUT" \in Request \ {"OPEN"}
  BY DEF MyPut, LoggedIn, Request
<1> QED BY <1>1, <1>3, <1>4, CommandSent

LEMMA QuitSent ==
    ASSUME IInv, NEW c \in Client, Settled(c), Quit(c), UNCHANGED serverVars PROVE IInv'
<1>1. CASE sock[c] = 0
  <2>1. /\ cpc[c] # "gone" /\ Goes(c, "gone")
        /\ UNCHANGED <<conns, sock, isAuth, mine, name, rest, want>>
    BY <1>1 DEF Quit
  <2> QED BY <1>1, <2>1, EndsUnconnected
<1>2. CASE sock[c] # 0
  <2>1. PICK cells : cells = Header("QUIT", 0, 0)
    OBVIOUS
  <2>2. PICK n : n = name[c]
    OBVIOUS
  <2>3. n \in Name /\ name' = [name EXCEPT ![c] = n]
    BY <2>2, SameName DEF Quit
  <2>4. IsRequest(cells, "QUIT", n) /\ Sends(c, cells)
    BY <1>2, <2>1 DEF IsRequest, Quit
  <2>5. /\ AtPrompt(c) /\ Goes(c, "QUIT")
        /\ UNCHANGED <<sock, isAuth, mine, rest, want>>
        /\ "QUIT" \in Request \ {"OPEN"}
    BY <1>2 DEF Quit, AtPrompt, Request
  <2> QED BY <2>3, <2>4, <2>5, CommandSent
<1> QED BY <1>1, <1>2

-----------------------------------------------------------------------------
(* Replies.                                                                *)

\* Whatever a client reads while it waits for a reply is that reply, if no listing
\* has been cut off.
LEMMA ReplyComes ==
    ASSUME IInv, NEW c \in Client, cpc[c] \in Request, Down(c) # << >>,
           ~conns[sock[c]].torn
    PROVE  /\ sock[c] # 0
           /\ \/ /\ IsAnswer(Down(c), cpc[c])
                 /\ ~conns[sock[c]].dead => conn = sock[c] /\ spc = "cmd" /\ Up = << >>
              \/ /\ IsDismissal(Down(c), cpc[c])
                 /\ ~conns[sock[c]].dead => sock[c] # conn /\ sock[c] <= accepted
              \/ /\ cpc[c] = "PUT" /\ Down(c) = Header("PUT_REPLY", 0, 0)
                 /\ ~conns[sock[c]].dead => /\ conn = sock[c] /\ PutLink(c)
                                            /\ spc = "putfirst" /\ Up = << >>
              \/ /\ cpc[c] = "GET" /\ IsFileReply(Down(c))
                 /\ ~conns[sock[c]].dead => conn = sock[c] /\ GetLink(c)
<1>1. sock[c] # 0 /\ Link(c)
  BY DEF IInv, SockInv, LinkInv, Request
<1>2. CASE conns[sock[c]].dead
  BY <1>1, <1>2 DEF Link, DeadLink, GetComes, Request
<1>3. CASE ~conns[sock[c]].dead
  <2>1. CASE conn = sock[c]
    <3>1. ServedLink(c)
      BY <1>1, <1>3, <2>1 DEF Link
    <3>2. CASE GetLink(c)
      BY <1>1, <2>1, <3>2 DEF GetLink, GetComes, Request
    <3>3. CASE PutLink(c)
      BY <1>1, <2>1, <3>3 DEF PutLink, Request
    <3>4. CASE spc = "cmd" /\ Up = << >> /\ IsAnswer(Down(c), cpc[c])
      BY <1>1, <2>1, <3>4
    <3> QED BY <3>1, <3>2, <3>3, <3>4 DEF ServedLink
  <2>2. CASE conn # sock[c]
    <3>1. DismissedLink(c) /\ ~(sock[c] > accepted)
      BY <1>1, <1>3, <2>2 DEF Link, QueuedLink
    <3>2. sock[c] <= accepted
      <4>1. sock[c] \in Int /\ accepted \in Int
        BY StateFacts
      <4> QED BY <3>1, <4>1
    <3> QED BY <1>1, <2>2, <3>1, <3>2 DEF DismissedLink
  <2> QED BY <2>1, <2>2
<1> QED BY <1>2, <1>3

\* Its type is always the one expected, and so is the status of OPEN's.
LEMMA ReplyExpected ==
    ASSUME IInv, NEW c \in Client, cpc[c] \in Request, Down(c) # << >>,
           ~conns[sock[c]].torn
    PROVE  ~Unexpected(c)
<1>1. PICK s, type : s = Down(c) /\ type = cpc[c]
  OBVIOUS
<1>2. CASE IsAnswer(s, type)
  <2>1. type \in {"OPEN", "AUTH", "GET", "LIST"}
    BY <1>1, <1>2 DEF IsAnswer, Request
  <2>2. Shows(s, ReplyTo[type], IF type \in {"OPEN", "AUTH"} THEN 1 ELSE 0, 0)
    BY <1>2, <2>1, AnswerFacts
  <2>3. IsHeader(s, ReplyTo[type]) /\ AnyHeader(s) /\ (type = "OPEN" => s[1].status = 1)
    BY <2>2 DEF Shows
  <2> QED BY <1>1, <2>3 DEF Unexpected
<1>3. CASE IsDismissal(s, type)
  <2>1. Shows(s, ReplyTo[type], 0, 0) /\ type \in {"AUTH", "QUIT"}
    BY <1>3, DismissalFacts
  <2>2. IsHeader(s, ReplyTo[type]) /\ type # "OPEN"
    BY <2>1 DEF Shows
  <2> QED BY <1>1, <2>2 DEF Unexpected
<1>4. CASE type = "PUT" /\ s = Header("PUT_REPLY", 0, 0)
  <2>1. Shows(s, "PUT_REPLY", 0, 0)
    BY <1>4, MessageTypes, SeenBare
  <2>2. IsHeader(s, ReplyTo[type]) /\ type # "OPEN"
    BY <1>4, <2>1, ReplyNames DEF Shows
  <2> QED BY <1>1, <2>2 DEF Unexpected
<1>5. CASE type = "GET" /\ IsFileReply(s)
  <2>1. Shows(s, "GET_REPLY", 1, 0)
    BY <1>5, IsFileReplyAs
  <2>2. IsHeader(s, ReplyTo[type]) /\ type # "OPEN"
    BY <1>5, <2>1, ReplyNames DEF Shows
  <2> QED BY <1>1, <2>2 DEF Unexpected
<1> QED BY <1>1, <1>2, <1>3, <1>4, <1>5, ReplyComes

\* An answer is read in full: back to the prompt.
LEMMA AnswerRead ==
    ASSUME IInv, NEW c \in Client, sock[c] # 0, NEW type, cpc[c] = type,
           ~conns[sock[c]].torn, IsAnswer(Down(c), type),
           ~conns[sock[c]].dead => conn = sock[c] /\ spc = "cmd" /\ Up = << >>,
           NEW n \in Nat, Reads(c, n), Drop(Down(c), n) = << >>, Goes(c, "prompt"),
           NEW auth \in BOOLEAN, isAuth' = [isAuth EXCEPT ![c] = auth],
           crashes = 0 /\ auth => conns[sock[c]].authed \/ Stranded(c),
           UNCHANGED <<sock, mine, name, rest, want>>, UNCHANGED serverVars
    PROVE  IInv'
<1>0. PICK k : k = sock[c]
  OBVIOUS
<1>1. Rewrites(k, conns[k].up, << >>, conns[k].authed)
  BY <1>0, ReadsRewrites
<1>2. /\ cpc' \in [Client -> ClientPlace] /\ cpc'[c] = "prompt"
      /\ isAuth' \in [Client -> BOOLEAN] /\ isAuth'[c] = auth
      /\ \A d \in Client \ {c} : cpc'[d] = cpc[d] /\ isAuth'[d] = isAuth[d]
      /\ sock' = sock /\ mine' = mine /\ name' = name /\ rest' = rest /\ want' = want
      /\ spc' = spc /\ conn' = conn /\ accepted' = accepted
  BY DEF Goes, serverVars, IInv, TypeOK, ClientTypeOK, ClientPlace
<1>3. OnlyClient(c)
  <2>1. cpc'[c] \notin {"PUT", "putdata"} \cup Getting
    BY <1>2 DEF Getting
  <2> QED BY <1>2, <2>1 DEF OnlyClient, IInv, TypeOK, ClientTypeOK, FileInv
<1>4. /\ conns'[k].up = conns[k].up /\ conns'[k].down = << >>
      /\ conns'[k].dead = conns[k].dead /\ ~conns'[k].torn
  BY <1>0, <1>1 DEF Rewrites
<1>5. Down(c)' = << >> /\ sock'[c] = k
  BY <1>0, <1>2, <1>4 DEF Down
<1>6. Link(c)'
  <2>1. CASE conns[k].dead
    <3>1. DeadLink(c)'
      BY <1>2, <1>5 DEF DeadLink
    <3> QED BY <1>4, <1>5, <2>1, <3>1 DEF Link
  <2>2. CASE ~conns[k].dead
    <3>1. conn' = k /\ spc' = "cmd" /\ Up' = << >>
      BY <1>0, <1>2, <1>4, <2>2 DEF Up
    <3>2. IsAnswer(Down(c)', cpc'[c])
      BY <1>2, <1>5 DEF IsAnswer
    <3>3. ServedLink(c)'
      BY <1>2, <1>5, <3>1 DEF ServedLink, IsAnswer
    <3> QED BY <1>4, <1>5, <2>2, <3>1, <3>3 DEF Link
  <2> QED BY <2>1, <2>2
<1>7. OwnClient(c, conns[k].up, << >>)
  <2>1. conns[k].dead => conns[k].up = << >>
    BY <1>0, StateFacts DEF IInv, ConnInv
  <2>2. crashes = 0 /\ AsksService(conns[k].up) => conns[k].authed
    BY <1>0, StateFacts DEF IInv, AuthInv, AuthBeforeService, AsksService
  <2> QED BY <1>0, <1>2, <1>6, <2>1, <2>2 DEF OwnClient
<1> QED BY <1>0, <1>1, <1>2, <1>3, <1>7, ClientStays

LEMMA SameAuth ==
    ASSUME IInv, NEW c \in Client, isAuth' = isAuth
    PROVE  isAuth[c] \in BOOLEAN /\ isAuth' = [isAuth EXCEPT ![c] = isAuth[c]]
BY DEF IInv, TypeOK, ClientTypeOK

LEMMA AuthKnown ==
    ASSUME IInv, NEW c \in Client, cpc[c] # "gone", crashes = 0, isAuth[c]
    PROVE  conns[sock[c]].authed \/ Stranded(c)
BY DEF IInv, AuthInv

LEMMA OpenRead ==
    ASSUME IInv, NEW c \in Client, OpenReply(c), UNCHANGED serverVars PROVE IInv'
<1>1. /\ cpc[c] = "OPEN" /\ Down(c) # << >> /\ Reads(c, HeaderLen) /\ Goes(c, "prompt")
      /\ UNCHANGED <<sock, isAuth, mine, name, rest, want>> /\ HeaderLen \in Nat
  BY SizeAssumption DEF OpenReply, Replied, IsHeader, AnyHeader
<1>a. ~conns[sock[c]].torn
  BY <1>1, NotTorn
<1>2. /\ sock[c] # 0 /\ IsAnswer(Down(c), "OPEN")
      /\ ~conns[sock[c]].dead => conn = sock[c] /\ spc = "cmd" /\ Up = << >>
  BY <1>1, <1>a, ReplyComes DEF Request, IsDismissal
<1>3. Drop(Down(c), HeaderLen) = << >>
  BY <1>2, AnswerFacts
<1>4. PICK auth \in BOOLEAN : auth = isAuth[c] /\ isAuth' = [isAuth EXCEPT ![c] = auth]
  BY <1>1, SameAuth
<1>5. crashes = 0 /\ auth => conns[sock[c]].authed \/ Stranded(c)
  BY <1>1, <1>4, AuthKnown
<1> QED BY <1>1, <1>a, <1>2, <1>3, <1>4, <1>5, AnswerRead

LEMMA AuthRead ==
    ASSUME IInv, NEW c \in Client, AuthReply(c), UNCHANGED serverVars PROVE IInv'
<1>1. /\ cpc[c] = "AUTH" /\ Down(c) # << >> /\ Goes(c, "prompt")
      /\ UNCHANGED <<mine, name, rest, want>> /\ HeaderLen \in Nat
      /\ "AUTH" \in Request
  BY SizeAssumption DEF AuthReply, Replied, IsHeader, AnyHeader, Request
<1>a. ~conns[sock[c]].torn
  BY <1>1, NotTorn
<1>2. \/ /\ IsAnswer(Down(c), "AUTH")
         /\ ~conns[sock[c]].dead => conn = sock[c] /\ spc = "cmd" /\ Up = << >>
      \/ /\ IsDismissal(Down(c), "AUTH")
         /\ ~conns[sock[c]].dead => sock[c] # conn /\ sock[c] <= accepted
  BY <1>1, <1>a, ReplyComes
<1>3. sock[c] # 0
  BY <1>1, NotTorn
<1>4. CASE IsAnswer(Down(c), "AUTH")
  <2>1. Down(c)[1].status = 1 /\ Drop(Down(c), HeaderLen) = << >>
    BY <1>4, AnswerFacts DEF Shows
  <2>2. /\ isAuth' = [isAuth EXCEPT ![c] = TRUE] /\ Reads(c, HeaderLen)
        /\ sock' = sock
    BY <2>1 DEF AuthReply
  <2>3. ~IsDismissal(Down(c), "AUTH")
    BY <2>1, DismissalFacts DEF Shows
  <2>4. ~conns[sock[c]].dead => conn = sock[c] /\ spc = "cmd" /\ Up = << >>
    BY <1>2, <2>3
  <2>5. crashes = 0 => conns[sock[c]].authed
    <3>1. Down(c) = Header("AUTH_REPLY", 1, 0)
      BY <1>4, ReplyNames DEF IsAnswer
    <3> QED BY <1>1, <3>1 DEF IInv, AuthInv
  <2>6. UNCHANGED <<sock, mine, name, rest, want>> /\ TRUE \in BOOLEAN
    BY <1>1, <2>2
  <2> QED BY <1>1, <1>a, <1>3, <1>4, <2>1, <2>2, <2>4, <2>5, <2>6, AnswerRead
<1>5. CASE ~IsAnswer(Down(c), "AUTH")
  <2>1. IsDismissal(Down(c), "AUTH")
    BY <1>2, <1>5
  <2>2. Down(c)[1].status = 0
    BY <2>1, DismissalFacts DEF Shows
  <2>3. Closefd(c) /\ isAuth' = isAuth
    BY <2>2 DEF AuthReply
  <2>4. conns[sock[c]].dead \/ (sock[c] # conn /\ sock[c] <= accepted)
    BY <1>2, <1>5
  <2>5. ~isAuth[c]
    BY <1>1 DEF IInv, AuthInv, AskInv
  <2>6. /\ cpc' \in [Client -> ClientPlace] /\ cpc'[c] = "prompt"
        /\ \A d \in Client \ {c} : cpc'[d] = cpc[d] /\ sock'[d] = sock[d]
    BY <1>1, <2>3 DEF Goes, Closefd, IInv, TypeOK, ClientTypeOK, ClientPlace
  <2>7. OnlyClient(c)
    <3>1. cpc'[c] \notin {"PUT", "putdata"} \cup Getting
      BY <2>6 DEF Getting
    <3> QED BY <1>1, <2>3, <2>6, <3>1 DEF OnlyClient, IInv, TypeOK, ClientTypeOK, FileInv
  <2> QED BY <1>1, <1>3, <2>3, <2>4, <2>5, <2>6, <2>7, ClientCloses
<1> QED BY <1>4, <1>5

LEMMA LsRead ==
    ASSUME IInv, NEW c \in Client, LsReply(c), UNCHANGED serverVars PROVE IInv'
<1>1. /\ cpc[c] = "LIST" /\ Down(c) # << >> /\ Goes(c, "prompt")
      /\ UNCHANGED <<sock, isAuth, mine, name, rest, want>>
  BY DEF LsReply, Replied, IsHeader, AnyHeader
<1>a. PICK j : j = sock[c]
  OBVIOUS
<1>b. j # 0 /\ ~conns[j].torn
  <2>1. AnyHeader(Down(c))
    BY DEF LsReply, Replied, IsHeader
  <2> QED BY <1>1, <1>a, <2>1, NotTorn
<1>c. /\ conns \in Seq(Connection) /\ j \in 1 .. Len(conns) /\ conns[j] \in Connection
      /\ conn \in Int /\ accepted \in Int /\ conn <= accepted
  BY <1>a, <1>b, StateFacts
<1>2. PICK k \in HeaderLen .. HeaderLen + ListLen :
        /\ Received(Down(c), HeaderLen + ListLen, k)
        /\ conns' = [conns EXCEPT ![j].down = Drop(@, k),
                                  ![j].torn = @ \/ k < HeaderLen + ListLen]
  BY <1>a DEF LsReply
<1>3. /\ IsAnswer(Down(c), "LIST")
      /\ ~conns[j].dead => conn = j /\ spc = "cmd" /\ Up = << >>
  BY <1>1, <1>a, <1>b, ReplyComes DEF Request, IsDismissal
<1>4. k \in Nat /\ IF k < HeaderLen + ListLen
                   THEN /\ Drop(Down(c), k) \in Seq(Cell) /\ Drop(Down(c), k) # << >>
                        /\ Drop(Down(c), k)[1] \in ListCell
                   ELSE Drop(Down(c), k) = << >>
  BY <1>2, <1>3, ListingFacts, SizeAssumption
<1>5. PICK down \in Seq(Cell) : down = Drop(Down(c), k)
  BY <1>4, EmptySeq
<1>6. crashes = 0 /\ isAuth[c] => conns[j].authed \/ Stranded(c)
  BY <1>1, <1>a, AuthKnown
<1>7. CASE ~(k < HeaderLen + ListLen)
  <2>1. conns[j].torn = FALSE
    BY <1>b, <1>c DEF Connection
  <2>2. conns' = [conns EXCEPT ![j] = [conns[j] EXCEPT !.down = down, !.torn = FALSE]]
    BY <1>2, <1>5, <1>7, <1>a, <1>c, <2>1 DEF Connection, Down
  <2>3. conns' = [conns EXCEPT ![j] = [conns[j] EXCEPT !.down = down]]
    BY <1>c, <2>1, <2>2 DEF Connection
  <2>4. Reads(c, k)
    BY <1>5, <1>a, <1>c, <2>3 DEF Reads, Down
  <2>5. PICK auth \in BOOLEAN : auth = isAuth[c] /\ isAuth' = [isAuth EXCEPT ![c] = auth]
    BY <1>1, SameAuth
  <2>6. crashes = 0 /\ auth => conns[sock[c]].authed \/ Stranded(c)
    BY <1>6, <1>a, <2>5
  <2> QED BY <1>1, <1>3, <1>4, <1>7, <1>a, <1>b, <2>4, <2>5, <2>6, AnswerRead
<1>8. CASE k < HeaderLen + ListLen
  <2>1. PICK r \in Connection : r = [conns[j] EXCEPT !.down = down, !.torn = TRUE]
    BY <1>c DEF Connection
  <2>2. conns' = [conns EXCEPT ![j] = [conns[j] EXCEPT !.down = down, !.torn = TRUE]]
    BY <1>2, <1>5, <1>8, <1>a, <1>c DEF Connection, Down
  <2>3. /\ conns' \in Seq(Connection) /\ Len(conns') = Len(conns)
        /\ \A i \in 1 .. Len(conns) : conns'[i] = IF i = j THEN r ELSE conns[i]
    BY <1>c, <2>1, <2>2, ExceptSeq
  <2>4. /\ r.client = conns[j].client /\ r.left = conns[j].left /\ r.dead = conns[j].dead
        /\ r.torn = TRUE /\ r.authed = conns[j].authed
        /\ r.up = conns[j].up /\ r.down = down
    BY <1>c, <2>1 DEF Connection
  <2>5. PICK up : up = conns[j].up
    OBVIOUS
  <2>6. Renews(j, up, down, conns[j].authed) /\ conns'[j] = r
    BY <1>c, <2>3, <2>4, <2>5 DEF Renews
  <2>7. /\ cpc' \in [Client -> ClientPlace] /\ cpc'[c] = "prompt"
        /\ \A d \in Client \ {c} : cpc'[d] = cpc[d]
        /\ sock' = sock /\ isAuth' = isAuth /\ mine' = mine /\ name' = name
        /\ rest' = rest /\ want' = want
        /\ spc' = spc /\ conn' = conn /\ accepted' = accepted
    BY <1>1 DEF Goes, serverVars, IInv, TypeOK, ClientTypeOK, ClientPlace
  <2>8. OnlyClient(c)
    <3>1. cpc'[c] \notin {"PUT", "putdata"} \cup Getting
      BY <2>7 DEF Getting
    <3> QED BY <2>7, <3>1 DEF OnlyClient, IInv, TypeOK, ClientTypeOK, FileInv
  <2>9. conns[j].dead => j <= accepted /\ conns[j].up = << >>
    BY <1>c, StateFacts DEF IInv, ConnInv
  <2>10. isAuth[c]
    BY <1>1 DEF IInv, AuthInv, AskInv
  <2>11. Link(c)'
    <3>1. /\ Down(c)' = down /\ sock'[c] = j /\ conns'[j].torn
          /\ conns'[j].dead = conns[j].dead
      BY <1>a, <2>4, <2>6, <2>7 DEF Down
    <3>2. down # << >> /\ down[1] \in ListCell
      BY <1>4, <1>5, <1>8
    <3>3. j <= accepted'
      BY <1>3, <1>c, <2>7, <2>9
    <3>4. ~conns[j].dead => conn' = j /\ spc' = "cmd" /\ Up' = << >>
      BY <1>3, <2>4, <2>6, <2>7 DEF Up
    <3>5. TornLink(c)'
      BY <2>7, <2>10, <3>1, <3>2, <3>3, <3>4 DEF TornLink, TornServed
    <3> QED BY <3>1, <3>5 DEF Link
  <2>12. OwnClient(c, up, down)
    <3>1. crashes = 0 /\ AsksService(conns[j].up) => conns[j].authed
      BY <1>c, StateFacts DEF IInv, AuthInv, AuthBeforeService, AsksService
    <3> QED BY <1>6, <1>a, <2>5, <2>7, <2>9, <2>11, <3>1 DEF OwnClient
  <2> QED BY <1>a, <1>b, <2>6, <2>7, <2>8, <2>12, ClientGoesOn
<1> QED BY <1>7, <1>8

-----------------------------------------------------------------------------
(* The ends of a connection.                                               *)

LEMMA ClosedByClient ==
    ASSUME IInv, NEW c \in Client, sock[c] # 0, Closefd(c),
           NEW place \in {"prompt", "gone"}, Goes(c, place),
           UNCHANGED <<isAuth, mine, name, rest, want>>, UNCHANGED serverVars,
           place = "gone" \/ conns[sock[c]].dead \/ conns[sock[c]].torn,
           cpc[c] = "QUIT" => place = "gone"
    PROVE  IInv'
<1>1. /\ cpc' \in [Client -> ClientPlace] /\ cpc'[c] = place
      /\ \A d \in Client \ {c} : cpc'[d] = cpc[d] /\ sock'[d] = sock[d]
  BY DEF Goes, Closefd, IInv, TypeOK, ClientTypeOK, ClientPlace
<1>2. OnlyClient(c)
  <2>1. cpc'[c] \notin {"PUT", "putdata"} \cup Getting
    BY <1>1 DEF Getting
  <2> QED BY <1>1, <2>1 DEF OnlyClient, IInv, TypeOK, ClientTypeOK, FileInv
<1>3. crashes = 0 /\ place = "prompt" => conns[sock[c]].torn /\ sock[c] = conn
  <2>1. conns[sock[c]].dead => crashes # 0
    BY StateFacts DEF IInv, ConnInv
  <2>2. conns[sock[c]].torn => TornLink(c)
    BY DEF IInv, LinkInv, Link
  <2> QED BY <2>1, <2>2 DEF TornLink
<1>4. /\ cpc'[c] \in {"prompt", "gone"} /\ isAuth' = isAuth /\ mine' = mine
      /\ crashes = 0 /\ cpc'[c] = "prompt" /\ isAuth[c] =>
            conns[sock[c]].torn /\ sock[c] = conn
      /\ cpc'[c] = "gone" \/ conns[sock[c]].dead \/ conns[sock[c]].torn
      /\ cpc[c] = "QUIT" => cpc'[c] = "gone"
  BY <1>1, <1>3
<1> QED BY <1>2, <1>4, ClientCloses

LEMMA QuitRead ==
    ASSUME IInv, NEW c \in Client, QuitReply(c), UNCHANGED serverVars PROVE IInv'
<1>1. /\ cpc[c] = "QUIT" /\ Closefd(c) /\ Goes(c, "gone")
      /\ UNCHANGED <<isAuth, mine, name, rest, want>>
  BY DEF QuitReply, Replied
<1>2. sock[c] # 0
  BY <1>1 DEF IInv, SockInv
<1> QED BY <1>1, <1>2, ClosedByClient

\* Only a dead server or a listing that was cut off makes a command fail.
LEMMA Failed ==
    ASSUME IInv, NEW c \in Client, Fails(c), UNCHANGED serverVars PROVE IInv'
<1>1. /\ cpc[c] \in Request /\ Closefd(c)
      /\ AtEnd(c) \/ Unexpected(c)
      /\ UNCHANGED <<isAuth, mine, name, rest, want>>
  BY DEF Fails
<1>2. Unexpected(c) => Down(c) # << >>
  BY DEF Unexpected
<1>3. sock[c] # 0 /\ (conns[sock[c]].dead \/ conns[sock[c]].torn)
  <2>1. sock[c] # 0
    BY <1>1 DEF IInv, SockInv, Request
  <2> QED BY <1>1, <1>2, <2>1, ReplyExpected DEF AtEnd
<1>4. PICK place \in {"prompt", "gone"} :
        Goes(c, place) /\ (cpc[c] = "QUIT" => place = "gone")
  BY DEF Fails
<1> QED BY <1>1, <1>3, <1>4, ClosedByClient

LEMMA Left ==
    ASSUME IInv, NEW c \in Client, Leave(c), UNCHANGED serverVars PROVE IInv'
<1>1. cpc[c] # "gone" /\ Goes(c, "gone") /\ UNCHANGED <<isAuth, mine, name, rest, want>>
  BY DEF Leave
<1>2. CASE sock[c] = 0
  BY <1>1, <1>2, EndsUnconnected DEF Leave
<1>3. CASE sock[c] # 0
  <2>1. Closefd(c)
    BY <1>3 DEF Leave
  <2> QED BY <1>1, <1>3, <2>1, ClosedByClient
<1> QED BY <1>2, <1>3

LEMMA GetEnded ==
    ASSUME IInv, NEW c \in Client, GetEnd(c), UNCHANGED serverVars PROVE IInv'
<1>0. PICK k : k = sock[c]
  OBVIOUS
<1>1. /\ cpc[c] \in Getting /\ k # 0 /\ conns[k].dead /\ Down(c) = << >>
      /\ conns' = conns /\ sock' = sock /\ isAuth' = isAuth /\ mine' = mine
      /\ name' = name /\ rest' = rest /\ want' = want
  BY <1>0 DEF GetEnd, AtEnd
<1>2. /\ cpc' \in [Client -> ClientPlace] /\ cpc'[c] = "spin"
      /\ \A d \in Client \ {c} : cpc'[d] = cpc[d]
  BY DEF GetEnd, Goes, IInv, TypeOK, ClientTypeOK, ClientPlace
<1>3. OnlyClient(c)
  <2>1. cpc'[c] \notin {"PUT", "putdata"} \cup Getting
    BY <1>2 DEF Getting
  <2> QED BY <1>1, <1>2, <2>1 DEF OnlyClient, IInv, TypeOK, ClientTypeOK, FileInv
<1>4. PICK up, down : up = conns[k].up /\ down = conns[k].down
  OBVIOUS
<1>5. Rewrites(sock[c], up, down, conns[sock[c]].authed)
  BY <1>0, <1>1, <1>4, StateFacts DEF Rewrites
<1>6. Link(c)'
  <2>1. Down(c)' = << >> /\ conns'[sock'[c]].dead /\ ~conns'[sock'[c]].torn
    <3>1. ~conns[k].torn
      BY <1>0, <1>1, NotTorn DEF Getting
    <3> QED BY <1>0, <1>1, <3>1 DEF Down
  <2>2. DeadLink(c)'
    BY <1>2, <2>1 DEF DeadLink
  <2> QED BY <2>1, <2>2 DEF Link
<1>7. OwnClient(c, up, down)
  <2>1. crashes # 0 /\ conns[k].up = << >>
    BY <1>0, <1>1, StateFacts DEF IInv, ConnInv
  <2> QED BY <1>0, <1>2, <1>4, <1>6, <2>1 DEF OwnClient
<1> QED BY <1>0, <1>1, <1>3, <1>5, <1>7, ClientStays

-----------------------------------------------------------------------------
(* GET.                                                                    *)

LEMMA GetAnswered ==
    ASSUME IInv, NEW c \in Client, GetReply(c), UNCHANGED serverVars PROVE IInv'
<1>0. PICK k : k = sock[c]
  OBVIOUS
<1>1. /\ cpc[c] = "GET" /\ Down(c) # << >> /\ Reads(c, HeaderLen)
      /\ UNCHANGED <<sock, isAuth, name, rest, want>> /\ HeaderLen \in Nat
      /\ "GET" \in Request
  BY SizeAssumption DEF GetReply, Replied, IsHeader, AnyHeader, Request
<1>3. k # 0 /\ ~conns[k].torn
  <2>1. AnyHeader(Down(c))
    BY DEF GetReply, Replied, IsHeader
  <2> QED BY <1>0, <1>1, <2>1, NotTorn
<1>2. \/ /\ IsAnswer(Down(c), "GET")
         /\ ~conns[k].dead => conn = k /\ spc = "cmd" /\ Up = << >>
      \/ /\ IsFileReply(Down(c))
         /\ ~conns[k].dead => conn = k /\ GetLink(c)
  BY <1>0, <1>1, <1>3, ReplyComes DEF IsDismissal
<1>4. CASE ~IsFileReply(Down(c))
  <2>1. /\ IsAnswer(Down(c), "GET")
        /\ ~conns[k].dead => conn = k /\ spc = "cmd" /\ Up = << >>
    BY <1>2, <1>4
  <2>2. Down(c)[1].status = 0 /\ Drop(Down(c), HeaderLen) = << >>
    BY <2>1, AnswerFacts DEF Shows
  <2>3. Goes(c, "prompt") /\ mine' = mine
    BY <2>2 DEF GetReply
  <2>4. PICK auth \in BOOLEAN : auth = isAuth[c] /\ isAuth' = [isAuth EXCEPT ![c] = auth]
    BY <1>1, SameAuth
  <2>5. crashes = 0 /\ auth => conns[sock[c]].authed \/ Stranded(c)
    BY <1>1, <2>4, AuthKnown
  <2> QED BY <1>0, <1>1, <1>3, <2>1, <2>2, <2>3, <2>4, <2>5, AnswerRead
<1>5. CASE IsFileReply(Down(c))
  <2>1. Shows(Down(c), "GET_REPLY", 1, 0) /\ IsFileData(Drop(Down(c), HeaderLen))
    BY <1>5, IsFileReplyAs
  <2>2. PICK s : s = Drop(Down(c), HeaderLen)
    OBVIOUS
  <2>3. /\ Goes(c, "getfirst") /\ mine' = [mine EXCEPT ![c][name[c]] = << >>]
    BY <2>1 DEF GetReply, Shows
  <2>4. Rewrites(k, conns[k].up, s, conns[k].authed)
    BY <1>0, <1>1, <1>3, <2>2, ReadsRewrites
  <2>5. /\ cpc' \in [Client -> ClientPlace] /\ cpc'[c] = "getfirst"
        /\ \A d \in Client \ {c} : cpc'[d] = cpc[d] /\ mine'[d] = mine[d]
        /\ sock' = sock /\ isAuth' = isAuth /\ name' = name /\ rest' = rest /\ want' = want
        /\ spc' = spc /\ conn' = conn /\ accepted' = accepted /\ sleft' = sleft
        /\ store' = store
    BY <1>1, <2>3 DEF Goes, serverVars, IInv, TypeOK, ClientTypeOK, ClientPlace, Getting
  <2>6. mine' \in [Client -> Directory] /\ mine'[c][name[c]] = << >>
    <3>1. mine \in [Client -> Directory] /\ name[c] \in Name
      BY DEF IInv, FileInv, TypeOK, ClientTypeOK
    <3>2. PICK e \in Seq(Byte) : e = << >>
      BY EmptySeq
    <3>3. mine' = [mine EXCEPT ![c] = [mine[c] EXCEPT ![name[c]] = e]]
      BY <2>3, <3>1, <3>2
    <3>4. [mine[c] EXCEPT ![name[c]] = e] \in Directory
      BY <3>1 DEF Directory
    <3>5. mine'[c] = [mine[c] EXCEPT ![name[c]] = e]
      BY <3>1, <3>3
    <3> QED BY <3>1, <3>2, <3>3, <3>4, <3>5 DEF Directory
  <2>7. OnlyClient(c)
    <3>1. mine'[c][name'[c]] # NoFile
      <4>1. << >> \in Seq(Byte)
        BY EmptySeq
      <4> QED BY <2>5, <2>6, <4>1, CellAssumption
    <3> QED BY <1>1, <2>5, <2>6, <3>1 DEF OnlyClient, IInv, TypeOK, ClientTypeOK
  <2>8. /\ conns'[k].up = conns[k].up /\ conns'[k].down = s
        /\ conns'[k].dead = conns[k].dead /\ ~conns'[k].torn
    BY <1>3, <2>4 DEF Rewrites
  <2>9. Down(c)' = s /\ sock'[c] = k
    BY <1>0, <2>5, <2>8 DEF Down
  <2>10. GetComes(c)'
    BY <2>1, <2>2, <2>5, <2>6, <2>9 DEF GetComes
  <2>11. GetData(c)' = GetData(c) /\ GetLength(c)' = GetLength(c)
    BY <1>1, <2>2, <2>5, <2>9 DEF GetData, GetLength
  <2>12. Link(c)'
    <3>1. CASE conns[k].dead
      BY <2>8, <2>9, <2>10, <3>1 DEF Link, DeadLink
    <3>2. CASE ~conns[k].dead
      <4>1. conn = k /\ GetLink(c)
        BY <1>2, <2>1, <3>2, AnswerFacts DEF Shows
      <4>2. conn' = k /\ Up' = Up
        BY <2>5, <2>8, <4>1 DEF Up
      <4>3. GetLink(c)'
        BY <2>5, <2>10, <2>11, <4>1, <4>2 DEF GetLink
      <4> QED BY <2>8, <2>9, <3>2, <4>2, <4>3 DEF Link, ServedLink
    <3> QED BY <3>1, <3>2
  <2>13. OwnClient(c, conns[k].up, s)
    <3>1. conns[k].dead => conns[k].up = << >>
      BY <1>0, <1>3, StateFacts DEF IInv, ConnInv
    <3>2. crashes = 0 /\ AsksService(conns[k].up) => conns[k].authed
      BY <1>0, <1>3, StateFacts DEF IInv, AuthInv, AuthBeforeService, AsksService
    <3>3. crashes = 0 /\ isAuth[c] => conns[k].authed \/ Stranded(c)
      BY <1>0, <1>1, AuthKnown
    <3> QED BY <1>0, <2>5, <2>12, <3>1, <3>2, <3>3 DEF OwnClient
  <2> QED BY <1>0, <1>3, <2>4, <2>5, <2>7, <2>13, ClientStays
<1> QED BY <1>4, <1>5

-----------------------------------------------------------------------------
(* PUT.                                                                    *)

\* FILE_DATA asks for nothing.
LEMMA FileDataAsks ==
    ASSUME NEW n \in Nat
    PROVE  ~AsksService(Header("FILE_DATA", 0, n))
<1>1. /\ Header("FILE_DATA", 0, n) \in Seq(Cell)
      /\ Len(Header("FILE_DATA", 0, n)) = HeaderLen
      /\ \A i \in 1 .. HeaderLen :
            Header("FILE_DATA", 0, n)[i]
                = [type |-> "FILE_DATA", status |-> 0, len |-> n, pos |-> i]
  BY MessageTypes, HeaderFacts
<1>2. DOMAIN Header("FILE_DATA", 0, n) = 1 .. HeaderLen
  BY <1>1, LenProperties
<1>3. ASSUME NEW i \in 1 .. HeaderLen PROVE Header("FILE_DATA", 0, n)[i].type = "FILE_DATA"
  <2>1. Header("FILE_DATA", 0, n)[i]
            = [type |-> "FILE_DATA", status |-> 0, len |-> n, pos |-> i]
    BY <1>1
  <2> QED BY <2>1
<1> QED BY <1>2, <1>3 DEF AsksService

LEMMA PutAnswered ==
    ASSUME IInv, NEW c \in Client, PutReply(c), UNCHANGED serverVars PROVE IInv'
<1>0. PICK k : k = sock[c]
  OBVIOUS
<1>1. /\ cpc[c] = "PUT" /\ Down(c) # << >>
      /\ UNCHANGED <<sock, isAuth, mine, name, want>>
      /\ "PUT" \in Request
  BY DEF PutReply, Replied, IsHeader, AnyHeader, Request
<1>a. ~conns[k].torn
  <2>1. AnyHeader(Down(c))
    BY DEF PutReply, Replied, IsHeader
  <2> QED BY <1>0, <1>1, <2>1, NotTorn
<1>2. /\ k # 0 /\ Down(c) = Header("PUT_REPLY", 0, 0)
      /\ ~conns[k].dead => /\ conn = k /\ PutLink(c) /\ spc = "putfirst" /\ Up = << >>
  BY <1>0, <1>1, <1>a, ReplyComes DEF IsAnswer, IsDismissal
<1>3. PICK file \in Seq(Byte) : file = mine[c][name[c]]
  BY <1>1 DEF IInv, FileInv, Directory, TypeOK, ClientTypeOK
<1>4. PICK data \in Seq(Cell) : data = Header("FILE_DATA", 0, Len(file))
  BY <1>3, LenProperties, MessageTypes, HeaderFacts
<1>5. Drop(Down(c), HeaderLen) = << >>
  BY <1>2, MessageTypes, SeenBare
<1>6. /\ conns' = [conns EXCEPT ![k].down = Drop(@, HeaderLen),
                                ![k].up = IF conns[k].dead THEN @ ELSE @ \o data]
      /\ rest' = [rest EXCEPT ![c] = file]
      /\ Goes(c, IF file = << >> THEN "prompt" ELSE "putdata")
  BY <1>0, <1>3, <1>4 DEF PutReply
<1>7. PICK up \in Seq(Cell) : up = IF conns[k].dead THEN << >> ELSE data
  BY EmptySeq
<1>8. Rewrites(k, up, << >>, conns[k].authed)
  <2>1. conns \in Seq(Connection) /\ k \in 1 .. Len(conns) /\ conns[k] \in Connection
    BY <1>0, <1>2, StateFacts
  <2>2. conns[k].up = << >>
    BY <1>0, <1>2, <2>1, StateFacts DEF IInv, ConnInv, Up
  <2>3. Drop(conns[k].down, HeaderLen) = << >>
    BY <1>0, <1>5 DEF Down
  <2>4. (IF conns[k].dead THEN conns[k].up ELSE conns[k].up \o data) = up
    BY <1>7, <2>2, ConcatEmptySeq
  <2>5. PICK down \in Seq(Cell) : down = << >>
    BY EmptySeq
  <2>6. conns' = [conns EXCEPT ![k] = [conns[k] EXCEPT !.up = up, !.down = down]]
    BY <1>6, <2>1, <2>3, <2>4, <2>5 DEF Connection
  <2>7. conns' = [conns EXCEPT ![sock[c]] =
                     [conns[sock[c]] EXCEPT !.up = up, !.down = down]]
    BY <1>0, <2>6
  <2>8. Rewrites(sock[c], up, down, conns[sock[c]].authed)
    BY <1>0, <1>2, <2>7, OwnRewrites
  <2> QED BY <1>0, <2>5, <2>8
<1>9. /\ cpc' \in [Client -> ClientPlace] /\ rest' \in [Client -> Seq(Cell)]
      /\ rest'[c] = file
      /\ cpc'[c] = (IF rest'[c] = << >> THEN "prompt" ELSE "putdata")
      /\ \A d \in Client \ {c} : cpc'[d] = cpc[d] /\ rest'[d] = rest[d]
      /\ sock' = sock /\ isAuth' = isAuth /\ mine' = mine /\ name' = name /\ want' = want
      /\ spc' = spc /\ conn' = conn /\ accepted' = accepted /\ store' = store
      /\ sname' = sname
  <2>1. rest \in [Client -> Seq(Cell)] /\ file \in Seq(Cell)
    BY ByteCells DEF IInv, TypeOK, ClientTypeOK
  <2>2. cpc \in [Client -> ClientPlace]
    BY DEF IInv, TypeOK, ClientTypeOK
  <2> QED BY <1>1, <1>6, <2>1, <2>2 DEF Goes, serverVars, ClientPlace
<1>10. OnlyClient(c)
  <2>1. mine'[c][name'[c]] # NoFile
    BY <1>3, <1>9, CellAssumption
  <2> QED BY <1>9, <2>1 DEF OnlyClient, IInv, TypeOK, ClientTypeOK, FileInv
<1>11. /\ conns'[k].up = up /\ conns'[k].down = << >> /\ conns'[k].dead = conns[k].dead
       /\ ~conns'[k].torn
  BY <1>8, <1>a DEF Rewrites
<1>12. Down(c)' = << >> /\ sock'[c] = k
  BY <1>0, <1>9, <1>11 DEF Down
<1>13. Link(c)'
  <2>1. CASE conns[k].dead
    <3>1. DeadLink(c)'
      BY <1>9, <1>12 DEF DeadLink
    <3> QED BY <1>11, <1>12, <2>1, <3>1 DEF Link
  <2>2. CASE ~conns[k].dead
    <3>1. conn' = k /\ spc' = "putfirst" /\ Up' = data
      BY <1>2, <1>7, <1>9, <1>11, <2>2 DEF Up
    <3>2. /\ sname' = name'[c] /\ mine'[c][sname'] = file /\ file # NoFile
          /\ store'[sname'] = << >>
      BY <1>2, <1>3, <1>9, <2>2, CellAssumption DEF PutLink
    <3>3. Drop(data, HeaderLen) = << >>
      BY <1>4, LenProperties, MessageTypes, SeenBare
    <3>4. data = data \o << >> /\ << >> \o file = file
      BY <1>4, ConcatEmptySeq
    <3>5. Begins(Up', Header("FILE_DATA", 0, Len(file)))
      BY <1>4, <3>1, <3>3, <3>4 DEF Begins
    <3>6. Drop(Up', HeaderLen) \o rest'[c] = file
      BY <1>9, <3>1, <3>3, <3>4
    <3>7. PutLink(c)'
      BY <1>9, <1>12, <3>1, <3>2, <3>5, <3>6 DEF PutLink
    <3> QED BY <1>11, <1>12, <2>2, <3>1, <3>7 DEF Link, ServedLink
  <2> QED BY <2>1, <2>2
<1>14. OwnClient(c, up, << >>)
  <2>1. ~AsksService(up)
    <3>1. ~AsksService(data)
      BY <1>4, LenProperties, FileDataAsks
    <3>2. ~AsksService(<< >>)
      BY DEF AsksService
    <3> QED BY <1>7, <3>1, <3>2
  <2>2. crashes = 0 /\ isAuth[c] => conns[k].authed \/ Stranded(c)
    BY <1>0, <1>1, AuthKnown
  <2> QED BY <1>0, <1>7, <1>9, <1>13, <2>1, <2>2 DEF OwnClient
<1> QED BY <1>0, <1>2, <1>8, <1>9, <1>10, <1>14, ClientStays

\* A piece of the rest of the file goes out.
LEMMA PutPieceSent ==
    ASSUME IInv, NEW c \in Client, PutPiece(c), UNCHANGED serverVars PROVE IInv'
<1>0. PICK k : k = sock[c]
  OBVIOUS
<1>1. PICK p \in Seq(Cell), r \in Seq(Cell) :
        /\ p = Piece(rest[c]) /\ r = Drop(rest[c], Len(Piece(rest[c])))
        /\ p \o r = rest[c]
  <2>1. rest[c] \in Seq(Cell)
    BY DEF IInv, TypeOK, ClientTypeOK
  <2> QED BY <2>1, PieceFacts
<1>2. p \in Seq(Cell) /\ r \in Seq(Cell)
  OBVIOUS
<1>3. /\ cpc[c] = "putdata" /\ k # 0 /\ Link(c)
      /\ Sends(c, p) /\ UNCHANGED <<sock, isAuth, mine, name, want>>
  BY <1>0, <1>1 DEF PutPiece, IInv, SockInv, LinkInv
<1>4. /\ cpc' \in [Client -> ClientPlace] /\ rest' \in [Client -> Seq(Cell)]
      /\ rest'[c] = r
      /\ cpc'[c] = (IF rest'[c] = << >> THEN "prompt" ELSE "putdata")
      /\ \A d \in Client \ {c} : cpc'[d] = cpc[d] /\ rest'[d] = rest[d]
      /\ sock' = sock /\ isAuth' = isAuth /\ mine' = mine /\ name' = name /\ want' = want
      /\ spc' = spc /\ conn' = conn /\ accepted' = accepted /\ store' = store
      /\ sname' = sname /\ fileLen' = fileLen
  <2>1. rest \in [Client -> Seq(Cell)] /\ cpc \in [Client -> ClientPlace]
    BY DEF IInv, TypeOK, ClientTypeOK
  <2>2. /\ rest' = [rest EXCEPT ![c] = r]
        /\ cpc' = [cpc EXCEPT ![c] = IF rest'[c] = << >> THEN "prompt" ELSE "putdata"]
    BY <1>1, <2>1 DEF PutPiece, Goes
  <2> QED BY <1>2, <1>3, <2>1, <2>2 DEF serverVars, ClientPlace
<1>a. ~conns[k].torn
  BY <1>0, <1>3, NotTorn
<1>5. mine[c][name[c]] # NoFile
  BY <1>3 DEF IInv, FileInv
<1>6. OnlyClient(c)
  BY <1>4, <1>5 DEF OnlyClient, IInv, TypeOK, ClientTypeOK, FileInv
<1>7. /\ conns[k].down = << >>
      /\ conns[k].dead => conns[k].up = << >>
      /\ ~conns[k].dead => conn = k /\ PutLink(c)
  <2>1. /\ ~GetComes(c) /\ cpc[c] \notin Request
        /\ \A s : ~IsAnswer(s, cpc[c]) /\ ~IsDismissal(s, cpc[c])
    BY <1>3 DEF GetComes, Request, IsAnswer, IsDismissal
  <2>2. ASSUME conns[k].dead PROVE conns[k].down = << >> /\ conns[k].up = << >>
    <3>1. Down(c) = << >>
      BY <1>0, <1>3, <1>a, <2>1, <2>2 DEF Link, DeadLink
    <3> QED BY <1>0, <1>3, <2>2, <3>1, StateFacts DEF Down, IInv, ConnInv
  <2>3. ASSUME ~conns[k].dead PROVE conn = k /\ PutLink(c) /\ conns[k].down = << >>
    <3>1. conn = k /\ ServedLink(c)
      BY <1>0, <1>3, <1>a, <2>1, <2>3 DEF Link, QueuedLink, DismissedLink
    <3>2. PutLink(c)
      BY <2>1, <3>1 DEF ServedLink, GetLink
    <3> QED BY <1>0, <1>3, <3>1, <3>2 DEF PutLink, Down
  <2> QED BY <2>2, <2>3
<1>8. PICK u \in Seq(Cell) : u = conns[k].up
  BY <1>0, <1>3, StateFacts DEF Connection
<1>9. PICK up \in Seq(Cell) : up = IF conns[k].dead THEN << >> ELSE u \o p
  BY <1>2, <1>8, ConcatProperties, EmptySeq
<1>10. Rewrites(k, up, << >>, conns[k].authed)
  <2>1. up = IF conns[sock[c]].dead THEN conns[sock[c]].up ELSE conns[sock[c]].up \o p
    BY <1>0, <1>7, <1>8, <1>9
  <2>2. Rewrites(sock[c], up, conns[sock[c]].down, conns[sock[c]].authed)
    BY <1>0, <1>2, <1>3, <2>1, SendsRewrites
  <2> QED BY <1>0, <1>7, <2>2
<1>11. /\ conns'[k].up = up /\ conns'[k].down = << >> /\ conns'[k].dead = conns[k].dead
       /\ ~conns'[k].torn
  BY <1>10, <1>a DEF Rewrites
<1>12. Down(c)' = << >> /\ sock'[c] = k
  BY <1>0, <1>4, <1>11 DEF Down
<1>13. CASE conns[k].dead
  <2>1. DeadLink(c)'
    BY <1>4, <1>12 DEF DeadLink
  <2>2. Link(c)'
    BY <1>11, <1>12, <1>13, <2>1 DEF Link
  <2>3. crashes # 0 /\ up = << >>
    BY <1>0, <1>3, <1>9, <1>13, StateFacts DEF IInv, ConnInv
  <2>4. OwnClient(c, up, << >>)
    BY <1>0, <1>4, <2>2, <2>3 DEF OwnClient
  <2> QED BY <1>0, <1>3, <1>4, <1>6, <1>10, <2>4, ClientStays
<1>14. CASE ~conns[k].dead
  <2>1. PICK file \in Seq(Byte) : file = mine[c][name[c]] /\ file # NoFile
    BY <1>5 DEF IInv, FileInv, Directory, TypeOK, ClientTypeOK
  <2>2. /\ conn = k /\ sname = name[c] /\ Up = u /\ rest[c] # << >>
        /\ \/ /\ spc = "putfirst" /\ store[sname] = << >>
              /\ Begins(u, Header("FILE_DATA", 0, Len(file)))
              /\ Drop(u, HeaderLen) \o rest[c] = file
           \/ /\ spc = "putmore" /\ store[sname] # NoFile
              /\ fileLen = Len(file) /\ Len(store[sname]) < fileLen
              /\ (store[sname] \o u) \o rest[c] = file
    BY <1>3, <1>7, <1>8, <1>14, <2>1 DEF PutLink, Up
  <2>3. conn' = k /\ Up' = up /\ up = u \o p /\ mine'[c][sname'] = file /\ sname' = name'[c]
    BY <1>4, <1>9, <1>11, <1>14, <2>1, <2>2 DEF Up
  <2>4. ASSUME spc = "putfirst" PROVE PutLink(c)'
    <3>1. PICK d \in Seq(Cell) : d = Drop(u, HeaderLen)
      BY <1>8, SizeAssumption, DropIsSeq
    <3>2. PICK h \in Seq(Cell) : h = Header("FILE_DATA", 0, Len(file))
      BY LenProperties, MessageTypes, HeaderFacts
    <3>3. u = h \o d /\ d \o (p \o r) = file
      BY <1>1, <2>2, <2>4, <3>1, <3>2 DEF Begins
    <3>4. PICK e \in Seq(Cell) : e = d \o p
      BY <1>2, <3>1, ConcatProperties
    <3>5. up = h \o e
      <4>1. (h \o d) \o p = h \o (d \o p)
        BY CellAssoc, ZenonT(30)
      <4> QED BY <2>3, <3>3, <3>4, <4>1
    <3>6. e \o r = file
      <4>1. (d \o p) \o r = d \o (p \o r)
        BY CellAssoc, ZenonT(30)
      <4> QED BY <3>3, <3>4, <4>1
    <3>7. Drop(Header("FILE_DATA", 0, Len(file)) \o e, HeaderLen) = e
      BY LenProperties, MessageTypes, MessageRest
    <3>8. Drop(up, HeaderLen) = e
      BY <3>2, <3>5, <3>7
    <3>9. Begins(Up', Header("FILE_DATA", 0, Len(file)))
      BY <2>3, <3>2, <3>5, <3>8 DEF Begins
    <3>10. Drop(Up', HeaderLen) \o rest'[c] = file
      BY <1>4, <2>3, <3>6, <3>8
    <3>11. store'[sname'] = << >> /\ spc' = "putfirst" /\ mine'[c][sname'] # NoFile
      BY <1>4, <2>1, <2>2, <2>3, <2>4
    <3> QED BY <1>4, <1>12, <2>3, <3>9, <3>10, <3>11 DEF PutLink
  <2>5. ASSUME spc = "putmore" PROVE PutLink(c)'
    <3>1. /\ store[sname] # NoFile
          /\ fileLen = Len(file) /\ Len(store[sname]) < fileLen
          /\ (store[sname] \o u) \o rest[c] = file
      BY <2>2, <2>5
    <3>2. PICK w \in Seq(Cell) : w = store[sname]
      BY <3>1, ByteCells DEF IInv, FileInv, Directory, TypeOK, ServerTypeOK
    <3>3. (w \o u) \o (p \o r) = file
      BY <1>1, <3>1, <3>2
    <3>4. (w \o (u \o p)) \o r = file
      <4>1. PICK x \in Seq(Cell) : x = w \o u
        BY <1>8, <3>2, ConcatProperties
      <4>2. x \o (p \o r) = file
        BY <3>3, <4>1
      <4>3. (x \o p) \o r = x \o (p \o r)
        BY CellAssoc
      <4>4. (w \o u) \o p = w \o (u \o p)
        BY CellAssoc, ZenonT(30)
      <4> QED BY <4>1, <4>2, <4>3, <4>4
    <3>5. /\ store'[sname'] = w /\ spc' = "putmore" /\ mine'[c][sname'] # NoFile
          /\ fileLen' = Len(file) /\ Len(w) < fileLen' /\ w # NoFile
      BY <1>4, <2>1, <2>3, <2>5, <3>1, <3>2
    <3>6. (store'[sname'] \o Up') \o rest'[c] = file
      BY <1>4, <2>3, <3>4, <3>5
    <3> QED BY <1>4, <1>12, <2>3, <3>5, <3>6 DEF PutLink
  <2>6. PutLink(c)'
    BY <2>2, <2>4, <2>5
  <2>7. Link(c)'
    BY <1>11, <1>12, <1>14, <2>3, <2>6 DEF Link, ServedLink
  <2>8. crashes = 0 => conns[k].authed
    BY <2>2 DEF IInv, AuthInv, AuthBeforeService, Putting
  <2>9. OwnClient(c, up, << >>)
    BY <1>0, <1>4, <1>14, <2>7, <2>8 DEF OwnClient
  <2> QED BY <1>0, <1>3, <1>4, <1>6, <1>10, <2>9, ClientStays
<1> QED BY <1>13, <1>14

-----------------------------------------------------------------------------
(* The loop of GET.                                                        *)

\* Before every recv of the loop: the file as far as it is there and under way.
LEMMA GettingFacts ==
    ASSUME IInv, NEW c \in Client, cpc[c] \in Getting, Down(c) # << >>
    PROVE  /\ sock[c] # 0 /\ ~conns[sock[c]].torn /\ GetComes(c)
           /\ ~conns[sock[c]].dead => conn = sock[c] /\ GetLink(c)
<1>1. sock[c] # 0 /\ Link(c) /\ ~conns[sock[c]].torn
  BY NotTorn DEF IInv, LinkInv, Getting
<1>2. cpc[c] \notin Request \cup {"prompt", "putdata", "spin"}
  BY DEF Getting, Request
<1>3. \A s : ~IsAnswer(s, cpc[c]) /\ ~IsDismissal(s, cpc[c])
  BY DEF Getting, IsAnswer, IsDismissal
<1>4. CASE conns[sock[c]].dead
  BY <1>1, <1>2, <1>3, <1>4 DEF Link, DeadLink, Request
<1>5. CASE ~conns[sock[c]].dead
  <2>1. ~QueuedLink(c) /\ ~DismissedLink(c) /\ ~PutLink(c)
    BY <1>2, <1>3 DEF QueuedLink, DismissedLink, PutLink, Request
  <2>2. ServedLink(c) /\ conn = sock[c]
    BY <1>1, <1>5, <2>1 DEF Link
  <2>3. GetLink(c)
    BY <1>2, <1>3, <2>1, <2>2 DEF ServedLink
  <2> QED BY <1>1, <2>2, <2>3 DEF GetLink
<1> QED BY <1>4, <1>5

\* Either recv of the loop: m is in the client's file then, d is left to be read.
LEMMA GetPieceTaken ==
    ASSUME IInv, NEW c \in Client, cpc[c] \in Getting, Down(c) # << >>,
           NEW m \in Seq(Byte), NEW d \in Seq(Byte), NEW n \in Nat, NEW k \in Nat,
           Reads(c, k), Drop(Down(c), k) = d,
           GetLength(c) = n, GetData(c) = m \o d, Len(m) + Len(d) <= n,
           mine' = [mine EXCEPT ![c][name[c]] = m], want' = [want EXCEPT ![c] = n],
           UntilGot(c), UNCHANGED <<sock, isAuth, name, rest>>, UNCHANGED serverVars
    PROVE  /\ IInv'
           /\ crashes = 0 /\ cpc'[c] = "prompt" => mine'[c][name[c]] = store[name[c]]
<1>0. PICK j : j = sock[c]
  OBVIOUS
<1>1. /\ j # 0 /\ ~conns[j].torn /\ GetComes(c)
      /\ ~conns[j].dead => conn = j /\ GetLink(c)
  BY <1>0, GettingFacts
<1>2. Rewrites(j, conns[j].up, d, conns[j].authed)
  BY <1>0, <1>1, ReadsRewrites
<1>3. /\ mine' \in [Client -> Directory] /\ mine'[c][name[c]] = m
      /\ \A e \in Client \ {c} : mine'[e] = mine[e]
  <2>1. mine \in [Client -> Directory] /\ name[c] \in Name
    BY DEF IInv, FileInv, TypeOK, ClientTypeOK
  <2>2. mine' = [mine EXCEPT ![c] = [mine[c] EXCEPT ![name[c]] = m]]
    BY <2>1
  <2>3. [mine[c] EXCEPT ![name[c]] = m] \in Directory
    BY <2>1 DEF Directory
  <2>4. mine'[c] = [mine[c] EXCEPT ![name[c]] = m]
    BY <2>1, <2>2
  <2>5. mine[c] \in Directory
    BY <2>1
  <2>6. mine'[c][name[c]] = m
    BY <2>1, <2>4, <2>5 DEF Directory
  <2> QED BY <2>1, <2>2, <2>3, <2>6
<1>4. want' \in [Client -> Nat] /\ want'[c] = n /\ \A e \in Client \ {c} : want'[e] = want[e]
  BY DEF IInv, TypeOK, ClientTypeOK
<1>5. /\ cpc' \in [Client -> ClientPlace]
      /\ cpc'[c] = IF Len(m) = n THEN "prompt" ELSE "getmore"
      /\ \A e \in Client \ {c} : cpc'[e] = cpc[e]
  <2>1. PICK place : place = IF Len(m) = n THEN "prompt" ELSE "getmore"
    OBVIOUS
  <2>2. place \in ClientPlace /\ cpc \in [Client -> ClientPlace]
    BY <2>1 DEF ClientPlace, Getting, IInv, TypeOK, ClientTypeOK
  <2>3. cpc' = [cpc EXCEPT ![c] = place]
    BY <1>3, <1>4, <2>1 DEF UntilGot, Goes
  <2> QED BY <2>1, <2>2, <2>3
<1>6. /\ sock' = sock /\ isAuth' = isAuth /\ name' = name /\ rest' = rest
      /\ spc' = spc /\ conn' = conn /\ store' = store /\ sleft' = sleft
  BY DEF serverVars
<1>7. OnlyClient(c)
  <2>1. mine'[c][name'[c]] # NoFile
    BY <1>3, <1>6, CellAssumption
  <2> QED BY <1>3, <1>4, <1>5, <1>6, <2>1 DEF OnlyClient, IInv, TypeOK, ClientTypeOK
<1>8. /\ conns'[j].up = conns[j].up /\ conns'[j].down = d
      /\ conns'[j].dead = conns[j].dead /\ ~conns'[j].torn
  BY <1>1, <1>2 DEF Rewrites
<1>9. Down(c)' = d /\ sock'[c] = j
  BY <1>0, <1>6, <1>8 DEF Down
<1>10. Len(m) \in Nat /\ Len(d) \in Nat /\ (Len(m) = n => d = << >>)
  BY LenProperties, EmptySeq
<1>11. ASSUME Len(m) # n
       PROVE  /\ GetComes(c)' /\ GetLength(c)' = GetLength(c)
              /\ GetData(c)' = GetData(c)
  <2>1. cpc'[c] = "getmore" /\ Len(m) < n
    BY <1>5, <1>10, <1>11
  <2>2. GetComes(c)'
    BY <1>3, <1>4, <1>6, <1>9, <2>1 DEF GetComes
  <2>3. GetLength(c)' = GetLength(c)
    BY <1>4, <2>1 DEF GetLength
  <2>4. GetData(c)' = GetData(c)
    BY <1>3, <1>6, <1>9, <2>1 DEF GetData
  <2> QED BY <2>2, <2>3, <2>4
<1>12. ASSUME ~conns[j].dead, Len(m) = n
       PROVE  spc = "cmd" /\ d = << >> /\ m = store[name[c]]
  <2>1. PICK y \in Seq(Cell) : y = sleft
    BY DEF IInv, TypeOK, ServerTypeOK
  <2>2. PICK file \in Seq(Byte) : file = store[name[c]]
    BY <1>1, <1>12 DEF GetLink, IInv, FileInv, Directory, TypeOK, ClientTypeOK
  <2>3. Len(file) = n /\ (m \o d) \o y = file
    BY <1>1, <1>12, <2>1, <2>2 DEF GetLink
  <2>4. m \in Seq(Cell) /\ d \in Seq(Cell)
    BY ByteCells
  <2>5. MakeUp(m, d, y, file)
    BY <2>1, <2>3, <2>4 DEF MakeUp
  <2>6. m = file /\ d = << >> /\ y = << >>
    BY <1>12, <2>1, <2>2, <2>3, <2>4, <2>5, PartsOfFile
  <2>7. spc = "cmd"
    BY <1>1, <1>12, <2>1, <2>6 DEF GetLink, IInv, ConnInv
  <2> QED BY <2>2, <2>6, <2>7
<1>13. Link(c)'
  <2>1. CASE conns[j].dead
    <3>1. CASE Len(m) = n
      <4>1. DeadLink(c)'
        BY <1>5, <1>9, <1>10, <3>1 DEF DeadLink
      <4> QED BY <1>8, <1>9, <2>1, <4>1 DEF Link
    <3>2. CASE Len(m) # n
      <4>1. DeadLink(c)'
        BY <1>11, <3>2 DEF DeadLink
      <4> QED BY <1>8, <1>9, <2>1, <4>1 DEF Link
    <3> QED BY <3>1, <3>2
  <2>2. CASE ~conns[j].dead
    <3>1. conn' = j /\ Up' = Up /\ Up = << >>
      BY <1>1, <1>6, <1>8, <2>2 DEF Up, GetLink
    <3>2. CASE Len(m) = n
      <4>1. spc' = "cmd" /\ Up' = << >> /\ Down(c)' = << >> /\ cpc'[c] = "prompt"
        BY <1>5, <1>6, <1>9, <1>12, <2>2, <3>1, <3>2
      <4>2. ServedLink(c)'
        BY <4>1 DEF ServedLink, IsAnswer
      <4> QED BY <1>8, <1>9, <2>2, <3>1, <4>2 DEF Link
    <3>3. CASE Len(m) # n
      <4>1. GetLink(c)'
        BY <1>1, <1>6, <1>11, <2>2, <3>1, <3>3 DEF GetLink
      <4> QED BY <1>8, <1>9, <2>2, <3>1, <4>1 DEF Link, ServedLink
    <3> QED BY <3>2, <3>3
  <2> QED BY <2>1, <2>2
<1>14. PICK up, down : up = conns[j].up /\ down = d
  OBVIOUS
<1>15. OwnClient(c, up, down)
  <2>1. conns[j].dead => conns[j].up = << >>
    BY <1>0, <1>1, StateFacts DEF IInv, ConnInv
  <2>2. crashes = 0 /\ AsksService(conns[j].up) => conns[j].authed
    BY <1>0, <1>1, StateFacts DEF IInv, AuthInv, AuthBeforeService, AsksService
  <2>3. crashes = 0 /\ isAuth[c] => conns[j].authed \/ Stranded(c)
    BY <1>0, AuthKnown DEF Getting
  <2>4. cpc'[c] \notin {"gone", "AUTH", "LIST"}
    BY <1>5
  <2> QED BY <1>0, <1>6, <1>13, <1>14, <2>1, <2>2, <2>3, <2>4 DEF OwnClient
<1>16. IInv'
  BY <1>0, <1>1, <1>2, <1>6, <1>7, <1>14, <1>15, ClientStays
<1>17. ASSUME crashes = 0, cpc'[c] = "prompt" PROVE mine'[c][name[c]] = store[name[c]]
  <2>1. ~conns[j].dead
    BY <1>0, <1>1, <1>17, StateFacts DEF IInv, ConnInv
  <2>2. Len(m) = n
    BY <1>5, <1>17
  <2> QED BY <1>3, <1>12, <2>1, <2>2
<1> QED BY <1>16, <1>17

LEMMA GetFirstTaken ==
    ASSUME IInv, NEW c \in Client, GetFirst(c), UNCHANGED serverVars
    PROVE  /\ IInv'
           /\ crashes = 0 /\ cpc'[c] = "prompt" => mine'[c][name[c]] = store[name[c]]
<1>1. /\ cpc[c] = "getfirst" /\ cpc[c] \in Getting /\ Down(c) # << >>
      /\ UntilGot(c) /\ UNCHANGED <<sock, isAuth, name, rest>>
  BY DEF GetFirst, IsHeader, AnyHeader, Getting
<1>2. IsFileData(Down(c)) /\ mine[c][name[c]] = << >>
  BY <1>1, GettingFacts DEF GetComes
<1>3. PICK n \in Nat, x \in Seq(Byte) :
        /\ n = Down(c)[1].len /\ x = Drop(Down(c), HeaderLen) /\ Len(x) <= n
        /\ Down(c) = Header("FILE_DATA", 0, n) \o x
  BY <1>2, IsFileDataAs
<1>4. PICK h \in Seq(Cell) : h = Header("FILE_DATA", 0, n) /\ Len(h) = HeaderLen
  <2>1. n \in Nat /\ "FILE_DATA" \in MessageType /\ 0 \in {0, 1}
    BY <1>3, MessageTypes
  <2>2. /\ Header("FILE_DATA", 0, n) \in Seq(Cell)
        /\ Len(Header("FILE_DATA", 0, n)) = HeaderLen
    BY <2>1, HeaderFacts
  <2> QED BY <2>2
<1>5. PICK k \in HeaderLen .. MAXFILELEN :
        /\ Received(Down(c), MAXFILELEN, k)
        /\ Writes(c, SubSeq(Down(c), HeaderLen + 1, k)) /\ Reads(c, k)
  BY DEF GetFirst
<1>6. x \in Seq(Cell) /\ Len(x) \in Nat /\ Len(h) \in Nat /\ Len(h \o x) = Len(h) + Len(x)
  <2>1. x \in Seq(Cell) /\ h \in Seq(Cell)
    BY <1>3, <1>4, ByteCells
  <2>2. Len(x) \in Nat /\ Len(h) \in Nat
    BY <2>1, LenProperties
  <2>3. Len(h \o x) = Len(h) + Len(x)
    BY <2>1, ConcatProperties
  <2> QED BY <2>1, <2>2, <2>3
<1>7. k \in Nat /\ k \in Len(h) .. Len(h) + Len(x)
  <2>1. k \in Int /\ HeaderLen <= k
    BY <1>5, SizeAssumption
  <2>2. k \in 1 .. Len(Down(c))
    BY <1>5 DEF Received
  <2>3. Len(Down(c)) = Len(h) + Len(x)
    <3>1. Down(c) = h \o x
      BY <1>3, <1>4
    <3> QED BY <1>6, <3>1
  <2> QED BY <1>4, <1>6, <2>1, <2>2, <2>3
<1>8. /\ k - Len(h) \in 0 .. Len(x)
      /\ SubSeq(h \o x, Len(h) + 1, k) = SubSeq(x, 1, k - Len(h))
      /\ Drop(h \o x, k) = Drop(x, k - Len(h))
  BY <1>6, <1>7, DropFromFront
<1>9. PICK i \in 0 .. Len(x) : i = k - Len(h)
  BY <1>8
<1>10. PICK m \in Seq(Byte), d \in Seq(Byte) :
         /\ m = SubSeq(x, 1, i) /\ d = Drop(x, i) /\ m \o d = x
         /\ Len(m) + Len(d) = Len(x)
  <2>1. /\ SubSeq(x, 1, i) \in Seq(Byte) /\ Drop(x, i) \in Seq(Byte)
        /\ Len(SubSeq(x, 1, i)) = i /\ Len(Drop(x, i)) = Len(x) - i
        /\ SubSeq(x, 1, i) \o Drop(x, i) = x
    BY SplitAt
  <2>2. i + (Len(x) - i) = Len(x)
    BY <1>6
  <2> QED BY <2>1, <2>2
<1>11. SubSeq(Down(c), HeaderLen + 1, k) = m /\ Drop(Down(c), k) = d
  BY <1>3, <1>4, <1>8, <1>9, <1>10
<1>12. mine' = [mine EXCEPT ![c][name[c]] = m]
  <2>1. << >> \o m = m
    BY ConcatEmptySeq
  <2> QED BY <1>2, <1>5, <1>11, <2>1 DEF Writes
<1>13. want' = [want EXCEPT ![c] = n]
  BY <1>3 DEF GetFirst
<1>14. GetLength(c) = n /\ GetData(c) = x
  BY <1>1, <1>3 DEF GetLength, GetData
<1>15. Len(m) + Len(d) <= n /\ GetData(c) = m \o d
  BY <1>3, <1>10, <1>14
<1> QED BY <1>1, <1>5, <1>7, <1>11, <1>12, <1>13, <1>14, <1>15, GetPieceTaken

LEMMA GetMoreTaken ==
    ASSUME IInv, NEW c \in Client, GetMore(c), UNCHANGED serverVars
    PROVE  /\ IInv'
           /\ crashes = 0 /\ cpc'[c] = "prompt" => mine'[c][name[c]] = store[name[c]]
<1>1. /\ cpc[c] = "getmore" /\ cpc[c] \in Getting
      /\ UntilGot(c) /\ UNCHANGED <<sock, isAuth, name, rest>>
  BY DEF GetMore, Getting
<1>2. PICK k \in 1 .. MAXFILELEN :
        /\ Received(Down(c), MAXFILELEN, k)
        /\ Writes(c, SubSeq(Down(c), 1, k)) /\ Reads(c, k)
  BY DEF GetMore
<1>3. k \in 1 .. Len(Down(c)) /\ k \in Nat
  BY <1>2 DEF Received
<1>4. Down(c) # << >>
  BY <1>3
<1>5. /\ Down(c) \in Seq(Byte)
      /\ Len(mine[c][name[c]]) + Len(Down(c)) <= want[c]
  BY <1>1, <1>4, GettingFacts DEF GetComes
<1>6. PICK x \in Seq(Byte) : x = Down(c)
  BY <1>5
<1>7. PICK w \in Seq(Byte) : w = mine[c][name[c]]
  BY <1>1 DEF IInv, FileInv, Directory, TypeOK, ClientTypeOK
<1>8. PICK n \in Nat : n = want[c]
  BY DEF IInv, TypeOK, ClientTypeOK
<1>9. PICK p \in Seq(Byte), d \in Seq(Byte) :
        /\ p = SubSeq(x, 1, k) /\ d = Drop(x, k) /\ p \o d = x
        /\ Len(p) + Len(d) = Len(x)
  <2>1. k \in 0 .. Len(x) /\ Len(x) \in Nat
    BY <1>3, <1>6, LenProperties
  <2>2. /\ SubSeq(x, 1, k) \in Seq(Byte) /\ Drop(x, k) \in Seq(Byte)
        /\ Len(SubSeq(x, 1, k)) = k /\ Len(Drop(x, k)) = Len(x) - k
        /\ SubSeq(x, 1, k) \o Drop(x, k) = x
    BY <2>1, SplitAt
  <2>3. k + (Len(x) - k) = Len(x)
    BY <2>1
  <2> QED BY <2>2, <2>3
<1>10. PICK m \in Seq(Byte) : m = w \o p
  BY <1>7, <1>9, ConcatProperties
<1>11. Len(m) = Len(w) + Len(p) /\ Len(w) \in Nat /\ Len(p) \in Nat /\ Len(d) \in Nat
  BY <1>7, <1>9, <1>10, ConcatProperties, LenProperties
<1>12. GetLength(c) = n /\ GetData(c) = w \o x
  BY <1>1, <1>6, <1>7, <1>8 DEF GetLength, GetData
<1>13. GetData(c) = m \o d
  <2>1. w \in Seq(Cell) /\ p \in Seq(Cell) /\ d \in Seq(Cell)
    BY <1>7, <1>9, ByteCells
  <2>2. (w \o p) \o d = w \o (p \o d)
    BY <2>1, CellAssoc
  <2> QED BY <1>9, <1>10, <1>12, <2>2
<1>14. Len(m) + Len(d) <= n
  <2>1. Len(w) + Len(x) <= n
    BY <1>5, <1>6, <1>7, <1>8
  <2> QED BY <1>9, <1>11, <2>1
<1>15. mine' = [mine EXCEPT ![c][name[c]] = m]
  BY <1>2, <1>6, <1>7, <1>9, <1>10 DEF Writes
<1>16. want' = [want EXCEPT ![c] = n]
  <2>1. want' = want
    BY DEF GetMore
  <2> QED BY <1>8, <2>1 DEF IInv, TypeOK, ClientTypeOK
<1>17. Drop(Down(c), k) = d
  BY <1>6, <1>9
<1> QED BY <1>1, <1>2, <1>3, <1>4, <1>12, <1>13, <1>14, <1>15, <1>16, <1>17, GetPieceTaken

-----------------------------------------------------------------------------
(* Every step.                                                             *)

LEMMA ClientKeeps ==
    ASSUME IInv, Patient, NEW c \in Client, ClientNext(c), UNCHANGED serverVars
    PROVE  IInv'
<1>1. CASE Open(c)
  BY <1>1, Opened
<1>2. CASE Settled(c) /\ Command(c)
  BY <1>2, AuthenSent, LsSent, GetSent, PutSent, QuitSent DEF Command
<1>3. CASE ClientRuns(c)
  <2>1. CASE OpenReply(c) \/ AuthReply(c) \/ LsReply(c) \/ QuitReply(c)
    BY <2>1, OpenRead, AuthRead, LsRead, QuitRead
  <2>2. CASE GetReply(c) \/ GetFirst(c) \/ GetMore(c)
    BY <2>2, GetAnswered, GetFirstTaken, GetMoreTaken
  <2>3. CASE PutReply(c) \/ PutPiece(c)
    BY <2>3, PutAnswered, PutPieceSent
  <2>4. CASE Fails(c) \/ GetEnd(c)
    BY <2>4, Failed, GetEnded
  <2> QED BY <1>3, <2>1, <2>2, <2>3, <2>4 DEF ClientRuns
<1>4. CASE Leave(c)
  BY <1>4, Left
<1> QED BY <1>1, <1>2, <1>3, <1>4 DEF ClientNext

LEMMA Starts == Init => IInv
<1> SUFFICES ASSUME Init PROVE IInv
  OBVIOUS
<1>1. /\ conns = << >> /\ Len(conns) = 0 /\ DOMAIN conns = {}
      /\ conns \in Seq(Connection)
  <2>1. conns = << >>
    BY DEF Init
  <2>2. conns \in Seq(Connection) /\ Len(conns) = 0
    BY <2>1, EmptySeq
  <2>3. DOMAIN conns = 1 .. 0
    BY <2>2, LenProperties
  <2> QED BY <2>1, <2>2, <2>3
<1>2. /\ spc = "accept" /\ conn = 0 /\ accepted = 0 /\ store \in Directory
      /\ fileLen = 0 /\ sname \in Name /\ sleft = << >> /\ crashes = 0
  BY FilesAssumption DEF Init, ServerInit
<1>3. /\ cpc = [c \in Client |-> "prompt"] /\ sock = [c \in Client |-> 0]
      /\ isAuth = [c \in Client |-> FALSE] /\ mine \in [Client -> Directory]
      /\ name \in [Client -> Name] /\ rest = [c \in Client |-> << >>]
      /\ want = [c \in Client |-> 0]
  BY FilesAssumption DEF Init, ClientInit
<1>4. Directory \subseteq [Name -> File]
  BY ByteCells DEF Directory, File
<1>5. ServerTypeOK
  <2>1. store \in [Name -> File]
    BY <1>2, <1>4
  <2>2. crashes \in 0 .. MaxCrash
    BY <1>2, CrashAssumption
  <2>3. sleft \in Seq(Cell)
    BY <1>2, EmptySeq
  <2> QED BY <1>1, <1>2, <2>1, <2>2, <2>3 DEF ServerTypeOK, ServerPlace
<1>6. ClientTypeOK
  <2>1. mine \in [Client -> [Name -> File]]
    BY <1>3, <1>4
  <2>2. rest \in [Client -> Seq(Cell)]
    BY <1>3, EmptySeq
  <2>3. cpc \in [Client -> ClientPlace]
    BY <1>3 DEF ClientPlace
  <2> QED BY <1>1, <1>3, <2>1, <2>2, <2>3 DEF ClientTypeOK
<1>7. SockInv
  BY <1>1, <1>3 DEF SockInv
<1>8. ConnInv
  BY <1>1, <1>2 DEF ConnInv
<1>9. FileInv
  BY <1>2, <1>3 DEF FileInv, Getting
<1>10. LinkInv /\ LeftInv
  BY <1>1, <1>3 DEF LinkInv, LeftInv
<1>11. AuthInv
  BY <1>1, <1>2, <1>3 DEF AuthInv, AskInv, AuthBeforeService, Putting
<1> QED BY <1>1, <1>5, <1>6, <1>7, <1>8, <1>9, <1>10, <1>11 DEF IInv, TypeOK

LEMMA Stutters == ASSUME IInv, UNCHANGED vars PROVE IInv'
<1>1. /\ conns' = conns /\ spc' = spc /\ conn' = conn /\ accepted' = accepted
      /\ store' = store /\ fileLen' = fileLen /\ sname' = sname /\ sleft' = sleft
      /\ crashes' = crashes /\ cpc' = cpc /\ sock' = sock /\ isAuth' = isAuth
      /\ mine' = mine /\ name' = name /\ rest' = rest /\ want' = want
  BY DEF vars, serverVars, clientVars
<1>2. TypeOK' /\ SockInv' /\ ConnInv' /\ FileInv'
  BY <1>1 DEF IInv, TypeOK, ServerTypeOK, ClientTypeOK, SockInv, ConnInv, FileInv
<1>3. LinkInv'
  <2>1. ASSUME NEW c \in Client, sock'[c] # 0 PROVE Link(c)'
    <3>1. Link(c) /\ sock[c] # 0
      BY <1>1, <2>1 DEF IInv, LinkInv
    <3> QED BY <1>1, <3>1, SameLink
  <2> QED BY <2>1 DEF LinkInv
<1>4. /\ Up' = Up
      /\ \A d : Stranded(d)' <=> Stranded(d)
  <2>1. Up' = Up
    BY <1>1 DEF Up
  <2>2. \A d : TornServed(d)' <=> TornServed(d)
    BY <1>1, <2>1 DEF TornServed
  <2> QED BY <1>1, <2>1, <2>2 DEF Stranded
<1>5. LeftInv'
  <2>1. \A file : LeftLink(file)' <=> LeftLink(file)
    BY <1>1, <1>4 DEF LeftLink
  <2> QED BY <1>1, <1>4, <2>1 DEF IInv, LeftInv
<1>6. AuthInv'
  <2>1. AskInv' /\ AuthBeforeService'
    BY <1>1 DEF IInv, AuthInv, AskInv, AuthBeforeService
  <2> QED BY <1>1, <1>4, <2>1 DEF IInv, AuthInv, Down
<1> QED BY <1>2, <1>3, <1>5, <1>6 DEF IInv

LEMMA Keeps == ASSUME Patient, IInv, [Next]_vars PROVE IInv'
<1>1. CASE ServerNext /\ UNCHANGED clientVars
  BY <1>1, ServerKeeps
<1>2. ASSUME NEW c \in Client, ClientNext(c), UNCHANGED serverVars PROVE IInv'
  BY <1>2, ClientKeeps
<1>3. CASE UNCHANGED vars
  BY <1>3, Stutters
<1> QED BY <1>1, <1>2, <1>3 DEF Next

\* The inductive invariant of every run: as long as no command is typed while the
\* server still reads a PUT, the two programs and the stream between them always
\* fit together, on every connection, and through every death of the server.
THEOREM Invariance == ASSUME Patient PROVE Spec => []IInv
<1>1. IInv /\ [Next]_vars => IInv'
  BY Keeps
<1> QED BY Starts, <1>1, PTL DEF Spec

\* Every variable keeps its type; among other things the server never accepts a
\* connection that nobody has opened, and a client's socket is one of its own.
THEOREM TypeCorrect == ASSUME Patient PROVE Spec => []TypeOK
<1>1. IInv => TypeOK
  BY DEF IInv
<1> QED BY <1>1, Invariance, PTL

\* A client that is back at its prompt has read all of the last reply, or, when TCP
\* has cut a listing, all but the end of that; and the server waits on its connection,
\* or has died: ftp_client.cpp's commands, each of which takes the next header for the
\* reply to itself, never take an older reply for it.
THEOREM SyncCorrect == ASSUME Patient PROVE Spec => []InSync
<1>1. IInv => InSync
  <2>1. SUFFICES ASSUME IInv, NEW c \in Client, cpc[c] = "prompt", sock[c] # 0
                 PROVE  /\ IF conns[sock[c]].torn
                           THEN Down(c) # << >> /\ Down(c)[1] \in ListCell
                           ELSE Down(c) = << >>
                        /\ \/ conns[sock[c]].dead
                           \/ conn = sock[c] /\ spc = "cmd"
                           \/ conn = sock[c] /\ spc \in Putting /\ ~conns[conn].torn
    BY DEF InSync
  <2>2. Link(c) /\ ~conns[sock[c]].left
    BY <2>1 DEF IInv, LinkInv, SockInv
  <2>3. /\ cpc[c] \notin Request /\ ~GetComes(c)
        /\ \A s : ~IsDismissal(s, cpc[c])
        /\ \A s : IsAnswer(s, cpc[c]) => s = << >>
    BY <2>1 DEF Request, GetComes, IsDismissal, IsAnswer
  <2>4. CASE conns[sock[c]].torn
    <3>1. TornLink(c)
      BY <2>2, <2>4 DEF Link
    <3>2. conn = sock[c] /\ TornServed(c) => spc = "cmd"
      BY <2>1, <2>2 DEF TornServed
    <3> QED BY <2>1, <2>4, <3>1, <3>2 DEF TornLink
  <2>5. CASE ~conns[sock[c]].torn /\ conns[sock[c]].dead
    BY <2>1, <2>2, <2>3, <2>5 DEF Link, DeadLink
  <2>6. CASE ~conns[sock[c]].torn /\ ~conns[sock[c]].dead
    <3>1. ~QueuedLink(c) /\ ~DismissedLink(c) /\ ~GetLink(c)
      BY <2>1, <2>3 DEF QueuedLink, DismissedLink, GetLink
    <3>2. ServedLink(c) /\ conn = sock[c]
      BY <2>2, <2>6, <3>1 DEF Link
    <3>3. CASE PutLink(c)
      BY <2>1, <2>6, <3>2, <3>3 DEF PutLink, Putting
    <3>4. CASE spc = "cmd" /\ Up = << >> /\ IsAnswer(Down(c), cpc[c])
      BY <2>3, <2>6, <3>2, <3>4
    <3> QED BY <2>3, <3>1, <3>2, <3>3, <3>4 DEF ServedLink
  <2> QED BY <2>4, <2>5, <2>6
<1> QED BY <1>1, Invariance, PTL

\* ftp_server.cpp never asks whether a client has logged in; its own clients never
\* ask for a file or a listing before, so that as long as the server lives, none
\* goes over a connection without accepted credentials.
THEOREM AuthCorrect == ASSUME Patient PROVE Spec => []AuthBeforeService
<1>1. IInv => AuthBeforeService
  BY DEF IInv, AuthInv
<1> QED BY <1>1, Invariance, PTL

\* The loops of ftp_server.cpp that get 0 from every recv are entered only after a
\* client that has ended without QUIT, or has closed its connection over the end of a
\* listing that TCP had cut.
THEOREM SpinCorrect == ASSUME Patient PROVE Spec => []SpinsOnlyForTheGone
<1>1. IInv => SpinsOnlyForTheGone
  <2>1. SUFFICES ASSUME IInv, spc = "spin"
                 PROVE  /\ conns[conn].left
                        /\ cpc[conns[conn].client] = "gone" \/ conns[conn].torn
    BY DEF SpinsOnlyForTheGone
  <2>2. /\ conn # 0 /\ conn \in 1 .. Len(conns) /\ ~conns[conn].dead
        /\ conns[conn].client \in Client /\ DOMAIN conns = 1 .. Len(conns)
    <3>1. conn # 0
      BY <2>1 DEF IInv, ConnInv
    <3> QED BY <2>1, <3>1, StateFacts
  <2>3. ASSUME ~conns[conn].left PROVE FALSE
    <3>1. PICK c \in Client : c = conns[conn].client /\ sock[c] = conn
      BY <2>1, <2>2, <2>3 DEF IInv, SockInv
    <3>2. Link(c)
      <4>1. sock[c] # 0
        BY <2>2, <3>1
      <4> QED BY <2>1, <4>1 DEF IInv, LinkInv
    <3>3. CASE conns[conn].torn
      <4>1. TornServed(c)
        BY <2>2, <3>1, <3>2, <3>3 DEF Link, TornLink
      <4> QED BY <2>1, <2>3, <4>1 DEF TornServed
    <3>4. CASE ~conns[conn].torn
      <4>1. ServedLink(c)
        BY <2>2, <3>1, <3>2, <3>4 DEF Link
      <4> QED BY <2>1, <4>1 DEF ServedLink, GetLink, PutLink
    <3> QED BY <3>3, <3>4
  <2>4. cpc[conns[conn].client] = "gone" \/ Stranded(conns[conn].client)
    BY <2>1, <2>2, <2>3, LeftConn
  <2> QED BY <2>3, <2>4 DEF Stranded
<1> QED BY <1>1, Invariance, PTL

\* Whenever the loop of PUT ends, the server's file is the client's, however long
\* it is and however TCP cuts it: also when the client has ended meanwhile.
THEOREM PutCorrect == ASSUME Patient PROVE Spec => PutIsWhole
<1>1. ASSUME IInv, [Next]_vars, spc \in Putting, spc' = "cmd"
      PROVE  store'[sname] = mine[conns[conn].client][sname]
  <2>1. spc' # spc
    BY <1>1 DEF Putting
  <2>2. CASE ServerNext /\ UNCHANGED clientVars
    <3>1. CASE PutFirst
      BY <1>1, <2>2, <3>1, TornPutting, FirstTaken
    <3>2. CASE PutMore
      BY <1>1, <2>2, <3>2, TornPutting, MoreTaken
    <3>3. CASE ServeOpen \/ ServeAuth \/ ServeQuit \/ ServeList \/ ServeGet \/ ServePut
      BY <1>1, <3>3 DEF ServeOpen, ServeAuth, ServeQuit, ServeList, ServeGet, ServePut,
                        Asked, Putting
    <3>4. CASE Accept \/ SendPiece \/ ReadEnd \/ ServerDies \/ ServerStarts
      BY <1>1, <3>4 DEF Accept, SendPiece, ReadEnd, ServerDies, ServerStarts, Putting
    <3> QED BY <2>2, <3>1, <3>2, <3>3, <3>4 DEF ServerNext, ServerRuns
  <2>3. spc' = spc => FALSE
    BY <2>1
  <2>4. ASSUME UNCHANGED serverVars PROVE FALSE
    BY <2>3, <2>4 DEF serverVars
  <2>5. ASSUME UNCHANGED vars PROVE FALSE
    BY <2>4, <2>5 DEF vars
  <2> QED BY <1>1, <2>2, <2>4, <2>5 DEF Next
<1>2. IInv /\ [Next]_vars => [(spc \in Putting /\ spc' = "cmd") =>
                                store'[sname] = mine[conns[conn].client][sname]]_vars
  BY <1>1
<1> QED BY <1>2, Invariance, PTL DEF Spec, PutIsWhole

\* Whenever the loop of GET ends at the prompt, the client's file is the server's,
\* as long as the process that sends it has not died.
THEOREM GetCorrect == ASSUME Patient PROVE Spec => GetIsWhole
<1>1. ASSUME IInv, [Next]_vars, NEW c \in Client,
             cpc[c] \in Getting, cpc'[c] = "prompt", crashes = 0
      PROVE  mine'[c][name[c]] = store[name[c]]
  <2>1. cpc'[c] # cpc[c] /\ cpc[c] # "prompt" /\ cpc[c] \notin Request /\ cpc[c] # "putdata"
        /\ cpc \in [Client -> ClientPlace]
    BY <1>1 DEF Getting, Request, IInv, TypeOK, ClientTypeOK
  <2>2. ~UNCHANGED clientVars
    BY <2>1 DEF clientVars
  <2>3. ~UNCHANGED vars
    BY <2>2 DEF vars
  <2>4. PICK d \in Client : ClientNext(d) /\ UNCHANGED serverVars
    BY <1>1, <2>2, <2>3 DEF Next
  <2>5. \E place : Goes(d, place)
    BY <2>4 DEF ClientNext, Open, Command, Authen, Ls, MyGet, MyPut, Quit, ClientRuns,
                OpenReply, AuthReply, LsReply, QuitReply, GetReply, GetFirst, GetMore,
                UntilGot, PutReply, PutPiece, Fails, GetEnd, Leave
  <2>6. d = c
    BY <2>1, <2>5 DEF Goes
  <2>7. CASE GetFirst(c)
    BY <1>1, <2>4, <2>7, GetFirstTaken
  <2>8. CASE GetMore(c)
    BY <1>1, <2>4, <2>8, GetMoreTaken
  <2>9. CASE GetEnd(c) \/ Leave(c)
    BY <1>1, <2>1, <2>9 DEF GetEnd, Leave, Goes
  <2>10. ~Open(c) /\ ~Command(c)
    BY <2>1 DEF Open, Command, Authen, Ls, MyGet, MyPut, Quit, LoggedIn, AtPrompt
  <2>11. ~OpenReply(c) /\ ~AuthReply(c) /\ ~LsReply(c) /\ ~QuitReply(c)
         /\ ~GetReply(c) /\ ~PutReply(c) /\ ~PutPiece(c) /\ ~Fails(c)
    BY <2>1 DEF OpenReply, AuthReply, LsReply, QuitReply, GetReply, PutReply, Replied,
                PutPiece, Fails, Request
  <2> QED BY <2>4, <2>6, <2>7, <2>8, <2>9, <2>10, <2>11 DEF ClientNext, ClientRuns
<1>2. IInv /\ [Next]_vars =>
        [\A c \in Client : cpc[c] \in Getting /\ cpc'[c] = "prompt" /\ crashes = 0 =>
                              mine'[c][name[c]] = store[name[c]]]_vars
  BY <1>1
<1> QED BY <1>2, Invariance, PTL DEF Spec, GetIsWhole
=============================================================================
