--------------------------- MODULE FtpServerProof ---------------------------
(* Every step of the server of myFTP keeps the inductive invariant.         *)
EXTENDS FtpLemmas

\* Who is where.
LEMMA StateFacts ==
    ASSUME IInv
    PROVE  /\ conns \in Seq(Connection) /\ Len(conns) \in Nat
           /\ DOMAIN conns = 1 .. Len(conns)
           /\ \A k \in 1 .. Len(conns) : conns[k] \in Connection
           /\ conn \in 0 .. accepted /\ accepted \in 0 .. Len(conns) /\ conn \in 0 .. Len(conns)
           /\ conn # 0 => /\ conn \in 1 .. Len(conns) /\ ~conns[conn].dead
                          /\ conns[conn].client \in Client
           /\ \A c \in Client : /\ sock[c] \in 0 .. Len(conns)
                                /\ sock[c] # 0 => sock[c] \in 1 .. Len(conns)
<1>1. /\ conns \in Seq(Connection) /\ Len(conns) \in Nat
      /\ DOMAIN conns = 1 .. Len(conns)
      /\ \A k \in 1 .. Len(conns) : conns[k] \in Connection
  BY LenProperties DEF IInv, TypeOK
<1>2. conn \in 0 .. accepted /\ accepted \in 0 .. Len(conns) /\ conn \in 0 .. Len(conns)
  BY <1>1 DEF IInv, TypeOK, ServerTypeOK
<1>3. \A c \in Client : /\ sock[c] \in 0 .. Len(conns)
                        /\ sock[c] # 0 => sock[c] \in 1 .. Len(conns)
  BY <1>1 DEF IInv, TypeOK, ClientTypeOK
<1>4. ASSUME conn # 0
      PROVE  conn \in 1 .. Len(conns) /\ ~conns[conn].dead /\ conns[conn].client \in Client
  <2>1. conn \in 1 .. Len(conns)
    BY <1>2, <1>4
  <2> QED BY <1>1, <1>4, <2>1 DEF IInv, ConnInv, Connection
<1> QED BY <1>1, <1>2, <1>3, <1>4

\* Connection k after a step that reads and sends on it.
Rewrites(k, up, down, authed) ==
    /\ conns' \in Seq(Connection) /\ Len(conns') = Len(conns)
    /\ \A j \in 1 .. Len(conns) : j # k => conns'[j] = conns[j]
    /\ conns'[k].client = conns[k].client
    /\ conns'[k].left = conns[k].left /\ conns'[k].dead = conns[k].dead
    /\ conns'[k].torn = conns[k].torn
    /\ conns'[k].up = up /\ conns'[k].down = down /\ conns'[k].authed = authed

LEMMA RecordRewritten ==
    ASSUME conns \in Seq(Connection), NEW k \in 1 .. Len(conns), NEW r \in Connection,
           r.client = conns[k].client, r.left = conns[k].left, r.dead = conns[k].dead,
           r.torn = conns[k].torn, conns' = [conns EXCEPT ![k] = r]
    PROVE  Rewrites(k, r.up, r.down, r.authed)
<1>1. /\ conns' \in Seq(Connection) /\ Len(conns') = Len(conns)
      /\ \A j \in 1 .. Len(conns) : conns'[j] = IF j = k THEN r ELSE conns[j]
  BY ExceptSeq
<1> QED BY <1>1 DEF Rewrites

LEMMA AnsweredRewrites ==
    ASSUME conns \in Seq(Connection), conn \in 1 .. Len(conns), NEW n, NEW cells,
           Drop(Up, n) \in Seq(Cell),
           ~conns[conn].left => conns[conn].down \o cells \in Seq(Cell),
           conns' = Answered(n, cells)
    PROVE  Rewrites(conn, Drop(Up, n),
                    IF conns[conn].left THEN conns[conn].down ELSE conns[conn].down \o cells,
                    conns[conn].authed)
<1>1. conns[conn] \in Connection
  BY LenProperties
<1>2. PICK u \in Seq(Cell) : u = Drop(Up, n)
  OBVIOUS
<1>3. PICK d \in Seq(Cell) :
        d = IF conns[conn].left THEN conns[conn].down ELSE conns[conn].down \o cells
  BY <1>1 DEF Connection
<1>4. PICK r \in Connection : r = [conns[conn] EXCEPT !.up = u, !.down = d]
  BY <1>1 DEF Connection
<1>5. conns' = [conns EXCEPT ![conn] = [conns[conn] EXCEPT !.up = u, !.down = d]]
  BY <1>1, <1>2, <1>3 DEF Answered, Up, Connection
<1>6. /\ r.client = conns[conn].client /\ r.left = conns[conn].left
      /\ r.dead = conns[conn].dead /\ r.torn = conns[conn].torn /\ r.up = u /\ r.down = d
      /\ r.authed = conns[conn].authed
  BY <1>1, <1>4 DEF Connection
<1>7. conns' = [conns EXCEPT ![conn] = r]
  BY <1>4, <1>5
<1>8. Rewrites(conn, r.up, r.down, r.authed)
  BY <1>6, <1>7, RecordRewritten
<1> QED BY <1>2, <1>3, <1>6, <1>8

LEMMA AnsweredAuthRewrites ==
    ASSUME conns \in Seq(Connection), conn \in 1 .. Len(conns), NEW n, NEW cells,
           Drop(Up, n) \in Seq(Cell), NEW right \in BOOLEAN,
           ~conns[conn].left => conns[conn].down \o cells \in Seq(Cell),
           conns' = [Answered(n, cells) EXCEPT ![conn].authed = right]
    PROVE  Rewrites(conn, Drop(Up, n),
                    IF conns[conn].left THEN conns[conn].down ELSE conns[conn].down \o cells,
                    right)
<1>1. conns[conn] \in Connection
  BY LenProperties
<1>2. PICK u \in Seq(Cell) : u = Drop(Up, n)
  OBVIOUS
<1>3. PICK d \in Seq(Cell) :
        d = IF conns[conn].left THEN conns[conn].down ELSE conns[conn].down \o cells
  BY <1>1 DEF Connection
<1>4. PICK r \in Connection :
        r = [conns[conn] EXCEPT !.up = u, !.down = d, !.authed = right]
  BY <1>1 DEF Connection
<1>5. conns' = [conns EXCEPT ![conn] = [conns[conn] EXCEPT !.up = u, !.down = d,
                                                            !.authed = right]]
  BY <1>1, <1>2, <1>3 DEF Answered, Up, Connection
<1>6. /\ r.client = conns[conn].client /\ r.left = conns[conn].left
      /\ r.dead = conns[conn].dead /\ r.torn = conns[conn].torn /\ r.up = u /\ r.down = d /\ r.authed = right
  BY <1>1, <1>4 DEF Connection
<1>7. conns' = [conns EXCEPT ![conn] = r]
  BY <1>4, <1>5
<1>8. Rewrites(conn, r.up, r.down, r.authed)
  BY <1>6, <1>7, RecordRewritten
<1> QED BY <1>2, <1>3, <1>6, <1>8

-----------------------------------------------------------------------------
(* A step of the server on its connection leaves the others alone.          *)

LEMMA OtherLink ==
    ASSUME NEW c \in Client, UNCHANGED clientVars, conns'[sock[c]] = conns[sock[c]],
           accepted' = accepted, conn # sock[c], conn' # sock[c], Link(c)
    PROVE  Link(c)'
<1>1. Down(c)' = Down(c)
  BY DEF Down, clientVars
<1>2. GetComes(c)' <=> GetComes(c)
  BY <1>1 DEF GetComes, clientVars
<1>3. DeadLink(c)' <=> DeadLink(c)
  BY <1>1, <1>2 DEF DeadLink, clientVars
<1>4. QueuedLink(c)' <=> QueuedLink(c)
  BY <1>1 DEF QueuedLink, clientVars
<1>5. DismissedLink(c)' <=> DismissedLink(c)
  BY <1>1 DEF DismissedLink, clientVars
<1>6. TornLink(c) => TornLink(c)'
  BY <1>1 DEF TornLink, clientVars
<1> QED BY <1>3, <1>4, <1>5, <1>6 DEF Link, clientVars

\* A command that needs credentials is on its way.
AsksService(up) ==
    \E i \in DOMAIN up : up[i] \in HeaderCell /\ up[i].type \in {"LIST", "GET", "PUT"}

\* Whether the client lets the server have its connection alone.
Calm == conns[conn].torn => cpc[conns[conn].client] = "gone"

\* What such a step has to see to, c being the client of the connection and
\* authed whether it is logged in after the step.
OwnEnd(c, down, authed) ==
    /\ ~conns[conn].left => Link(c)'
    /\ conns[conn].left /\ conn' = conn =>
          \/ cpc[c] = "gone" /\ LeftLink(mine[c][sname])'
          \/ cpc[c] # "gone" /\ Stranded(c)'
    /\ crashes = 0 /\ isAuth[c] /\ cpc[c] # "gone" =>
          (~conns[conn].left /\ authed) \/ Stranded(c)'
    /\ crashes = 0 /\ ~conns[conn].left /\ cpc[c] = "AUTH"
                   /\ down = Header("AUTH_REPLY", 1, 0) => authed
    /\ crashes = 0 /\ AsksService(conns'[conn].up) => authed
    /\ crashes = 0 /\ spc' \in Putting \cup {"get"} => authed

LEMMA OwnFrame ==
    ASSUME IInv, UNCHANGED clientVars, conn # 0,
           NEW own \in Client, own = conns[conn].client,
           NEW up, NEW down, NEW authed, Rewrites(conn, up, down, authed),
           conn' \in {conn, 0}, accepted' = accepted, crashes' = crashes,
           spc' \in ServerPlace \ {"down"}, spc' = "accept" <=> conn' = 0,
           store' \in Directory, fileLen' \in Nat, sname' \in Name,
           sleft' \in Seq(Cell), spc' = "get" <=> sleft' # << >>,
           OwnEnd(own, down, authed)
    PROVE  IInv'
<1>0. /\ conns \in Seq(Connection) /\ DOMAIN conns = 1 .. Len(conns) /\ Len(conns) \in Nat
      /\ conn \in 0 .. accepted /\ accepted \in 0 .. Len(conns)
      /\ conn \in 1 .. Len(conns) /\ ~conns[conn].dead /\ conns[conn].client \in Client
      /\ \A c \in Client : sock[c] \in 0 .. Len(conns)
      /\ \A c \in Client : sock[c] # 0 => sock[c] \in 1 .. Len(conns)
  BY StateFacts
<1>1. /\ conns' \in Seq(Connection) /\ Len(conns') = Len(conns)
      /\ DOMAIN conns' = 1 .. Len(conns)
      /\ \A j \in 1 .. Len(conns) : j # conn => conns'[j] = conns[j]
      /\ conns'[conn].client = conns[conn].client
      /\ conns'[conn].left = conns[conn].left /\ conns'[conn].dead = conns[conn].dead
      /\ conns'[conn].torn = conns[conn].torn
      /\ conns'[conn].up = up /\ conns'[conn].down = down /\ conns'[conn].authed = authed
  BY LenProperties DEF Rewrites
<1>2. /\ cpc' = cpc /\ sock' = sock /\ isAuth' = isAuth /\ mine' = mine
      /\ name' = name /\ rest' = rest /\ want' = want
  BY DEF clientVars
<1>3. \A j \in 1 .. Len(conns) : /\ conns'[j].client = conns[j].client
                                 /\ conns'[j].left = conns[j].left
                                 /\ conns'[j].dead = conns[j].dead
  BY <1>1
<1>4. TypeOK'
  <2>1. ServerTypeOK'
    <3>1. store' \in [Name -> File]
      BY ByteCells DEF Directory, File
    <3> QED BY <1>0, <1>1, <3>1 DEF ServerTypeOK, IInv, TypeOK
  <2>2. ClientTypeOK'
    BY <1>1, <1>2 DEF IInv, TypeOK, ClientTypeOK
  <2> QED BY <1>1, <2>1, <2>2 DEF TypeOK
<1>5. SockInv'
  <2>1. \A c \in Client :
          /\ cpc[c] \notin {"prompt", "gone"} => sock[c] # 0
          /\ cpc[c] = "gone" => sock[c] = 0
          /\ sock[c] # 0 => conns'[sock[c]].client = c /\ ~conns'[sock[c]].left
    BY <1>0, <1>3 DEF IInv, SockInv
  <2>2. \A k \in 1 .. Len(conns) : ~conns'[k].left => sock[conns'[k].client] = k
    BY <1>0, <1>3 DEF IInv, SockInv
  <2> QED BY <1>1, <1>2, <2>1, <2>2 DEF SockInv
<1>6. ConnInv'
  <2>1. ASSUME NEW k \in 1 .. Len(conns), conns'[k].dead
        PROVE  crashes' > 0 /\ k <= accepted' /\ k # conn' /\ conns'[k].up = << >>
    <3>1. conns[k].dead /\ k # conn /\ conns'[k] = conns[k]
      BY <1>0, <1>1, <1>3, <2>1
    <3>2. crashes > 0 /\ k <= accepted /\ conns[k].up = << >>
      BY <1>0, <3>1 DEF IInv, ConnInv
    <3>3. k # conn'
      BY <2>1, <3>1
    <3> QED BY <3>1, <3>2, <3>3
  <2> QED BY <1>1, <2>1 DEF ConnInv
<1>7. FileInv'
  BY <1>2 DEF IInv, FileInv
<1>8. LinkInv'
  <2>1. SUFFICES ASSUME NEW c \in Client, sock[c] # 0 PROVE Link(c)'
    BY <1>2 DEF LinkInv
  <2>2. sock[c] \in 1 .. Len(conns) /\ conns[sock[c]].client = c /\ ~conns[sock[c]].left
        /\ Link(c)
    BY <1>0, <2>1 DEF IInv, SockInv, LinkInv
  <2>3. CASE sock[c] = conn
    <3>1. c = own
      BY <2>2, <2>3
    <3>2. Link(own)'
      BY <2>2, <2>3 DEF OwnEnd
    <3> QED BY <3>1, <3>2
  <2>4. CASE sock[c] # conn
    <3>1. conns'[sock[c]] = conns[sock[c]]
      BY <1>1, <2>2, <2>4
    <3>2. conn # sock[c] /\ conn' # sock[c]
      BY <2>1, <2>4
    <3> QED BY <2>2, <3>1, <3>2, OtherLink
  <2> QED BY <2>3, <2>4
<1>9. LeftInv'
  <2>1. SUFFICES ASSUME NEW k \in 1 .. Len(conns), conns[k].left, ~conns[k].dead
                 PROVE  /\ k > accepted => /\ cpc[conns'[k].client] = "gone"
                                           /\ conns'[k].up = Header("OPEN", 0, 0)
                        /\ k = conn' =>
                              \/ /\ cpc[conns[k].client] = "gone"
                                 /\ LeftLink(mine[conns[k].client][sname])'
                              \/ /\ cpc[conns[k].client] # "gone"
                                 /\ Stranded(conns[k].client)'
    BY <1>1, <1>2, <1>3 DEF LeftInv
  <2>2. k > accepted => /\ cpc[conns'[k].client] = "gone"
                        /\ conns'[k].up = Header("OPEN", 0, 0)
    <3>1. k > accepted => k # conn
      BY <1>0
    <3>2. k > accepted => cpc[conns[k].client] = "gone" /\ conns[k].up = Header("OPEN", 0, 0)
      BY <1>0, <2>1 DEF IInv, LeftInv
    <3> QED BY <1>1, <2>1, <3>1, <3>2
  <2>3. ASSUME k = conn'
        PROVE  \/ /\ cpc[conns[k].client] = "gone"
                  /\ LeftLink(mine[conns[k].client][sname])'
               \/ /\ cpc[conns[k].client] # "gone"
                  /\ Stranded(conns[k].client)'
    <3>1. k = conn /\ conn' = conn
      BY <2>1, <2>3
    <3>2. \/ cpc[own] = "gone" /\ LeftLink(mine[own][sname])'
          \/ cpc[own] # "gone" /\ Stranded(own)'
      BY <2>1, <3>1 DEF OwnEnd
    <3>3. conns'[k].client = own /\ conns[k].client = own
      BY <1>1, <3>1
    <3> QED BY <3>2, <3>3
  <2> QED BY <2>2, <2>3
<1>10. AuthInv'
  <2>1. ASSUME crashes = 0, NEW c \in Client
        PROVE  /\ isAuth[c] /\ cpc[c] # "gone" =>
                     (sock[c] # 0 /\ conns'[sock[c]].authed) \/ Stranded(c)'
               /\ cpc[c] = "AUTH" /\ conns'[sock[c]].down = Header("AUTH_REPLY", 1, 0) =>
                     conns'[sock[c]].authed
    <3>1. /\ isAuth[c] /\ cpc[c] # "gone" =>
                (sock[c] # 0 /\ conns[sock[c]].authed) \/ Stranded(c)
          /\ cpc[c] = "AUTH" => sock[c] # 0
          /\ cpc[c] = "AUTH" /\ conns[sock[c]].down = Header("AUTH_REPLY", 1, 0) =>
                conns[sock[c]].authed
      BY <2>1 DEF IInv, AuthInv, SockInv, Down
    <3>2. sock[c] # 0 /\ sock[c] # conn => conns'[sock[c]] = conns[sock[c]]
      BY <1>0, <1>1
    <3>3. sock[c] = conn => c = own /\ ~conns[conn].left
      BY <1>0 DEF IInv, SockInv
    <3>4. c = own /\ ~conns[conn].left => sock[c] = conn
      BY <1>0 DEF IInv, SockInv
    <3>5. CASE c = own
      <4>1. isAuth[c] /\ cpc[c] # "gone" => (~conns[conn].left /\ authed) \/ Stranded(c)'
        BY <2>1, <3>5 DEF OwnEnd
      <4>2. ~conns[conn].left /\ cpc[c] = "AUTH" /\ down = Header("AUTH_REPLY", 1, 0)
              => authed
        BY <2>1, <3>5 DEF OwnEnd
      <4> QED BY <1>0, <1>1, <3>1, <3>2, <3>3, <3>4, <3>5, <4>1, <4>2
    <3>6. CASE c # own
      <4>1. ~Stranded(c) /\ sock[c] # conn
        BY <3>3, <3>6 DEF Stranded
      <4> QED BY <3>1, <3>2, <4>1
    <3> QED BY <3>5, <3>6
  <2>2. ASSUME crashes = 0, NEW k \in 1 .. Len(conns), AsksService(conns'[k].up)
        PROVE  conns'[k].authed
    <3>1. CASE k = conn
      BY <1>1, <2>2, <3>1 DEF OwnEnd
    <3>2. CASE k # conn
      <4>1. conns'[k] = conns[k]
        BY <1>1, <3>2
      <4> QED BY <1>0, <2>2, <4>1 DEF IInv, AuthInv, AuthBeforeService, AsksService
    <3> QED BY <3>1, <3>2
  <2>3. ASSUME crashes = 0, spc' \in Putting \cup {"get"}
        PROVE  conns'[conn'].authed
    <3>1. conn' = conn
      BY <2>3 DEF Putting
    <3> QED BY <1>1, <2>3, <3>1 DEF OwnEnd
  <2>4. AuthBeforeService'
    BY <1>1, <2>2, <2>3 DEF AuthBeforeService, AsksService
  <2>5. \A c \in Client : /\ cpc[c] = "AUTH" => ~isAuth[c]
                          /\ cpc[c] = "LIST" => isAuth[c]
    BY DEF IInv, AuthInv, AskInv
  <2>6. /\ \A c \in Client : /\ cpc'[c] = "AUTH" => ~isAuth'[c]
                             /\ cpc'[c] = "LIST" => isAuth'[c]
        /\ crashes' = 0 => \A c \in Client :
             /\ isAuth'[c] /\ cpc'[c] # "gone" =>
                   (sock'[c] # 0 /\ conns'[sock'[c]].authed) \/ Stranded(c)'
             /\ cpc'[c] = "AUTH" /\ Down(c)' = Header("AUTH_REPLY", 1, 0) =>
                   conns'[sock'[c]].authed
    BY <1>2, <2>1, <2>5 DEF Down
  <2> QED BY <2>4, <2>6 DEF AuthInv, AskInv
<1> QED BY <1>4, <1>5, <1>6, <1>7, <1>8, <1>9, <1>10 DEF IInv

\* The same for a connection whose listings have been read whole, or whose client
\* has ended.
OwnConnection(c, down, authed) ==
    /\ ~conns[conn].left => IF conn' = conn THEN ServedLink(c)' ELSE DismissedLink(c)'
    /\ conns[conn].left /\ conn' = conn => cpc[c] = "gone" /\ LeftLink(mine[c][sname])'
    /\ crashes = 0 /\ ~conns[conn].left =>
          /\ isAuth[c] => authed
          /\ cpc[c] = "AUTH" /\ down = Header("AUTH_REPLY", 1, 0) => authed
    /\ crashes = 0 /\ AsksService(conns'[conn].up) => authed
    /\ crashes = 0 /\ spc' \in Putting \cup {"get"} => authed

LEMMA LeftConn ==
    ASSUME IInv, conn # 0, conns[conn].left, NEW c, c = conns[conn].client
    PROVE  \/ cpc[c] = "gone" /\ LeftLink(mine[c][sname])
           \/ cpc[c] # "gone" /\ Stranded(c)
<1>1. conn \in DOMAIN conns /\ ~conns[conn].dead
  BY StateFacts
<1>2. \/ cpc[conns[conn].client] = "gone" /\ LeftLink(mine[conns[conn].client][sname])
      \/ cpc[conns[conn].client] # "gone" /\ Stranded(conns[conn].client)
  BY <1>1 DEF IInv, LeftInv
<1> QED BY <1>2

LEMMA ServerFrame ==
    ASSUME IInv, Calm, UNCHANGED clientVars, conn # 0,
           NEW own \in Client, own = conns[conn].client,
           NEW up, NEW down, NEW authed, Rewrites(conn, up, down, authed),
           conn' \in {conn, 0}, accepted' = accepted, crashes' = crashes,
           spc' \in ServerPlace \ {"down"}, spc' = "accept" <=> conn' = 0,
           store' \in Directory, fileLen' \in Nat, sname' \in Name,
           sleft' \in Seq(Cell), spc' = "get" <=> sleft' # << >>,
           OwnConnection(own, down, authed)
    PROVE  IInv'
<1>0. conn \in Nat /\ accepted \in Nat /\ conn <= accepted
  <2>1. conn \in 0 .. accepted /\ accepted \in 0 .. Len(conns) /\ Len(conns) \in Nat
    BY StateFacts
  <2> QED BY <2>1
<1>1. /\ conn \in 1 .. Len(conns) /\ DOMAIN conns = 1 .. Len(conns)
      /\ ~conns[conn].dead
      /\ conns'[conn].torn = conns[conn].torn /\ conns'[conn].dead = conns[conn].dead
  BY StateFacts DEF Rewrites
<1>2. ~conns[conn].left => sock[own] = conn /\ cpc[own] # "gone"
  BY <1>1 DEF IInv, SockInv
<1>3. ~conns[conn].left => ~conns[conn].torn
  BY <1>2 DEF Calm
<1>4. ~conns[conn].left => Link(own)'
  <2>1. SUFFICES ASSUME ~conns[conn].left PROVE Link(own)'
    OBVIOUS
  <2>2. sock'[own] = conn /\ ~conns'[conn].torn /\ ~conns'[conn].dead
    BY <1>1, <1>2, <1>3, <2>1 DEF clientVars
  <2>3. IF conn' = conn THEN ServedLink(own)' ELSE DismissedLink(own)'
    BY <2>1 DEF OwnConnection
  <2>4. conn' # sock'[own] => conn' = 0 /\ conn' # conn /\ ~(sock'[own] > accepted')
    BY <1>0, <1>2, <2>1 DEF clientVars
  <2>5. conn' = sock'[own] => conn' = conn
    BY <1>2, <2>1 DEF clientVars
  <2> QED BY <2>2, <2>3, <2>4, <2>5 DEF Link
<1>5. isAuth[own] /\ cpc[own] # "gone" /\ crashes = 0 => ~conns[conn].left /\ authed
  <2>1. ~Stranded(own) \/ cpc[own] = "gone"
    BY DEF Stranded, Calm
  <2>2. isAuth[own] /\ cpc[own] # "gone" /\ crashes = 0 => sock[own] # 0 \/ Stranded(own)
    BY DEF IInv, AuthInv
  <2>3. conns[conn].left => cpc[own] = "gone"
    <3>1. conns[conn].left => cpc[own] = "gone" \/ Stranded(own)
      BY LeftConn
    <3> QED BY <2>1, <3>1
  <2> QED BY <2>1, <2>2, <2>3 DEF OwnConnection
<1>6. OwnEnd(own, down, authed)
  BY <1>4, <1>5 DEF OwnEnd, OwnConnection
<1> QED BY <1>6, OwnFrame

-----------------------------------------------------------------------------
(* Requests.                                                               *)

LEMMA OwnLink ==
    ASSUME IInv, Calm, conn # 0, NEW c, c = conns[conn].client
    PROVE  /\ c \in Client
           /\ ~conns[conn].left => sock[c] = conn /\ ServedLink(c) /\ cpc[c] # "gone"
           /\ conns[conn].left => cpc[c] = "gone" /\ LeftLink(mine[c][sname])
<1>1. /\ conn \in 1 .. Len(conns) /\ DOMAIN conns = 1 .. Len(conns)
      /\ ~conns[conn].dead /\ c \in Client
  BY StateFacts
<1>2. ASSUME ~conns[conn].left
      PROVE  sock[c] = conn /\ ServedLink(c) /\ cpc[c] # "gone"
  <2>1. sock[c] = conn
    BY <1>1, <1>2 DEF IInv, SockInv
  <2>2. Link(c)
    BY <1>1, <2>1 DEF IInv, LinkInv
  <2>3. cpc[c] # "gone"
    BY <1>1, <2>1 DEF IInv, SockInv
  <2>4. ServedLink(c)
    BY <1>1, <2>1, <2>2, <2>3 DEF Link, Calm
  <2> QED BY <2>1, <2>3, <2>4
<1>3. conns[conn].left => cpc[c] = "gone" /\ LeftLink(mine[c][sname])
  <2>1. ~Stranded(c) \/ cpc[c] = "gone"
    BY DEF Stranded, Calm
  <2> QED BY <2>1, LeftConn
<1> QED BY <1>1, <1>2, <1>3, Zenon

\* The request that the server reads is the one its client waits for, alone.
LEMMA AskedFacts ==
    ASSUME IInv, Calm, NEW request \in Request, Asked(request), NEW c, c = conns[conn].client
    PROVE  /\ conn # 0 /\ c \in Client /\ sleft = << >> /\ spc = "cmd"
           /\ conns[conn].left => cpc[c] = "gone"
           /\ ~conns[conn].left => /\ sock[c] = conn /\ cpc[c] = request
                                   /\ conns[conn].down = << >>
           /\ \E n \in Name : /\ IsRequest(Up, request, n)
                              /\ ~conns[conn].left => n = name[c]
<1>1. spc = "cmd" /\ IsHeader(Up, request) /\ Up # << >>
  BY DEF Asked, IsHeader, AnyHeader
<1>2. conn # 0 /\ sleft = << >>
  BY <1>1 DEF IInv, ConnInv
<1>3. c \in Client
  BY <1>2, OwnLink
<1>4. ASSUME conns[conn].left
      PROVE  cpc[c] = "gone" /\ \E n \in Name : IsRequest(Up, request, n)
  <2>1. cpc[c] = "gone" /\ LeftLink(mine[c][sname])
    BY <1>2, <1>4, OwnLink
  <2>2. PICK type \in Request, n \in Name : IsRequest(Up, type, n)
    BY <1>1, <2>1 DEF LeftLink
  <2>3. type = request
    BY <1>1, <2>2, RequestFacts
  <2> QED BY <2>1, <2>2, <2>3
<1>5. ASSUME ~conns[conn].left
      PROVE  /\ sock[c] = conn /\ cpc[c] = request /\ conns[conn].down = << >>
             /\ name[c] \in Name /\ IsRequest(Up, request, name[c])
  <2>1. sock[c] = conn /\ ServedLink(c)
    BY <1>2, <1>5, OwnLink
  <2>2. cpc[c] \in Request /\ Down(c) = << >> /\ IsRequest(Up, cpc[c], name[c])
    BY <1>1, <2>1 DEF ServedLink, GetLink, PutLink
  <2>3. name[c] \in Name
    BY <1>3 DEF IInv, TypeOK, ClientTypeOK
  <2>4. request = cpc[c]
    BY <1>1, <2>2, <2>3, RequestFacts
  <2> QED BY <2>1, <2>2, <2>3, <2>4 DEF Down
<1> QED BY <1>1, <1>2, <1>3, <1>4, <1>5

\* A reply that takes the server back to its next request.
LEMMA AnswerGiven ==
    ASSUME IInv, Calm, UNCHANGED clientVars, NEW request \in Request, Asked(request),
           NEW reply, IsAnswer(reply, request),
           NEW authed \in BOOLEAN,
           Rewrites(conn, << >>,
                    IF conns[conn].left THEN conns[conn].down ELSE conns[conn].down \o reply,
                    authed),
           UNCHANGED serverVars,
           crashes = 0 /\ ~conns[conn].left =>
              /\ isAuth[conns[conn].client] => authed
              /\ reply = Header("AUTH_REPLY", 1, 0) => authed
    PROVE  IInv'
<1> DEFINE c == conns[conn].client
           down == IF conns[conn].left THEN conns[conn].down ELSE conns[conn].down \o reply
<1>1. /\ conn # 0 /\ c \in Client /\ sleft = << >> /\ spc = "cmd"
      /\ conns[conn].left => cpc[c] = "gone"
      /\ ~conns[conn].left => /\ sock[c] = conn /\ cpc[c] = request
                              /\ conns[conn].down = << >>
  BY AskedFacts
<1> HIDE DEF c
<1>2. PICK own \in Client : own = c
  BY <1>1
<1>3. /\ spc' = spc /\ conn' = conn /\ accepted' = accepted /\ store' = store
      /\ fileLen' = fileLen /\ sname' = sname /\ sleft' = sleft /\ crashes' = crashes
      /\ cpc' = cpc /\ sock' = sock /\ mine' = mine
  BY DEF serverVars, clientVars
<1>4. conns'[conn].up = << >> /\ conns'[conn].down = down /\ Up' = << >>
  BY <1>3 DEF Rewrites, Up
<1>5. ASSUME ~conns[conn].left PROVE ServedLink(own)' /\ conns'[conn].down = reply
  <2>1. request \in {"OPEN", "AUTH", "GET", "LIST"}
    BY DEF IsAnswer, Request
  <2>2. reply \in Seq(Cell)
    BY <2>1, AnswerFacts DEF Shows
  <2>3. Down(own)' = reply
    BY <1>1, <1>2, <1>3, <1>4, <1>5, <2>2, ConcatEmptySeq DEF Down
  <2>4. cpc'[own] = request
    BY <1>1, <1>2, <1>3, <1>5
  <2>5. Up' = << >> /\ spc' = "cmd"
    BY <1>1, <1>3, <1>4
  <2>6. sock'[own] = conn
    BY <1>1, <1>2, <1>3, <1>5
  <2>7. IsAnswer(Down(own)', cpc'[own])
    BY <2>3, <2>4
  <2> QED BY <2>3, <2>5, <2>6, <2>7 DEF ServedLink, Down, IsAnswer
<1>6. ASSUME conns[conn].left PROVE cpc[own] = "gone" /\ LeftLink(mine[own][sname])'
  BY <1>1, <1>2, <1>3, <1>4, <1>6 DEF LeftLink
<1>7. ~AsksService(conns'[conn].up)
  BY <1>4 DEF AsksService
<1>8. OwnConnection(own, down, authed)
  <2>1. spc' \notin Putting \cup {"get"}
    BY <1>1, <1>3 DEF Putting
  <2>2. ~conns[conn].left => down = reply
    BY <1>4, <1>5
  <2>3. crashes = 0 /\ ~conns[conn].left =>
          /\ isAuth[own] => authed
          /\ reply = Header("AUTH_REPLY", 1, 0) => authed
    BY <1>2 DEF c
  <2> QED BY <1>3, <1>5, <1>6, <1>7, <2>1, <2>2, <2>3 DEF OwnConnection
<1>9. /\ store' \in Directory /\ fileLen' \in Nat /\ sname' \in Name
      /\ sleft' \in Seq(Cell) /\ (spc' = "get" <=> sleft' # << >>)
      /\ spc' \in ServerPlace \ {"down"} /\ (spc' = "accept" <=> conn' = 0)
  BY <1>1, <1>3 DEF IInv, TypeOK, ServerTypeOK, FileInv, ConnInv, ServerPlace
<1>10. Rewrites(conn, << >>, down, authed)
  OBVIOUS
<1>11. own = conns[conn].client
  BY <1>2 DEF c
<1> HIDE DEF down
<1> QED BY <1>1, <1>3, <1>8, <1>9, <1>10, <1>11, ServerFrame

LEMMA AskedRewrites ==
    ASSUME IInv, Calm, NEW request \in Request, Asked(request), NEW n, Drop(Up, n) = << >>,
           NEW reply \in Seq(Cell), conns' = Answered(n, reply)
    PROVE  /\ conns[conn].authed \in BOOLEAN
           /\ Rewrites(conn, << >>,
                IF conns[conn].left THEN conns[conn].down ELSE conns[conn].down \o reply,
                conns[conn].authed)
<1>1. PICK c : c = conns[conn].client
  OBVIOUS
<1>2. /\ conns \in Seq(Connection) /\ conn \in 1 .. Len(conns)
      /\ conns[conn] \in Connection /\ Drop(Up, n) \in Seq(Cell)
      /\ (~conns[conn].left => conns[conn].down = << >>)
  BY <1>1, StateFacts, AskedFacts, EmptySeq
<1>3. ~conns[conn].left => conns[conn].down \o reply \in Seq(Cell)
  BY <1>2, ConcatEmptySeq
<1>4. Rewrites(conn, Drop(Up, n),
               IF conns[conn].left THEN conns[conn].down ELSE conns[conn].down \o reply,
               conns[conn].authed)
  BY <1>2, <1>3, AnsweredRewrites
<1> QED BY <1>2, <1>4 DEF Connection

LEMMA AuthedStays ==
    ASSUME IInv, Calm, NEW request \in Request, Asked(request), crashes = 0, ~conns[conn].left,
           isAuth[conns[conn].client]
    PROVE  conns[conn].authed
<1>1. PICK c : c = conns[conn].client
  OBVIOUS
<1>2. c \in Client /\ sock[c] = conn /\ conn # 0
  BY <1>1, AskedFacts
<1>3. cpc[c] # "gone"
  BY <1>2 DEF IInv, SockInv
<1>4. ~Stranded(c)
  BY <1>1, <1>3 DEF Stranded, Calm
<1> QED BY <1>1, <1>2, <1>3, <1>4 DEF IInv, AuthInv

LEMMA OpenServed == ASSUME IInv, Calm, ServeOpen, UNCHANGED clientVars PROVE IInv'
<1>1. Asked("OPEN") /\ "OPEN" \in Request /\ UNCHANGED serverVars
  BY DEF ServeOpen, Request
<1>2. PICK n \in Name : IsRequest(Up, "OPEN", n)
  BY <1>1, AskedFacts
<1>3. PICK reply : reply = Header("OPEN_REPLY", 1, 0)
  OBVIOUS
<1>4. IsAnswer(reply, "OPEN") /\ reply \in Seq(Cell)
  BY <1>3, MessageTypes, ReplyNames, HeaderFacts DEF IsAnswer
<1>5. Drop(Up, HeaderLen) = << >>
  BY <1>1, <1>2, RequestFacts
<1>6. conns' = Answered(HeaderLen, reply)
  BY <1>3, ReplyNames DEF ServeOpen
<1>7. /\ conns[conn].authed \in BOOLEAN
      /\ Rewrites(conn, << >>,
                IF conns[conn].left THEN conns[conn].down ELSE conns[conn].down \o reply,
                conns[conn].authed)
  BY <1>1, <1>4, <1>5, <1>6, AskedRewrites
<1>8. reply # Header("AUTH_REPLY", 1, 0)
  <2>1. ~IsHeader(reply, "AUTH_REPLY")
    BY <1>4, ReplyNames, AnswerFacts DEF Shows
  <2>2. IsHeader(Header("AUTH_REPLY", 1, 0), "AUTH_REPLY")
    BY MessageTypes, SeenBare DEF Shows
  <2> QED BY <2>1, <2>2
<1>9. crashes = 0 /\ ~conns[conn].left =>
          /\ isAuth[conns[conn].client] => conns[conn].authed
          /\ reply = Header("AUTH_REPLY", 1, 0) => conns[conn].authed
  BY <1>1, <1>8, AuthedStays
<1> QED BY <1>1, <1>4, <1>7, <1>9, AnswerGiven

LEMMA ListServed == ASSUME IInv, Calm, ServeList, UNCHANGED clientVars PROVE IInv'
<1>1. Asked("LIST") /\ "LIST" \in Request /\ UNCHANGED serverVars
  BY DEF ServeList, Request
<1>2. PICK n \in Name : IsRequest(Up, "LIST", n)
  BY <1>1, AskedFacts
<1>3. PICK names \in SUBSET Name : names = {m \in Name : store[m] # NoFile}
  OBVIOUS
<1>4. PICK reply : reply = Header("LIST_REPLY", 0, 0) \o Listing(names)
  OBVIOUS
<1>5. IsAnswer(reply, "LIST")
  BY <1>4 DEF IsAnswer
<1>6. reply \in Seq(Cell)
  BY <1>5, AnswerFacts DEF Shows
<1>7. Drop(Up, HeaderLen) = << >>
  BY <1>1, <1>2, RequestFacts
<1>8. conns' = Answered(HeaderLen, reply)
  BY <1>3, <1>4, ReplyNames DEF ServeList
<1>9. /\ conns[conn].authed \in BOOLEAN
      /\ Rewrites(conn, << >>,
                IF conns[conn].left THEN conns[conn].down ELSE conns[conn].down \o reply,
                conns[conn].authed)
  BY <1>1, <1>6, <1>7, <1>8, AskedRewrites
<1>10. reply # Header("AUTH_REPLY", 1, 0)
  <2>1. ~IsHeader(reply, "AUTH_REPLY")
    BY <1>5, ReplyNames, AnswerFacts DEF Shows
  <2>2. IsHeader(Header("AUTH_REPLY", 1, 0), "AUTH_REPLY")
    BY MessageTypes, SeenBare DEF Shows
  <2> QED BY <2>1, <2>2
<1>11. crashes = 0 /\ ~conns[conn].left =>
          /\ isAuth[conns[conn].client] => conns[conn].authed
          /\ reply = Header("AUTH_REPLY", 1, 0) => conns[conn].authed
  BY <1>1, <1>10, AuthedStays
<1> QED BY <1>1, <1>5, <1>9, <1>11, AnswerGiven

\* A reply that drops the connection, with what is left of its credentials.
LEMMA DismissalGiven ==
    ASSUME IInv, Calm, UNCHANGED clientVars, NEW request \in Request, Asked(request),
           NEW reply, IsDismissal(reply, request),
           NEW authed,
           Rewrites(conn, << >>,
                    IF conns[conn].left THEN conns[conn].down ELSE conns[conn].down \o reply,
                    authed),
           Here, UNCHANGED <<accepted, store, fileLen, sname, sleft, crashes>>,
           crashes = 0 /\ ~conns[conn].left /\ isAuth[conns[conn].client] => authed
    PROVE  IInv'
<1> DEFINE c == conns[conn].client
           down == IF conns[conn].left THEN conns[conn].down ELSE conns[conn].down \o reply
<1>1. /\ conn # 0 /\ c \in Client /\ sleft = << >> /\ spc = "cmd"
      /\ ~conns[conn].left => /\ sock[c] = conn /\ cpc[c] = request
                              /\ conns[conn].down = << >>
  BY AskedFacts
<1> HIDE DEF c
<1>2. PICK own \in Client : own = c
  BY <1>1
<1>3. /\ spc' = "accept" /\ conn' = 0 /\ cpc' = cpc /\ sock' = sock
  BY DEF Here, clientVars
<1>4. conns'[conn].up = << >> /\ conns'[conn].down = down
  BY DEF Rewrites
<1>a. reply \in Seq(Cell) /\ reply # Header("AUTH_REPLY", 1, 0)
  <2>1. Shows(reply, ReplyTo[request], 0, 0)
    BY DismissalFacts
  <2>2. Shows(Header("AUTH_REPLY", 1, 0), "AUTH_REPLY", 1, 0)
    BY MessageTypes, SeenBare
  <2> QED BY <2>1, <2>2 DEF Shows
<1>5. ASSUME ~conns[conn].left PROVE DismissedLink(own)' /\ down = reply
  <2>1. sock'[own] = conn /\ cpc'[own] = request /\ down = reply
    BY <1>a, <1>1, <1>2, <1>3, <1>5, ConcatEmptySeq
  <2>2. Down(own)' = reply /\ conns'[sock'[own]].up = << >>
    BY <1>4, <2>1 DEF Down
  <2> QED BY <2>1, <2>2 DEF DismissedLink, IsDismissal
<1>6. OwnConnection(own, down, authed)
  <2>1. ~AsksService(conns'[conn].up)
    BY <1>4 DEF AsksService
  <2>2. spc' \notin Putting \cup {"get"} /\ conn' # conn
    BY <1>1, <1>3 DEF Putting
  <2>3. crashes = 0 /\ ~conns[conn].left /\ isAuth[own] => authed
    BY <1>2 DEF c
  <2> QED BY <1>5, <1>a, <2>1, <2>2, <2>3 DEF OwnConnection
<1>7. /\ store' \in Directory /\ fileLen' \in Nat /\ sname' \in Name
      /\ sleft' \in Seq(Cell) /\ (spc' = "get" <=> sleft' # << >>)
      /\ spc' \in ServerPlace \ {"down"} /\ (spc' = "accept" <=> conn' = 0)
  BY <1>1, <1>3 DEF IInv, TypeOK, ServerTypeOK, FileInv, ServerPlace
<1>8. Rewrites(conn, << >>, down, authed) /\ accepted' = accepted /\ crashes' = crashes
  OBVIOUS
<1>9. own = conns[conn].client /\ conn' \in {conn, 0}
  BY <1>2, <1>3 DEF c
<1> HIDE DEF down
<1> QED BY <1>1, <1>6, <1>7, <1>8, <1>9, ServerFrame

LEMMA QuitServed == ASSUME IInv, Calm, ServeQuit, UNCHANGED clientVars PROVE IInv'
<1>1. /\ Asked("QUIT") /\ "QUIT" \in Request /\ Here
      /\ UNCHANGED <<accepted, store, fileLen, sname, sleft, crashes>>
  BY DEF ServeQuit, Request
<1>2. PICK n \in Name : IsRequest(Up, "QUIT", n)
  BY <1>1, AskedFacts
<1>3. PICK reply : reply = Header("QUIT_REPLY", 0, 0)
  OBVIOUS
<1>4. IsDismissal(reply, "QUIT")
  BY <1>3 DEF IsDismissal
<1>5. reply \in Seq(Cell)
  BY <1>4, DismissalFacts DEF Shows
<1>6. Drop(Up, HeaderLen) = << >>
  BY <1>1, <1>2, RequestFacts
<1>7. conns' = Answered(HeaderLen, reply)
  BY <1>3, ReplyNames DEF ServeQuit
<1>8. Rewrites(conn, << >>,
               IF conns[conn].left THEN conns[conn].down ELSE conns[conn].down \o reply,
               conns[conn].authed)
  BY <1>1, <1>5, <1>6, <1>7, AskedRewrites
<1>9. crashes = 0 /\ ~conns[conn].left /\ isAuth[conns[conn].client] => conns[conn].authed
  BY <1>1, AuthedStays
<1> QED BY <1>1, <1>4, <1>8, <1>9, DismissalGiven

LEMMA AuthServed == ASSUME IInv, Calm, ServeAuth, UNCHANGED clientVars PROVE IInv'
<1>1. /\ Asked("AUTH") /\ "AUTH" \in Request
      /\ UNCHANGED <<accepted, store, fileLen, sname, sleft, crashes>>
  BY DEF ServeAuth, Request
<1>2. PICK right \in BOOLEAN :
        /\ conns' = [Answered(HeaderLen + 1,
                              Header("AUTH_REPLY", IF right THEN 1 ELSE 0, 0))
                        EXCEPT ![conn].authed = right]
        /\ IF right THEN UNCHANGED <<conn, spc>> ELSE Here
  BY ReplyNames DEF ServeAuth
<1>3. PICK n \in Name : IsRequest(Up, "AUTH", n)
  BY <1>1, AskedFacts
<1>4. PICK c : c = conns[conn].client
  OBVIOUS
<1>5. /\ conn # 0 /\ c \in Client
      /\ ~conns[conn].left => cpc[c] = "AUTH" /\ conns[conn].down = << >>
  BY <1>1, <1>4, AskedFacts
<1>6. PICK reply : reply = Header("AUTH_REPLY", IF right THEN 1 ELSE 0, 0)
  OBVIOUS
<1>7. reply \in Seq(Cell)
  <2>1. (IF right THEN 1 ELSE 0) \in {0, 1}
    OBVIOUS
  <2> QED BY <1>6, <2>1, MessageTypes, HeaderFacts
<1>8. Rewrites(conn, << >>,
               IF conns[conn].left THEN conns[conn].down ELSE conns[conn].down \o reply,
               right)
  <2>1. /\ conns \in Seq(Connection) /\ conn \in 1 .. Len(conns) /\ << >> \in Seq(Cell)
    BY <1>5, StateFacts, EmptySeq
  <2>2. Drop(Up, HeaderLen + 1) = << >> /\ Drop(Up, HeaderLen + 1) \in Seq(Cell)
    BY <1>1, <1>3, <2>1, RequestFacts
  <2>3. ~conns[conn].left => conns[conn].down \o reply \in Seq(Cell)
    BY <1>5, <1>7, ConcatEmptySeq
  <2>4. conns' = [Answered(HeaderLen + 1, reply) EXCEPT ![conn].authed = right]
    BY <1>2, <1>6
  <2>5. Rewrites(conn, Drop(Up, HeaderLen + 1),
               IF conns[conn].left THEN conns[conn].down ELSE conns[conn].down \o reply,
               right)
    BY <2>1, <2>2, <2>3, <2>4, AnsweredAuthRewrites
  <2> QED BY <2>2, <2>5
<1>9. ~conns[conn].left => ~isAuth[conns[conn].client]
  <2>1. \A d \in Client : cpc[d] = "AUTH" => ~isAuth[d]
    BY DEF IInv, AuthInv, AskInv
  <2> QED BY <1>4, <1>5, <2>1
<1>10. CASE right
  <2>1. IsAnswer(reply, "AUTH")
    BY <1>6, <1>10, ReplyNames DEF IsAnswer
  <2>2. UNCHANGED serverVars
    BY <1>1, <1>2, <1>10 DEF serverVars
  <2>3. crashes = 0 /\ ~conns[conn].left =>
          /\ isAuth[conns[conn].client] => right
          /\ reply = Header("AUTH_REPLY", 1, 0) => right
    BY <1>10
  <2> QED BY <1>1, <1>8, <2>1, <2>2, <2>3, AnswerGiven
<1>11. CASE ~right
  <2>1. IsDismissal(reply, "AUTH")
    BY <1>6, <1>11 DEF IsDismissal
  <2>2. Here
    BY <1>2, <1>11
  <2> QED BY <1>1, <1>8, <1>9, <2>1, <2>2, DismissalGiven
<1> QED BY <1>10, <1>11

-----------------------------------------------------------------------------
(* GET.                                                                    *)

\* A request for service comes from a client that is logged in.
LEMMA AskedAuthed ==
    ASSUME IInv, NEW request \in {"LIST", "GET", "PUT"}, Asked(request), crashes = 0
    PROVE  conns[conn].authed
<1>1. request \in Request /\ Up # << >> /\ Up[1] \in HeaderCell /\ Up[1].type = request
  BY DEF Asked, IsHeader, AnyHeader, Request
<1>2. conn # 0
  BY DEF Asked, IInv, ConnInv
<1>3. conn \in DOMAIN conns /\ conns[conn] \in Connection
  BY <1>2, StateFacts
<1>4. Up \in Seq(Cell)
  BY <1>3 DEF Up, Connection
<1>5. Len(Up) \in Nat \ {0}
  BY <1>1, <1>4, EmptySeq
<1>6. 1 \in DOMAIN Up
  BY <1>4, <1>5, LenProperties
<1> QED BY <1>1, <1>3, <1>6 DEF IInv, AuthInv, AuthBeforeService, Up

\* The whole of what a GET is answered with.
LEMMA FileReplySent ==
    ASSUME NEW n \in Nat
    PROVE  LET reply == Header("GET_REPLY", 1, 0) \o Header("FILE_DATA", 0, n)
           IN  /\ reply \in Seq(Cell) /\ IsFileReply(reply)
               /\ Drop(Drop(reply, HeaderLen), HeaderLen) = << >>
               /\ Drop(reply, HeaderLen)[1].len = n
<1>0. << >> \in Seq(Byte) /\ Len(<< >>) = 0 /\ 0 <= n
  BY EmptySeq
<1>1. PICK d \in Seq(Byte) : d = << >> /\ Len(d) <= n
  BY <1>0
<1>2. Header("FILE_DATA", 0, n) = Header("FILE_DATA", 0, n) \o d
  BY <1>1, MessageTypes, BareHeader
<1>3. /\ IsFileData(Header("FILE_DATA", 0, n) \o d)
      /\ Shows(Header("FILE_DATA", 0, n) \o d, "FILE_DATA", 0, n)
      /\ Drop(Header("FILE_DATA", 0, n) \o d, HeaderLen) = d
  BY <1>1, FileDataFacts
<1>4. PICK s : s = Header("FILE_DATA", 0, n)
  OBVIOUS
<1>5. IsFileData(s) /\ s[1].len = n /\ Drop(s, HeaderLen) = << >>
  BY <1>1, <1>2, <1>3, <1>4 DEF Shows
<1>6. /\ IsFileReply(Header("GET_REPLY", 1, 0) \o s)
      /\ Shows(Header("GET_REPLY", 1, 0) \o s, "GET_REPLY", 1, 0)
      /\ Drop(Header("GET_REPLY", 1, 0) \o s, HeaderLen) = s
  BY <1>5, FileReplyFacts
<1> QED BY <1>4, <1>5, <1>6 DEF Shows

LEMMA GetServed == ASSUME IInv, Calm, ServeGet, UNCHANGED clientVars PROVE IInv'
<1>1. /\ Asked("GET") /\ "GET" \in Request /\ "GET" \in {"LIST", "GET", "PUT"}
      /\ UNCHANGED <<conn, accepted, store, fileLen, sname, crashes>>
  BY DEF ServeGet, Request
<1>2. PICK c : c = conns[conn].client
  OBVIOUS
<1>3. /\ conn # 0 /\ c \in Client /\ sleft = << >> /\ spc = "cmd"
      /\ conns[conn].left => cpc[c] = "gone"
      /\ ~conns[conn].left => /\ sock[c] = conn /\ cpc[c] = "GET"
                              /\ conns[conn].down = << >>
  BY <1>1, <1>2, AskedFacts
<1>4. PICK n \in Name : IsRequest(Up, "GET", n) /\ (~conns[conn].left => n = name[c])
  BY <1>1, <1>2, AskedFacts
<1>5. Up[HeaderLen + 1] = [name |-> n] /\ Drop(Up, HeaderLen + 1) = << >>
  BY <1>1, <1>4, RequestFacts
<1>6. \A m : Up[HeaderLen + 1] = [name |-> m] => m = n
  BY <1>5
<1>7. CASE store[n] = NoFile
  <2>1. PICK reply : reply = Header("GET_REPLY", 0, 0)
    OBVIOUS
  <2>2. /\ conns' = Answered(HeaderLen + 1, reply) /\ UNCHANGED serverVars
    BY <1>6, <1>7, <2>1, ReplyNames DEF ServeGet, serverVars
  <2>3. IsAnswer(reply, "GET")
    BY <2>1 DEF IsAnswer
  <2>4. Shows(reply, "GET_REPLY", 0, 0)
    BY <2>1, MessageTypes, SeenBare
  <2>5. reply \in Seq(Cell) /\ reply # Header("AUTH_REPLY", 1, 0)
    <3>1. Shows(Header("AUTH_REPLY", 1, 0), "AUTH_REPLY", 1, 0)
      BY MessageTypes, SeenBare
    <3> QED BY <2>4, <3>1 DEF Shows
  <2>6. /\ conns[conn].authed \in BOOLEAN
        /\ Rewrites(conn, << >>,
                IF conns[conn].left THEN conns[conn].down ELSE conns[conn].down \o reply,
                conns[conn].authed)
    BY <1>1, <1>5, <2>2, <2>5, AskedRewrites
  <2>7. crashes = 0 /\ ~conns[conn].left =>
          /\ isAuth[conns[conn].client] => conns[conn].authed
          /\ reply = Header("AUTH_REPLY", 1, 0) => conns[conn].authed
    BY <1>1, <2>5, AuthedStays
  <2> QED BY <1>1, <2>2, <2>3, <2>6, <2>7, AnswerGiven
<1>8. CASE store[n] # NoFile
  <2>1. PICK file \in Seq(Byte) : file = store[n]
    BY <1>8 DEF IInv, FileInv, Directory
  <2>2. PICK reply : reply = Header("GET_REPLY", 1, 0) \o Header("FILE_DATA", 0, Len(file))
    OBVIOUS
  <2>3. /\ conns' = Answered(HeaderLen + 1, reply) /\ sleft' = file
        /\ spc' = IF file = << >> THEN "cmd" ELSE "get"
    BY <1>6, <1>8, <2>1, <2>2, ReplyNames DEF ServeGet
  <2>4. /\ reply \in Seq(Cell) /\ IsFileReply(reply)
        /\ Drop(Drop(reply, HeaderLen), HeaderLen) = << >>
        /\ Drop(reply, HeaderLen)[1].len = Len(file)
    BY <2>2, LenProperties, FileReplySent
  <2>5. PICK down : down = IF conns[conn].left THEN conns[conn].down
                                              ELSE conns[conn].down \o reply
    OBVIOUS
  <2>6. Rewrites(conn, << >>, down, conns[conn].authed)
    BY <1>1, <1>5, <2>3, <2>4, <2>5, AskedRewrites
  <2>7. conns'[conn].up = << >> /\ conns'[conn].down = down /\ Up' = << >>
    BY <1>1, <2>6 DEF Rewrites, Up
  <2>8. spc' \in {"cmd", "get"} /\ conn' = conn /\ store' = store /\ sname' = sname
    BY <1>1, <2>3
  <2>9. /\ cpc' = cpc /\ sock' = sock /\ name' = name /\ mine' = mine /\ want' = want
    BY DEF clientVars
  <2>10. ASSUME ~conns[conn].left PROVE ServedLink(c)'
    <3>1. down = reply
      BY <1>3, <2>4, <2>5, <2>10, ConcatEmptySeq
    <3>2. Down(c)' = reply /\ cpc'[c] = "GET" /\ store'[name'[c]] = file /\ file # NoFile
      BY <1>3, <1>4, <1>8, <2>1, <2>7, <2>8, <2>9, <2>10, <3>1 DEF Down
    <3>3. GetComes(c)'
      BY <2>4, <3>2 DEF GetComes
    <3>4. GetLength(c)' = Len(file) /\ GetData(c)' = << >>
      BY <2>4, <3>2 DEF GetLength, GetData
    <3>5. << >> \o sleft' = file
      BY <2>3, ConcatEmptySeq
    <3>6. GetLink(c)'
      BY <2>7, <2>8, <3>2, <3>3, <3>4, <3>5 DEF GetLink
    <3> QED BY <3>6 DEF ServedLink
  <2>11. ASSUME conns[conn].left PROVE cpc[c] = "gone" /\ LeftLink(mine[c][sname])'
    BY <1>3, <2>7, <2>8, <2>11 DEF LeftLink
  <2>12. ~AsksService(conns'[conn].up)
    BY <2>7 DEF AsksService
  <2>13. OwnConnection(c, down, conns[conn].authed)
    <3>1. ~conns[conn].left => down = reply
      BY <1>3, <2>4, <2>5, ConcatEmptySeq
    <3>2. crashes = 0 => conns[conn].authed
      BY <1>1, AskedAuthed
    <3> QED BY <2>8, <2>10, <2>11, <2>12, <3>2 DEF OwnConnection
  <2>14. /\ store' \in Directory /\ fileLen' \in Nat /\ sname' \in Name
         /\ sleft' \in Seq(Cell) /\ (spc' = "get" <=> sleft' # << >>)
         /\ spc' \in ServerPlace \ {"down"} /\ (spc' = "accept" <=> conn' = 0)
         /\ conn' \in {conn, 0} /\ accepted' = accepted /\ crashes' = crashes
    BY <1>1, <1>3, <2>3, ByteCells DEF IInv, TypeOK, ServerTypeOK, FileInv, ServerPlace
  <2> QED BY <1>2, <1>3, <2>6, <2>13, <2>14, ServerFrame
<1> QED BY <1>7, <1>8

\* What a client has of the file of its GET is bytes.
LEMMA GetDataFacts ==
    ASSUME IInv, Calm, NEW c \in Client, GetComes(c)
    PROVE  /\ GetData(c) \in Seq(Byte) /\ GetLength(c) \in Nat /\ Len(GetData(c)) \in Nat
           /\ Len(GetData(c)) <= GetLength(c)
           /\ cpc[c] \in {"GET", "getfirst", "getmore"}
           /\ cpc[c] # "GET" => mine[c][name[c]] \in Seq(Byte)
<1>1. CASE cpc[c] = "GET" /\ IsFileReply(Down(c))
  <2>1. PICK s : s = Drop(Down(c), HeaderLen)
    OBVIOUS
  <2>2. IsFileData(s)
    BY <1>1, <2>1, IsFileReplyAs
  <2>3. s[1].len \in Nat /\ Drop(s, HeaderLen) \in Seq(Byte)
        /\ Len(Drop(s, HeaderLen)) <= s[1].len
    BY <2>2, IsFileDataAs
  <2>4. GetData(c) = Drop(s, HeaderLen) /\ GetLength(c) = s[1].len
    BY <1>1, <2>1 DEF GetData, GetLength
  <2> QED BY <1>1, <2>3, <2>4, LenProperties
<1>2. CASE cpc[c] # "GET"
  <2>1. cpc[c] \in Getting
    BY <1>2 DEF GetComes, Getting
  <2>2. mine[c][name[c]] \in Seq(Byte)
    <3>1. mine[c] \in Directory /\ name[c] \in Name /\ mine[c][name[c]] # NoFile
      BY <2>1 DEF IInv, FileInv, TypeOK, ClientTypeOK
    <3> QED BY <3>1 DEF Directory
  <2>3. CASE cpc[c] = "getfirst"
    <3>1. IsFileData(Down(c))
      BY <2>3 DEF GetComes
    <3>2. GetData(c) = Drop(Down(c), HeaderLen) /\ GetLength(c) = Down(c)[1].len
      BY <2>3 DEF GetData, GetLength
    <3> QED BY <2>2, <2>3, <3>1, <3>2, IsFileDataAs, LenProperties
  <2>4. CASE cpc[c] = "getmore"
    <3>1. Down(c) \in Seq(Byte) /\ Len(mine[c][name[c]]) + Len(Down(c)) <= want[c]
      BY <2>4 DEF GetComes
    <3>2. GetData(c) = mine[c][name[c]] \o Down(c) /\ GetLength(c) = want[c]
      BY <2>4 DEF GetData, GetLength
    <3>3. want[c] \in Nat
      BY DEF IInv, TypeOK, ClientTypeOK
    <3>4. /\ mine[c][name[c]] \o Down(c) \in Seq(Byte)
          /\ Len(mine[c][name[c]] \o Down(c)) = Len(mine[c][name[c]]) + Len(Down(c))
      BY <2>2, <3>1, ConcatProperties
    <3> QED BY <2>2, <2>4, <3>1, <3>2, <3>3, <3>4, LenProperties
  <2> QED BY <2>1, <2>3, <2>4 DEF Getting
<1> QED BY <1>1, <1>2 DEF GetComes

\* More of the file is on its way.
LEMMA GetComesLonger ==
    ASSUME IInv, Calm, NEW c \in Client, GetComes(c), NEW p \in Seq(Byte),
           Down(c)' = Down(c) \o p, Len(GetData(c) \o p) <= GetLength(c),
           cpc'[c] = cpc[c], mine'[c] = mine[c], name'[c] = name[c], want'[c] = want[c]
    PROVE  /\ GetComes(c)' /\ GetData(c)' = GetData(c) \o p
           /\ GetLength(c)' = GetLength(c)
<1>1. CASE cpc[c] = "GET"
  <2>1. IsFileReply(Down(c))
    BY <1>1 DEF GetComes
  <2>2. PICK s : s = Drop(Down(c), HeaderLen)
    OBVIOUS
  <2>3. IsFileData(s)
    BY <2>1, <2>2, IsFileReplyAs
  <2>4. GetData(c) = Drop(s, HeaderLen) /\ GetLength(c) = s[1].len
    BY <1>1, <2>2 DEF GetData, GetLength
  <2>5. (s \o p)[1].len = s[1].len /\ Drop(s \o p, HeaderLen) = Drop(s, HeaderLen) \o p
    BY <2>3, <2>4, FileDataLonger
  <2>6. /\ IsFileReply(Down(c) \o p)
        /\ Drop(Down(c) \o p, HeaderLen) = s \o p
    BY <2>1, <2>2, <2>4, FileReplyLonger
  <2>7. GetComes(c)'
    BY <1>1, <2>6 DEF GetComes
  <2> QED BY <1>1, <2>4, <2>5, <2>6, <2>7 DEF GetData, GetLength
<1>2. CASE cpc[c] = "getfirst"
  <2>1. IsFileData(Down(c)) /\ mine[c][name[c]] = << >>
    BY <1>2 DEF GetComes
  <2>2. GetData(c) = Drop(Down(c), HeaderLen) /\ GetLength(c) = Down(c)[1].len
    BY <1>2 DEF GetData, GetLength
  <2>3. /\ IsFileData(Down(c) \o p) /\ (Down(c) \o p)[1].len = Down(c)[1].len
        /\ Drop(Down(c) \o p, HeaderLen) = Drop(Down(c), HeaderLen) \o p
    BY <2>1, <2>2, FileDataLonger
  <2>4. GetComes(c)'
    BY <1>2, <2>1, <2>3 DEF GetComes
  <2> QED BY <1>2, <2>2, <2>3, <2>4 DEF GetData, GetLength
<1>3. CASE cpc[c] = "getmore"
  <2>1. /\ Down(c) \in Seq(Byte) /\ Len(mine[c][name[c]]) < want[c]
        /\ mine[c][name[c]] \in Seq(Byte)
    BY <1>3, GetDataFacts DEF GetComes
  <2>2. PICK m \in Seq(Byte), d \in Seq(Byte) : m = mine[c][name[c]] /\ d = Down(c)
    BY <2>1
  <2>3. GetData(c) = m \o d /\ GetLength(c) = want[c]
    BY <1>3, <2>2 DEF GetData, GetLength
  <2>4. m \in Seq(Cell) /\ d \in Seq(Cell) /\ p \in Seq(Cell)
    BY <2>2, ByteCells
  <2>5. (m \o d) \o p = m \o (d \o p)
    BY <2>4, CellAssoc
  <2>6. /\ d \o p \in Seq(Byte)
        /\ Len(m \o (d \o p)) = Len(m) + Len(d \o p)
    <3>1. d \o p \in Seq(Byte)
      BY <2>2, ConcatProperties
    <3>2. PICK e \in Seq(Byte) : e = d \o p
      BY <3>1
    <3>3. Len(m \o e) = Len(m) + Len(e)
      BY <2>2, ConcatProperties
    <3> QED BY <3>1, <3>2, <3>3
  <2>7. /\ Down(c)' = d \o p /\ mine'[c][name'[c]] = m
    BY <2>2
  <2>8. GetComes(c)'
    <3>1. Len(m) + Len(d \o p) <= want'[c]
      BY <2>3, <2>5, <2>6
    <3>2. Len(m) < want'[c]
      BY <2>1, <2>2
    <3> QED BY <1>3, <2>6, <2>7, <3>1, <3>2 DEF GetComes
  <2>9. GetData(c)' = m \o (d \o p) /\ GetLength(c)' = want'[c]
    BY <1>3, <2>7 DEF GetData, GetLength
  <2> QED BY <2>3, <2>5, <2>8, <2>9
<1> QED BY <1>1, <1>2, <1>3 DEF GetComes

LEMMA PieceSent == ASSUME IInv, Calm, SendPiece, UNCHANGED clientVars PROVE IInv'
<1>1. PICK p, r : p = Piece(sleft) /\ r = Drop(sleft, Len(Piece(sleft)))
  OBVIOUS
<1>2. /\ spc = "get" /\ conns' = Answered(0, p) /\ sleft' = r
      /\ spc' = (IF r = << >> THEN "cmd" ELSE "get")
      /\ UNCHANGED <<conn, accepted, store, fileLen, sname, crashes>>
  BY <1>1 DEF SendPiece
<1>3. PICK c : c = conns[conn].client
  OBVIOUS
<1>4. /\ conn # 0 /\ sleft \in Seq(Cell) /\ sname \in Name
      /\ conn \in 1 .. Len(conns) /\ conns \in Seq(Connection) /\ conns[conn] \in Connection
  BY <1>2, StateFacts DEF IInv, ConnInv, TypeOK, ServerTypeOK
<1>5. p \in Seq(Cell) /\ r \in Seq(Cell) /\ p \o r = sleft
  BY <1>1, <1>4, PieceFacts
<1>6. /\ c \in Client
      /\ ~conns[conn].left => sock[c] = conn /\ ServedLink(c)
      /\ conns[conn].left => cpc[c] = "gone" /\ LeftLink(mine[c][sname])
  BY <1>3, <1>4, OwnLink
<1>7. Up = << >> /\ (~conns[conn].left => GetLink(c))
  BY <1>2, <1>6 DEF ServedLink, LeftLink, GetLink, PutLink, Putting
<1>8. PICK down : down = IF conns[conn].left THEN conns[conn].down ELSE conns[conn].down \o p
  OBVIOUS
<1>9. Rewrites(conn, << >>, down, conns[conn].authed)
  <2>1. Drop(Up, 0) = << >> /\ Drop(Up, 0) \in Seq(Cell)
    <3>1. Up \in Seq(Cell) BY <1>7, EmptySeq
    <3> QED BY <1>7, <3>1, DropAll
  <2>2. conns[conn].down \o p \in Seq(Cell)
    BY <1>4, <1>5, ConcatProperties DEF Connection
  <2>3. Rewrites(conn, Drop(Up, 0),
                 IF conns[conn].left THEN conns[conn].down ELSE conns[conn].down \o p,
                 conns[conn].authed)
    BY <1>2, <1>4, <2>1, <2>2, AnsweredRewrites
  <2> QED BY <1>8, <2>1, <2>3
<1>10. /\ conns'[conn].up = << >> /\ conns'[conn].down = down /\ Up' = << >>
       /\ cpc' = cpc /\ sock' = sock /\ name' = name /\ mine' = mine /\ want' = want
  BY <1>2, <1>9 DEF Rewrites, Up, clientVars
<1>11. ASSUME ~conns[conn].left PROVE ServedLink(c)'
  <2>1. GetLink(c)
    BY <1>7, <1>11
  <2>2. PICK file \in Seq(Byte) : file = store[name[c]] /\ file # NoFile
    BY <1>6, <2>1 DEF GetLink, IInv, FileInv, Directory, TypeOK, ClientTypeOK
  <2>3. PICK g \in Seq(Byte) : g = GetData(c)
    BY <1>6, <2>1, GetDataFacts DEF GetLink
  <2>4. g \o sleft = file /\ GetLength(c) = Len(file) /\ GetComes(c)
    BY <2>1, <2>2, <2>3 DEF GetLink
  <2>5. g \in Seq(Cell)
    BY <2>3, ByteCells
  <2>6. sleft \in Seq(Byte)
    BY <1>4, <2>4, <2>5, ConcatParts
  <2>7. p \in Seq(Byte) /\ r \in Seq(Byte)
    BY <1>1, <2>6, PieceFacts
  <2>8. (g \o p) \o r = file
    <3>1. (g \o p) \o r = g \o (p \o r)
      BY <1>5, <2>5, CellAssoc
    <3> QED BY <1>5, <2>4, <3>1
  <2>9. Len(g \o p) <= Len(file)
    <3>1. PICK e \in Seq(Cell) : e = g \o p
      BY <1>5, <2>5, ConcatProperties
    <3>2. e \o r = file
      BY <2>8, <3>1
    <3>3. Len(file) = Len(e) + Len(r) /\ Len(e) \in Nat /\ Len(r) \in Nat
      BY <1>5, <3>2, ConcatParts
    <3> QED BY <3>1, <3>3
  <2>10. Down(c)' = Down(c) \o p
    BY <1>6, <1>8, <1>10, <1>11 DEF Down
  <2>11. GetComes(c)' /\ GetData(c)' = g \o p /\ GetLength(c)' = Len(file)
    BY <1>6, <1>10, <2>3, <2>4, <2>7, <2>9, <2>10, GetComesLonger
  <2>12. store'[name'[c]] = file /\ spc' \in {"cmd", "get"} /\ Up' = << >>
    BY <1>2, <1>10, <2>2
  <2>13. GetLink(c)'
    BY <1>2, <2>2, <2>8, <2>11, <2>12 DEF GetLink
  <2> QED BY <2>13 DEF ServedLink
<1>12. ASSUME conns[conn].left PROVE cpc[c] = "gone" /\ LeftLink(mine[c][sname])'
  BY <1>2, <1>6, <1>10, <1>12 DEF LeftLink
<1>13. OwnConnection(c, down, conns[conn].authed)
  <2>1. ~AsksService(conns'[conn].up)
    BY <1>10 DEF AsksService
  <2>2. crashes = 0 => conns[conn].authed
    BY <1>2 DEF IInv, AuthInv, AskInv, AuthBeforeService
  <2> QED BY <1>2, <1>11, <1>12, <2>1, <2>2 DEF OwnConnection
<1>14. /\ store' \in Directory /\ fileLen' \in Nat /\ sname' \in Name
       /\ sleft' \in Seq(Cell) /\ (spc' = "get" <=> sleft' # << >>)
       /\ spc' \in ServerPlace \ {"down"} /\ (spc' = "accept" <=> conn' = 0)
       /\ conn' \in {conn, 0} /\ accepted' = accepted /\ crashes' = crashes
  BY <1>2, <1>4, <1>5 DEF IInv, TypeOK, ServerTypeOK, FileInv, ServerPlace
<1> QED BY <1>3, <1>4, <1>6, <1>9, <1>13, <1>14, ServerFrame

-----------------------------------------------------------------------------
(* PUT.                                                                    *)

LEMMA PutServed == ASSUME IInv, Calm, ServePut, UNCHANGED clientVars PROVE IInv'
<1>1. /\ Asked("PUT") /\ "PUT" \in Request /\ "PUT" \in {"LIST", "GET", "PUT"}
      /\ spc' = "putfirst" /\ UNCHANGED <<conn, accepted, fileLen, sleft, crashes>>
  BY DEF ServePut, Request
<1>2. PICK c : c = conns[conn].client
  OBVIOUS
<1>3. /\ conn # 0 /\ c \in Client /\ sleft = << >> /\ spc = "cmd"
      /\ conns[conn].left => cpc[c] = "gone"
      /\ ~conns[conn].left => /\ sock[c] = conn /\ cpc[c] = "PUT"
                              /\ conns[conn].down = << >>
  BY <1>1, <1>2, AskedFacts
<1>4. PICK n \in Name : IsRequest(Up, "PUT", n) /\ (~conns[conn].left => n = name[c])
  BY <1>1, <1>2, AskedFacts
<1>5. Up[HeaderLen + 1] = [name |-> n] /\ Drop(Up, HeaderLen + 1) = << >>
  BY <1>1, <1>4, RequestFacts
<1>6. PICK m \in Name : /\ Up[HeaderLen + 1] = [name |-> m]
                        /\ store' = [store EXCEPT ![m] = << >>] /\ sname' = m
  BY DEF ServePut
<1>7. m = n
  BY <1>5, <1>6
<1>8. PICK reply : reply = Header("PUT_REPLY", 0, 0)
  OBVIOUS
<1>9. reply \in Seq(Cell)
  BY <1>8, MessageTypes, HeaderFacts
<1>10. conns' = Answered(HeaderLen + 1, reply)
  BY <1>8, ReplyNames DEF ServePut
<1>11. PICK down : down = IF conns[conn].left THEN conns[conn].down
                                             ELSE conns[conn].down \o reply
  OBVIOUS
<1>12. Rewrites(conn, << >>, down, conns[conn].authed)
  BY <1>1, <1>5, <1>9, <1>10, <1>11, AskedRewrites
<1>13. /\ conns'[conn].up = << >> /\ conns'[conn].down = down /\ Up' = << >>
       /\ cpc' = cpc /\ sock' = sock /\ name' = name /\ mine' = mine /\ rest' = rest
  BY <1>1, <1>12 DEF Rewrites, Up, clientVars
<1>14. store \in Directory /\ store' \in Directory /\ store'[n] = << >>
  <2>1. store \in Directory /\ << >> \in Seq(Byte)
    BY EmptySeq DEF IInv, FileInv
  <2> QED BY <1>6, <1>7, <2>1 DEF Directory
<1>15. ASSUME ~conns[conn].left PROVE ServedLink(c)'
  <2>1. down = reply
    BY <1>3, <1>9, <1>11, <1>15, ConcatEmptySeq
  <2>2. Down(c)' = Header("PUT_REPLY", 0, 0) /\ cpc'[c] = "PUT"
    BY <1>3, <1>8, <1>13, <1>15, <2>1 DEF Down
  <2>3. sname' = name'[c] /\ mine'[c][sname'] # NoFile /\ store'[sname'] = << >>
    BY <1>3, <1>4, <1>6, <1>7, <1>13, <1>14, <1>15 DEF IInv, FileInv
  <2>4. PutLink(c)'
    BY <1>1, <1>13, <2>2, <2>3 DEF PutLink
  <2> QED BY <2>4 DEF ServedLink
<1>16. ASSUME conns[conn].left PROVE cpc[c] = "gone" /\ LeftLink(mine[c][sname])'
  BY <1>1, <1>3, <1>13, <1>16 DEF LeftLink, Putting
<1>17. OwnConnection(c, down, conns[conn].authed)
  <2>1. ~AsksService(conns'[conn].up)
    BY <1>13 DEF AsksService
  <2>2. crashes = 0 => conns[conn].authed
    BY <1>1, AskedAuthed
  <2> QED BY <1>1, <1>15, <1>16, <2>1, <2>2 DEF OwnConnection
<1>18. /\ fileLen' \in Nat /\ sname' \in Name
       /\ sleft' \in Seq(Cell) /\ (spc' = "get" <=> sleft' # << >>)
       /\ spc' \in ServerPlace \ {"down"} /\ (spc' = "accept" <=> conn' = 0)
       /\ conn' \in {conn, 0} /\ accepted' = accepted /\ crashes' = crashes
  BY <1>1, <1>3, <1>6 DEF IInv, TypeOK, ServerTypeOK, ServerPlace
<1> QED BY <1>2, <1>3, <1>12, <1>14, <1>17, <1>18, ServerFrame

\* The client's file is what is written, what is under way and what has not
\* been sent.
PutSplit(c, w, u, y) ==
    /\ w \in Seq(Byte) /\ u \in Seq(Byte) /\ y \in Seq(Byte)
    /\ mine[c][sname] \in Seq(Byte) /\ (w \o u) \o y = mine[c][sname]
    /\ conns[conn].left => cpc[c] = "gone"
    /\ ~conns[conn].left =>
          /\ y = rest[c] /\ sname = name[c] /\ conns[conn].down = << >>
          /\ sock[c] = conn
          /\ cpc[c] = IF rest[c] = << >> THEN "prompt" ELSE "putdata"

LEMMA PutFirstSplit ==
    ASSUME IInv, Calm, spc = "putfirst", IsHeader(Up, "FILE_DATA"),
           NEW c, c = conns[conn].client
    PROVE  /\ store[sname] = << >>
           /\ \E d \in Seq(Byte), y \in Seq(Byte) :
                 /\ Up = Header("FILE_DATA", 0, Len(mine[c][sname])) \o d
                 /\ PutSplit(c, << >>, d, y)
<1>0. conn # 0 /\ Up # << >> /\ sname \in Name /\ << >> \in Seq(Byte)
  BY EmptySeq DEF IInv, ConnInv, TypeOK, ServerTypeOK, IsHeader, AnyHeader
<1>1. /\ c \in Client
      /\ ~conns[conn].left => sock[c] = conn /\ ServedLink(c)
      /\ conns[conn].left => cpc[c] = "gone" /\ LeftLink(mine[c][sname])
  BY <1>0, OwnLink
<1>2. mine[c][sname] \in Seq(Byte) \cup {NoFile} /\ rest[c] \in Seq(Cell)
  BY <1>0, <1>1 DEF IInv, FileInv, Directory, TypeOK, ClientTypeOK
<1>3. \A d \in Seq(Byte) : << >> \o d = d
  BY ConcatEmptySeq
<1>4. Drop(Up, HeaderLen) \in Seq(Cell)
  <2>1. Up \in Seq(Cell)
    BY <1>0, StateFacts DEF Up, Connection
  <2> QED BY <2>1, SizeAssumption, DropIsSeq
<1>5. CASE conns[conn].left
  <2>1. /\ store[sname] = << >> /\ mine[c][sname] \in Seq(Byte)
        /\ Begins(Up, Header("FILE_DATA", 0, Len(mine[c][sname])))
        /\ IsPrefix(Drop(Up, HeaderLen), mine[c][sname])
    BY <1>0, <1>1, <1>2, <1>5 DEF LeftLink
  <2>2. PICK d : d = Drop(Up, HeaderLen)
    OBVIOUS
  <2>3. d \in Seq(Byte) /\ \E y \in Seq(Byte) : d \o y = mine[c][sname]
    BY <1>4, <2>1, <2>2, PrefixRest, LenProperties
  <2>4. PICK y \in Seq(Byte) : d \o y = mine[c][sname]
    BY <2>3
  <2>5. PutSplit(c, << >>, d, y)
    BY <1>0, <1>1, <1>3, <1>5, <2>1, <2>3, <2>4 DEF PutSplit
  <2>6. Up = Header("FILE_DATA", 0, Len(mine[c][sname])) \o d
    BY <2>1, <2>2 DEF Begins
  <2> QED BY <2>1, <2>3, <2>5, <2>6
<1>6. CASE ~conns[conn].left
  <2>1. PutLink(c)
    BY <1>0, <1>1, <1>6 DEF ServedLink, GetLink
  <2>2. /\ sname = name[c] /\ mine[c][sname] \in Seq(Byte) /\ store[sname] = << >>
        /\ Down(c) = << >>
        /\ cpc[c] = IF rest[c] = << >> THEN "prompt" ELSE "putdata"
        /\ Begins(Up, Header("FILE_DATA", 0, Len(mine[c][sname])))
        /\ Drop(Up, HeaderLen) \o rest[c] = mine[c][sname]
    BY <1>0, <1>2, <2>1 DEF PutLink
  <2>3. PICK d \in Seq(Cell) : d = Drop(Up, HeaderLen)
    BY <1>4
  <2>4. d \in Seq(Byte) /\ rest[c] \in Seq(Byte)
    BY <1>2, <2>2, <2>3, ConcatParts
  <2>5. PutSplit(c, << >>, d, rest[c])
    BY <1>0, <1>1, <1>3, <1>6, <2>2, <2>3, <2>4 DEF PutSplit, Down
  <2>6. Up = Header("FILE_DATA", 0, Len(mine[c][sname])) \o d
    BY <2>2, <2>3 DEF Begins
  <2> QED BY <2>2, <2>4, <2>5, <2>6
<1> QED BY <1>5, <1>6

LEMMA PutMoreSplit ==
    ASSUME IInv, Calm, spc = "putmore", Up # << >>, NEW c, c = conns[conn].client
    PROVE  /\ fileLen = Len(mine[c][sname])
           /\ \E y \in Seq(Byte) : PutSplit(c, store[sname], Up, y)
<1>0. conn # 0 /\ sname \in Name
  BY DEF IInv, ConnInv, TypeOK, ServerTypeOK
<1>1. /\ c \in Client
      /\ ~conns[conn].left => sock[c] = conn /\ ServedLink(c)
      /\ conns[conn].left => cpc[c] = "gone" /\ LeftLink(mine[c][sname])
  BY <1>0, OwnLink
<1>2. mine[c][sname] \in Seq(Byte) \cup {NoFile} /\ rest[c] \in Seq(Cell)
  BY <1>0, <1>1 DEF IInv, FileInv, Directory, TypeOK, ClientTypeOK
<1>3. store[sname] \in Seq(Byte) \cup {NoFile} /\ Up \in Seq(Cell)
  BY <1>0, StateFacts DEF IInv, FileInv, Directory, Up, Connection
<1>4. CASE conns[conn].left
  <2>1. /\ store[sname] \in Seq(Byte) /\ mine[c][sname] \in Seq(Byte)
        /\ fileLen = Len(mine[c][sname])
        /\ IsPrefix(store[sname] \o Up, mine[c][sname])
    BY <1>1, <1>2, <1>3, <1>4 DEF LeftLink
  <2>2. PICK w \in Seq(Cell), u \in Seq(Cell) : w = store[sname] /\ u = Up
    BY <1>3, <2>1, ByteCells
  <2>3. PICK x \in Seq(Cell) : x = w \o u
    BY <2>2, ConcatProperties
  <2>4. x \in Seq(Byte) /\ \E y \in Seq(Byte) : x \o y = mine[c][sname]
    <3>1. IsPrefix(x, mine[c][sname]) /\ Len(x) \in Nat
      BY <2>1, <2>2, <2>3, LenProperties
    <3> QED BY <2>1, <3>1, PrefixRest
  <2>5. PICK y \in Seq(Byte) : x \o y = mine[c][sname]
    BY <2>4
  <2>6. u \in Seq(Byte)
    BY <2>2, <2>3, <2>4, ConcatParts
  <2>7. PutSplit(c, w, u, y)
    BY <1>1, <1>4, <2>1, <2>2, <2>3, <2>5, <2>6 DEF PutSplit
  <2> QED BY <2>1, <2>2, <2>5, <2>7
<1>5. CASE ~conns[conn].left
  <2>1. PutLink(c)
    BY <1>0, <1>1, <1>5 DEF ServedLink, GetLink
  <2>2. /\ sname = name[c] /\ mine[c][sname] \in Seq(Byte) /\ store[sname] \in Seq(Byte)
        /\ Down(c) = << >> /\ fileLen = Len(mine[c][sname])
        /\ cpc[c] = IF rest[c] = << >> THEN "prompt" ELSE "putdata"
        /\ (store[sname] \o Up) \o rest[c] = mine[c][sname]
    BY <1>2, <1>3, <2>1 DEF PutLink
  <2>3. PICK w \in Seq(Cell), u \in Seq(Cell), y \in Seq(Cell) :
          w = store[sname] /\ u = Up /\ y = rest[c]
    BY <1>2, <1>3, <2>2, ByteCells
  <2>a. w \in Seq(Cell) /\ u \in Seq(Cell) /\ y \in Seq(Cell)
    BY <2>3
  <2>b. MakeUp(w, u, y, mine[c][sname])
    BY <2>2, <2>3 DEF MakeUp
  <2>4. w \in Seq(Byte) /\ u \in Seq(Byte) /\ y \in Seq(Byte)
    BY <2>2, <2>a, <2>b, PartsOfFile
  <2>5. PutSplit(c, w, u, y)
    BY <1>1, <1>5, <2>2, <2>3, <2>4 DEF PutSplit, Down
  <2> QED BY <2>2, <2>3, <2>4, <2>5
<1> QED BY <1>4, <1>5

\* A piece of the client's file is written.
LEMMA PieceTaken ==
    ASSUME IInv, Calm, spc \in Putting, UNCHANGED clientVars,
           NEW c, c = conns[conn].client,
           NEW w, NEW u, NEW y, PutSplit(c, w, u, y), NEW k \in 0 .. Len(u),
           store' = [store EXCEPT ![sname] = w \o SubSeq(u, 1, k)],
           Rewrites(conn, Drop(u, k), conns[conn].down, conns[conn].authed),
           fileLen' = Len(mine[c][sname]), UntilComplete,
           UNCHANGED <<conn, accepted, sname, sleft, crashes>>
    PROVE  IInv' /\ (spc' = "cmd" => store'[sname] = mine[c][sname])
<1>0. conn # 0 /\ c \in Client /\ sname \in Name /\ sleft = << >> /\ store \in Directory
  BY StateFacts DEF IInv, ConnInv, TypeOK, ServerTypeOK, FileInv, Putting
<1>1. PICK file \in Seq(Byte) : file = mine[c][sname] /\ file # NoFile
  BY CellAssumption DEF PutSplit
<1>2. /\ w \in Seq(Cell) /\ u \in Seq(Cell) /\ y \in Seq(Cell) /\ (w \o u) \o y = file
  BY <1>1, ByteCells DEF PutSplit
<1>3. PICK w1, u1 : w1 = w \o SubSeq(u, 1, k) /\ u1 = Drop(u, k)
  OBVIOUS
<1>a. MakeUp(w1, u1, y, file)
  <2>1. MakeUp(w, u, y, file)
    BY <1>2 DEF MakeUp
  <2>2. MakeUp(w \o SubSeq(u, 1, k), Drop(u, k), y, file)
    BY <1>2, <2>1, OneMorePiece
  <2> QED BY <1>3, <2>2
<1>4. /\ w1 \in Seq(Cell) /\ u1 \in Seq(Cell) /\ y \in Seq(Cell)
      /\ (w1 \o u1) \o y = file
  BY <1>a DEF MakeUp
<1>b. w1 \in Seq(Cell) /\ u1 \in Seq(Cell) /\ y \in Seq(Cell)
  BY <1>a DEF MakeUp
<1>5. /\ w1 \in Seq(Byte) /\ u1 \in Seq(Byte) /\ IsPrefix(w1 \o u1, file)
      /\ Len(w1) \in Nat /\ Len(u1) \in Nat /\ Len(y) \in Nat
      /\ Len(file) = Len(w1) + Len(u1) + Len(y)
  BY <1>a, <1>b, PartsOfFile
<1>6. Len(w1) = Len(file) => w1 = file /\ u1 = << >> /\ y = << >>
  BY <1>a, <1>b, PartsOfFile
<1>7. store'[sname] = w1 /\ store' \in Directory /\ w1 # NoFile
  BY <1>0, <1>3, <1>5, CellAssumption DEF Directory
<1>8. /\ fileLen' = Len(file) /\ fileLen' \in Nat /\ conn' = conn /\ sname' = sname
      /\ spc' = IF Len(w1) = fileLen' THEN "cmd" ELSE "putmore"
      /\ cpc' = cpc /\ sock' = sock /\ name' = name /\ mine' = mine /\ rest' = rest
  BY <1>1, <1>5, <1>7 DEF UntilComplete, clientVars
<1>9. Len(w1) <= Len(file) /\ (spc' = "putmore" => Len(w1) < fileLen')
  BY <1>5, <1>8
<1>10. /\ conns'[conn].up = u1 /\ conns'[conn].down = conns[conn].down /\ Up' = u1
  BY <1>3, <1>8 DEF Rewrites, Up
<1>11. ASSUME ~conns[conn].left PROVE ServedLink(c)'
  <2>1. /\ y = rest[c] /\ sname = name[c] /\ conns[conn].down = << >> /\ sock[c] = conn
        /\ cpc[c] = IF rest[c] = << >> THEN "prompt" ELSE "putdata"
    BY <1>11 DEF PutSplit
  <2>2. Down(c)' = << >>
    BY <1>8, <1>10, <2>1 DEF Down
  <2>3. CASE spc' = "cmd"
    <3>1. u1 = << >> /\ y = << >>
      BY <1>6, <1>8, <2>3
    <3>2. cpc'[c] = "prompt" /\ Up' = << >>
      BY <1>8, <1>10, <2>1, <3>1
    <3> QED BY <2>2, <2>3, <3>2 DEF ServedLink, IsAnswer
  <2>4. CASE spc' = "putmore"
    <3>1. /\ sname' = name'[c] /\ mine'[c][sname'] = file /\ store'[sname'] = w1
          /\ cpc'[c] = (IF rest'[c] = << >> THEN "prompt" ELSE "putdata")
          /\ rest'[c] = y
      BY <1>1, <1>7, <1>8, <2>1
    <3>2. PutLink(c)'
      BY <1>1, <1>4, <1>7, <1>8, <1>9, <1>10, <2>2, <2>4, <3>1 DEF PutLink
    <3> QED BY <3>2 DEF ServedLink
  <2> QED BY <1>8, <2>3, <2>4
<1>12. ASSUME conns[conn].left PROVE cpc[c] = "gone" /\ LeftLink(mine[c][sname])'
  <2>1. cpc[c] = "gone"
    BY <1>12 DEF PutSplit
  <2>2. CASE spc' = "cmd"
    BY <1>6, <1>8, <1>10, <2>1, <2>2 DEF LeftLink
  <2>3. CASE spc' = "putmore"
    <3>1. mine'[c][sname'] = file /\ store'[sname'] = w1
      BY <1>1, <1>7, <1>8
    <3>2. LeftLink(file)'
      BY <1>1, <1>5, <1>7, <1>8, <1>9, <1>10, <2>3, <3>1 DEF LeftLink
    <3> QED BY <2>1, <3>1, <3>2
  <2> QED BY <1>8, <2>2, <2>3
<1>13. OwnConnection(c, conns[conn].down, conns[conn].authed)
  <2>1. crashes = 0 => conns[conn].authed
    BY DEF IInv, AuthInv, AuthBeforeService, Putting
  <2> QED BY <1>8, <1>11, <1>12, <2>1 DEF OwnConnection
<1>14. /\ sname' \in Name /\ sleft' \in Seq(Cell) /\ (spc' = "get" <=> sleft' # << >>)
       /\ spc' \in ServerPlace \ {"down"} /\ (spc' = "accept" <=> conn' = 0)
       /\ conn' \in {conn, 0} /\ accepted' = accepted /\ crashes' = crashes
  BY <1>0, <1>8 DEF IInv, TypeOK, ServerTypeOK, ServerPlace
<1>15. IInv'
  <2>1. /\ Rewrites(conn, Drop(u, k), conns[conn].down, conns[conn].authed)
        /\ store' \in Directory /\ fileLen' \in Nat
    BY <1>7, <1>8
  <2> QED BY <1>0, <1>13, <1>14, <2>1, ServerFrame
<1>16. spc' = "cmd" => store'[sname] = mine[c][sname]
  BY <1>1, <1>6, <1>7, <1>8
<1> QED BY <1>15, <1>16

\* What PUT reads leaves the direction to the client alone.
LEMMA ReadRewrites ==
    ASSUME IInv, Calm, conn # 0, NEW k \in Nat, conns' = Answered(k, << >>)
    PROVE  Rewrites(conn, Drop(Up, k), conns[conn].down, conns[conn].authed)
<1>1. /\ conns \in Seq(Connection) /\ conn \in 1 .. Len(conns) /\ conns[conn] \in Connection
  BY StateFacts
<1>2. Drop(Up, k) \in Seq(Cell)
  BY <1>1, DropIsSeq DEF Up, Connection
<1>3. conns[conn].down \o << >> = conns[conn].down /\ conns[conn].down \in Seq(Cell)
  BY <1>1, ConcatEmptySeq DEF Connection
<1>4. Rewrites(conn, Drop(Up, k),
               IF conns[conn].left THEN conns[conn].down ELSE conns[conn].down \o << >>,
               conns[conn].authed)
  BY <1>1, <1>2, <1>3, AnsweredRewrites
<1> QED BY <1>3, <1>4

LEMMA FirstTaken ==
    ASSUME IInv, Calm, PutFirst, UNCHANGED clientVars
    PROVE  IInv' /\ (spc' = "cmd" => store'[sname] = mine[conns[conn].client][sname])
<1>1. /\ spc = "putfirst" /\ spc \in Putting /\ IsHeader(Up, "FILE_DATA")
      /\ fileLen' = Up[1].len /\ UntilComplete
      /\ UNCHANGED <<conn, accepted, sname, sleft, crashes>> /\ conn # 0
  BY DEF PutFirst, Putting, IInv, ConnInv
<1>2. PICK k \in HeaderLen .. MAXFILELEN :
        /\ Received(Up, MAXFILELEN, k)
        /\ store' = [store EXCEPT ![sname] = @ \o SubSeq(Up, HeaderLen + 1, k)]
        /\ conns' = Answered(k, << >>)
  BY DEF PutFirst
<1>3. PICK c : c = conns[conn].client
  OBVIOUS
<1>4. PICK d \in Seq(Byte), y \in Seq(Byte) :
        /\ Up = Header("FILE_DATA", 0, Len(mine[c][sname])) \o d
        /\ PutSplit(c, << >>, d, y)
  BY <1>1, <1>3, PutFirstSplit
<1>5. store[sname] = << >> /\ sname \in Name /\ store \in Directory
  BY <1>1, <1>3, PutFirstSplit DEF IInv, TypeOK, ServerTypeOK, FileInv
<1>6. PICK n \in Nat : n = Len(mine[c][sname])
  BY <1>4, LenProperties DEF PutSplit
<1>7. PICK h \in Seq(Cell) : h = Header("FILE_DATA", 0, n) /\ Len(h) = HeaderLen
  BY MessageTypes, HeaderFacts
<1>8. Up = h \o d /\ d \in Seq(Cell) /\ HeaderLen \in Nat
  BY <1>4, <1>6, <1>7, ByteCells, SizeAssumption
<1>9. Up[1].len = n
  <2>1. Shows(Header("FILE_DATA", 0, n) \o d, "FILE_DATA", 0, n)
    BY <1>8, MessageTypes, Seen
  <2> QED BY <1>7, <1>8, <2>1 DEF Shows
<1>10. k \in Len(h) .. Len(h) + Len(d) /\ k \in Nat
  <2>1. Len(Up) = Len(h) + Len(d) /\ Len(h) \in Nat /\ Len(d) \in Nat
    BY <1>8, ConcatProperties, LenProperties
  <2>2. k \in 1 .. Len(Up)
    BY <1>2 DEF Received
  <2> QED BY <1>2, <1>7, <2>1, <2>2
<1>11. /\ k - Len(h) \in 0 .. Len(d)
       /\ SubSeq(Up, HeaderLen + 1, k) = SubSeq(d, 1, k - Len(h))
       /\ Drop(Up, k) = Drop(d, k - Len(h))
  BY <1>7, <1>8, <1>10, DropFromFront
<1>12. PICK i \in 0 .. Len(d) : i = k - Len(h)
  BY <1>11
<1>13. store' = [store EXCEPT ![sname] = << >> \o SubSeq(d, 1, i)]
  BY <1>2, <1>5, <1>11, <1>12 DEF Directory
<1>14. Rewrites(conn, Drop(d, i), conns[conn].down, conns[conn].authed)
  BY <1>1, <1>2, <1>10, <1>11, <1>12, ReadRewrites
<1>15. fileLen' = Len(mine[c][sname])
  BY <1>1, <1>6, <1>9
<1>16. PICK w : w = << >>
  OBVIOUS
<1>17. PutSplit(c, w, d, y) /\ store' = [store EXCEPT ![sname] = w \o SubSeq(d, 1, i)]
  BY <1>4, <1>13, <1>16
<1>18. IInv' /\ (spc' = "cmd" => store'[sname] = mine[c][sname])
  BY <1>1, <1>3, <1>14, <1>15, <1>17, PieceTaken
<1> QED BY <1>3, <1>18

LEMMA MoreTaken ==
    ASSUME IInv, Calm, PutMore, UNCHANGED clientVars
    PROVE  IInv' /\ (spc' = "cmd" => store'[sname] = mine[conns[conn].client][sname])
<1>1. /\ spc = "putmore" /\ spc \in Putting /\ fileLen' = fileLen /\ UntilComplete
      /\ UNCHANGED <<conn, accepted, sname, sleft, crashes>> /\ conn # 0
  BY DEF PutMore, Putting, IInv, ConnInv
<1>2. PICK k \in 1 .. MAXFILELEN :
        /\ Received(Up, MAXFILELEN, k)
        /\ store' = [store EXCEPT ![sname] = @ \o SubSeq(Up, 1, k)]
        /\ conns' = Answered(k, << >>)
  BY DEF PutMore
<1>3. PICK c : c = conns[conn].client
  OBVIOUS
<1>4. Up \in Seq(Cell) /\ Len(Up) \in Nat /\ sname \in Name /\ store \in Directory
  BY <1>1, StateFacts, LenProperties
     DEF Up, Connection, IInv, TypeOK, ServerTypeOK, FileInv
<1>5. k \in 0 .. Len(Up) /\ k \in Nat /\ Len(Up) # 0
  BY <1>2, <1>4 DEF Received
<1>6. Up # << >>
  BY <1>4, <1>5, EmptySeq
<1>7. fileLen' = Len(mine[c][sname])
  BY <1>1, <1>3, <1>6, PutMoreSplit
<1>8. PICK y \in Seq(Byte) : PutSplit(c, store[sname], Up, y)
  BY <1>1, <1>3, <1>6, PutMoreSplit
<1>9. PICK w, u : w = store[sname] /\ u = Up
  OBVIOUS
<1>10. /\ PutSplit(c, w, u, y) /\ k \in 0 .. Len(u)
       /\ store' = [store EXCEPT ![sname] = w \o SubSeq(u, 1, k)]
  BY <1>2, <1>4, <1>5, <1>8, <1>9 DEF Directory
<1>11. Rewrites(conn, Drop(u, k), conns[conn].down, conns[conn].authed)
  BY <1>1, <1>2, <1>5, <1>9, ReadRewrites
<1>12. IInv' /\ (spc' = "cmd" => store'[sname] = mine[c][sname])
  BY <1>1, <1>3, <1>7, <1>10, <1>11, PieceTaken
<1> QED BY <1>3, <1>12

-----------------------------------------------------------------------------
(* The other steps of the server.                                          *)

LEMMA JunkWritten == ASSUME IInv, ReadEnd PROVE store' \in Directory
<1>0. sname \in Name /\ store \in Directory
  BY DEF IInv, TypeOK, ServerTypeOK, FileInv
<1>1. CASE spc # "putfirst"
  BY <1>0, <1>1 DEF ReadEnd
<1>2. CASE spc = "putfirst"
  <2>1. PICK junk \in Byte : store' = [store EXCEPT ![sname] = <<junk>>]
    BY <1>2 DEF ReadEnd
  <2>a. junk \in Byte
    BY <2>1
  <2>b. <<junk>> \in Seq(Byte)
    BY <2>a
  <2>2. PICK s \in Seq(Byte) : s = <<junk>>
    BY <2>b
  <2>3. store' = [store EXCEPT ![sname] = s]
    BY <2>1, <2>2
  <2> QED BY <1>0, <2>3 DEF Directory
<1> QED BY <1>1, <1>2

\* Its client has gone: the server reads the end of the stream for ever.
LEMMA EndRead == ASSUME IInv, Calm, ReadEnd, UNCHANGED clientVars PROVE IInv'
<1>1. /\ spc \in {"cmd"} \cup Putting /\ Up = << >> /\ conns[conn].left /\ spc' = "spin"
      /\ UNCHANGED <<conns, conn, accepted, fileLen, sname, sleft, crashes>>
  BY DEF ReadEnd
<1>2. /\ conn # 0 /\ sleft = << >> /\ sname \in Name /\ fileLen \in Nat
      /\ store \in Directory
  BY <1>1 DEF IInv, ConnInv, TypeOK, ServerTypeOK, FileInv, Putting
<1>3. PICK c \in Client : c = conns[conn].client
  BY <1>2, StateFacts
<1>4. cpc[c] = "gone"
  BY <1>1, <1>2, <1>3, OwnLink
<1>5. conns \in Seq(Connection) /\ conn \in 1 .. Len(conns) /\ conns[conn].up = << >>
  BY <1>1, <1>2, StateFacts DEF Up
<1>6. Rewrites(conn, << >>, conns[conn].down, conns[conn].authed)
  BY <1>1, <1>5 DEF Rewrites
<1>7. store' \in Directory
  BY JunkWritten
<1>8. OwnConnection(c, conns[conn].down, conns[conn].authed)
  <2>1. LeftLink(mine[c][sname])'
    BY <1>1 DEF LeftLink
  <2>2. ~AsksService(conns'[conn].up)
    BY <1>1, <1>5 DEF AsksService
  <2> QED BY <1>1, <1>4, <2>1, <2>2 DEF OwnConnection, Putting
<1>9. /\ fileLen' \in Nat /\ sname' \in Name /\ sleft' \in Seq(Cell)
      /\ (spc' = "get" <=> sleft' # << >>)
      /\ spc' \in ServerPlace \ {"down"} /\ (spc' = "accept" <=> conn' = 0)
      /\ conn' \in {conn, 0} /\ accepted' = accepted /\ crashes' = crashes
  BY <1>1, <1>2, EmptySeq DEF ServerPlace
<1> QED BY <1>2, <1>3, <1>6, <1>7, <1>8, <1>9, ServerFrame

\* A new process waits for connections.
LEMMA Started == ASSUME IInv, ServerStarts, UNCHANGED clientVars PROVE IInv'
<1>1. /\ spc = "down" /\ spc' = "accept" /\ fileLen' = 0
      /\ conns' = conns /\ conn' = conn /\ accepted' = accepted /\ store' = store
      /\ sname' = sname /\ sleft' = sleft /\ crashes' = crashes
      /\ cpc' = cpc /\ sock' = sock /\ isAuth' = isAuth /\ mine' = mine
      /\ name' = name /\ rest' = rest /\ want' = want
  BY DEF ServerStarts, clientVars
<1>2. conn = 0 /\ sleft = << >>
  BY <1>1 DEF IInv, ConnInv
<1>3. TypeOK'
  BY <1>1 DEF IInv, TypeOK, ServerTypeOK, ClientTypeOK, ServerPlace
<1>4. SockInv' /\ FileInv'
  BY <1>1 DEF IInv, SockInv, FileInv
<1>5. ConnInv'
  BY <1>1, <1>2 DEF IInv, ConnInv
<1>6. LinkInv'
  <2>1. SUFFICES ASSUME NEW c \in Client, sock[c] # 0 PROVE Link(c)'
    BY <1>1 DEF LinkInv
  <2>2. Link(c) /\ conn # sock[c] /\ conn' # sock[c]
    BY <1>1, <1>2, <2>1 DEF IInv, LinkInv
  <2> QED BY <1>1, <2>2, OtherLink
<1>7. LeftInv'
  <2>1. \A k \in DOMAIN conns : k # 0
    BY StateFacts
  <2>2. \A k \in DOMAIN conns :
          conns[k].left /\ ~conns[k].dead /\ k > accepted =>
              /\ cpc[conns[k].client] = "gone"
              /\ conns[k].up = Header("OPEN", 0, 0)
    BY DEF IInv, LeftInv
  <2> QED BY <1>1, <1>2, <2>1, <2>2 DEF LeftInv
<1>8. AuthInv'
  <2>1. \A c \in Client : ~Stranded(c)
    BY <1>2 DEF Stranded
  <2> QED BY <1>1, <2>1 DEF IInv, AuthInv, AskInv, AuthBeforeService, Down, Putting
<1> QED BY <1>3, <1>4, <1>5, <1>6, <1>7, <1>8 DEF IInv

\* accept takes the oldest connection: OPEN has been sent on it, and no more.
LEMMA Accepted == ASSUME IInv, Accept, UNCHANGED clientVars PROVE IInv'
<1>1. /\ spc = "accept" /\ spc' = "cmd" /\ accepted < Len(conns)
      /\ accepted' = accepted + 1 /\ conn' = accepted + 1
      /\ conns' = conns /\ store' = store /\ fileLen' = fileLen
      /\ sname' = sname /\ sleft' = sleft /\ crashes' = crashes
      /\ cpc' = cpc /\ sock' = sock /\ isAuth' = isAuth /\ mine' = mine
      /\ name' = name /\ rest' = rest /\ want' = want
  BY DEF Accept, clientVars
<1>2. conn = 0 /\ sleft = << >> /\ sname \in Name
  BY <1>1 DEF IInv, ConnInv, TypeOK, ServerTypeOK
<1>3. /\ Len(conns) \in Nat /\ accepted \in 0 .. Len(conns) /\ DOMAIN conns = 1 .. Len(conns)
      /\ accepted + 1 \in 1 .. Len(conns)
      /\ \A c \in Client : sock[c] # 0 => sock[c] \in 1 .. Len(conns)
  <2>1. /\ Len(conns) \in Nat /\ accepted \in 0 .. Len(conns)
        /\ DOMAIN conns = 1 .. Len(conns)
        /\ \A c \in Client : sock[c] # 0 => sock[c] \in 1 .. Len(conns)
    BY StateFacts
  <2> QED BY <1>1, <2>1
<1>4. TypeOK'
  BY <1>1, <1>3 DEF IInv, TypeOK, ServerTypeOK, ClientTypeOK, ServerPlace
<1>5. SockInv' /\ FileInv'
  BY <1>1 DEF IInv, SockInv, FileInv
<1>6. ~conns[accepted + 1].dead
  <2>1. conns[accepted + 1].dead => accepted + 1 <= accepted
    BY <1>3 DEF IInv, ConnInv
  <2> QED BY <1>3, <2>1
<1>7. ConnInv'
  <2>1. ASSUME NEW k \in 1 .. Len(conns), conns[k].dead
        PROVE  crashes' > 0 /\ k <= accepted' /\ k # conn' /\ conns[k].up = << >>
    <3>1. crashes > 0 /\ k <= accepted /\ conns[k].up = << >>
      BY <1>3, <2>1 DEF IInv, ConnInv
    <3> QED BY <1>1, <1>3, <1>6, <2>1, <3>1
  <2>2. conn' # 0 /\ spc' = "cmd" /\ sleft' = << >>
    BY <1>1, <1>2, <1>3
  <2> QED BY <1>1, <1>3, <2>1, <2>2 DEF ConnInv
<1>8. LinkInv'
  <2>1. SUFFICES ASSUME NEW c \in Client, sock[c] # 0 PROVE Link(c)'
    BY <1>1 DEF LinkInv
  <2>2. Link(c) /\ sock[c] \in 1 .. Len(conns) /\ conn # sock[c]
    BY <1>2, <1>3, <2>1 DEF IInv, LinkInv
  <2>3. Down(c)' = Down(c)
    BY <1>1 DEF Down
  <2>4. CASE sock[c] = accepted + 1
    <3>a. ~conns[sock[c]].torn
      BY <1>3, <2>2, <2>4 DEF Link, TornLink
    <3>1. QueuedLink(c)
      BY <1>2, <1>3, <1>6, <2>2, <2>4, <3>a DEF Link
    <3>2. /\ cpc[c] = "OPEN" /\ Down(c) = << >>
          /\ conns[accepted + 1].up = Header("OPEN", 0, 0)
      BY <2>4, <3>1 DEF QueuedLink
    <3>3. IsRequest(Up', "OPEN", name'[c]) /\ cpc'[c] = "OPEN"
      BY <1>1, <3>2 DEF IsRequest, Up
    <3>4. ServedLink(c)'
      BY <1>1, <2>3, <3>2, <3>3 DEF ServedLink, Request, IsRequest
    <3>5. /\ ~conns'[sock'[c]].torn /\ ~conns'[sock'[c]].dead /\ conn' = sock'[c]
      BY <1>1, <1>6, <2>4, <3>a
    <3> QED BY <3>4, <3>5 DEF Link
  <2>5. CASE sock[c] # accepted + 1
    <3>1. sock[c] > accepted <=> sock[c] > accepted'
      BY <1>1, <1>3, <2>2, <2>5
    <3>2. GetComes(c)' <=> GetComes(c)
      BY <1>1, <2>3 DEF GetComes
    <3>3. DeadLink(c)' <=> DeadLink(c)
      BY <1>1, <2>3, <3>2 DEF DeadLink
    <3>4. QueuedLink(c)' <=> QueuedLink(c)
      BY <1>1, <2>3 DEF QueuedLink
    <3>5. DismissedLink(c)' <=> DismissedLink(c)
      BY <1>1, <2>3 DEF DismissedLink
    <3>6. conn' # sock'[c] /\ conn # sock[c] /\ sock'[c] = sock[c]
      BY <1>1, <2>2, <2>5
    <3>7. TornLink(c) => TornLink(c)'
      <4>1. sock[c] <= accepted => sock'[c] <= accepted'
        BY <1>1, <1>3, <2>2
      <4> QED BY <1>1, <2>3, <3>6, <4>1 DEF TornLink
    <3> QED BY <1>1, <2>2, <3>1, <3>3, <3>4, <3>5, <3>6, <3>7 DEF Link
  <2> QED BY <2>4, <2>5
<1>9. LeftInv'
  <2>1. \A k \in 1 .. Len(conns) :
          conns[k].left /\ ~conns[k].dead /\ k > accepted =>
              /\ cpc[conns[k].client] = "gone"
              /\ conns[k].up = Header("OPEN", 0, 0)
    BY <1>3 DEF IInv, LeftInv
  <2>2. SUFFICES ASSUME NEW k \in 1 .. Len(conns), conns[k].left, ~conns[k].dead,
                        NEW file
                 PROVE  /\ k > accepted' => /\ cpc[conns[k].client] = "gone"
                                            /\ conns[k].up = Header("OPEN", 0, 0)
                        /\ k = conn' => /\ cpc[conns[k].client] = "gone"
                                        /\ LeftLink(file)'
    BY <1>1, <1>3 DEF LeftInv
  <2>3. k > accepted' => /\ cpc[conns[k].client] = "gone"
                         /\ conns[k].up = Header("OPEN", 0, 0)
    BY <1>1, <1>3, <2>1, <2>2
  <2>4. ASSUME k = conn' PROVE cpc[conns[k].client] = "gone" /\ LeftLink(file)'
    <3>1. k > accepted
      BY <1>1, <1>3, <2>4
    <3>2. /\ cpc[conns[k].client] = "gone"
          /\ conns[k].up = Header("OPEN", 0, 0)
      BY <2>1, <2>2, <3>1
    <3>3. Up' = conns[k].up
      BY <1>1, <2>4 DEF Up
    <3>4. IsRequest(Up', "OPEN", sname) /\ "OPEN" \in Request
      BY <3>2, <3>3 DEF IsRequest, Request
    <3>5. LeftLink(file)'
      BY <1>1, <1>2, <3>4 DEF LeftLink, IsRequest
    <3> QED BY <3>2, <3>5
  <2> QED BY <2>3, <2>4
<1>10. AuthInv'
  <2>1. \A c \in Client : ~Stranded(c)
    BY <1>2 DEF Stranded
  <2> QED BY <1>1, <2>1 DEF IInv, AuthInv, AskInv, AuthBeforeService, Down, Putting
<1> QED BY <1>4, <1>5, <1>7, <1>8, <1>9, <1>10 DEF IInv

\* The process dies, and every connection with it; its replies still arrive.
LEMMA Died == ASSUME IInv, ServerDies, UNCHANGED clientVars PROVE IInv'
<1>1. /\ spc' = "down" /\ conn' = 0 /\ sleft' = << >> /\ accepted' = Len(conns)
      /\ crashes < MaxCrash /\ crashes' = crashes + 1
      /\ store' = store /\ fileLen' = fileLen /\ sname' = sname
      /\ cpc' = cpc /\ sock' = sock /\ isAuth' = isAuth /\ mine' = mine
      /\ name' = name /\ rest' = rest /\ want' = want
  BY DEF ServerDies, clientVars
<1>2. /\ conns \in Seq(Connection) /\ Len(conns) \in Nat
      /\ DOMAIN conns = 1 .. Len(conns)
      /\ \A k \in 1 .. Len(conns) : conns[k] \in Connection
      /\ \A c \in Client : /\ sock[c] \in 0 .. Len(conns)
                           /\ sock[c] # 0 => sock[c] \in 1 .. Len(conns)
  BY StateFacts
<1>3. /\ conns' \in Seq(Connection) /\ Len(conns') = Len(conns)
      /\ DOMAIN conns' = 1 .. Len(conns)
      /\ \A k \in 1 .. Len(conns) : /\ conns'[k].client = conns[k].client
                                    /\ conns'[k].left = conns[k].left
                                    /\ conns'[k].down = conns[k].down
                                    /\ conns'[k].torn = conns[k].torn
                                    /\ conns'[k].dead = TRUE /\ conns'[k].up = << >>
  <2>1. conns' = [k \in 1 .. Len(conns) |->
                     [conns[k] EXCEPT !.dead = TRUE, !.up = << >>]]
    BY <1>2 DEF ServerDies
  <2>2. \A k \in 1 .. Len(conns) :
          [conns[k] EXCEPT !.dead = TRUE, !.up = << >>] \in Connection
    BY <1>2, EmptySeq DEF Connection
  <2>3. conns' \in [1 .. Len(conns) -> Connection]
    BY <2>1, <2>2
  <2>4. conns' \in Seq(Connection) /\ Len(conns') = Len(conns)
    BY <1>2, <2>3, SeqDef, LenProperties
  <2>5. \A k \in 1 .. Len(conns) : /\ conns'[k].client = conns[k].client
                                   /\ conns'[k].left = conns[k].left
                                   /\ conns'[k].down = conns[k].down
                                   /\ conns'[k].torn = conns[k].torn
                                   /\ conns'[k].dead = TRUE /\ conns'[k].up = << >>
    BY <1>2, <2>1 DEF Connection
  <2> QED BY <2>3, <2>4, <2>5
<1>4. crashes \in Nat /\ crashes' \in 0 .. MaxCrash /\ crashes' > 0
  BY <1>1, CrashAssumption DEF IInv, TypeOK, ServerTypeOK
<1>5. TypeOK'
  <2>1. ServerTypeOK'
    BY <1>1, <1>2, <1>3, <1>4, EmptySeq DEF IInv, TypeOK, ServerTypeOK, ServerPlace
  <2>2. ClientTypeOK'
    BY <1>1, <1>3 DEF IInv, TypeOK, ClientTypeOK
  <2> QED BY <1>3, <2>1, <2>2 DEF TypeOK
<1>6. SockInv'
  <2>1. \A c \in Client :
          /\ cpc[c] \notin {"prompt", "gone"} => sock[c] # 0
          /\ cpc[c] = "gone" => sock[c] = 0
          /\ sock[c] # 0 => conns'[sock[c]].client = c /\ ~conns'[sock[c]].left
    BY <1>2, <1>3 DEF IInv, SockInv
  <2>2. \A k \in 1 .. Len(conns) : ~conns'[k].left => sock[conns'[k].client] = k
    BY <1>2, <1>3 DEF IInv, SockInv
  <2> QED BY <1>1, <1>3, <2>1, <2>2 DEF SockInv
<1>7. ConnInv'
  <2>1. \A k \in 1 .. Len(conns) : k <= accepted' /\ k # conn'
    BY <1>1, <1>2
  <2> QED BY <1>1, <1>3, <1>4, <2>1 DEF ConnInv
<1>8. FileInv'
  BY <1>1 DEF IInv, FileInv
<1>9. LinkInv'
  <2>1. SUFFICES ASSUME NEW c \in Client, sock[c] # 0 PROVE Link(c)'
    BY <1>1 DEF LinkInv
  <2>2. sock[c] \in 1 .. Len(conns) /\ Link(c)
    BY <1>2, <2>1 DEF IInv, LinkInv
  <2>3. Down(c)' = Down(c)
    BY <1>1, <1>3, <2>2 DEF Down
  <2>4. ~conns[sock[c]].torn => DeadLink(c)
    <3>1. DismissedLink(c) => DeadLink(c)
      BY DEF DismissedLink, DeadLink
    <3>2. QueuedLink(c) => DeadLink(c)
      BY DEF QueuedLink, DeadLink, Request
    <3>3. GetLink(c) => DeadLink(c)
      BY DEF GetLink, DeadLink
    <3>4. PutLink(c) => DeadLink(c)
      BY DEF PutLink, DeadLink
    <3>5. ServedLink(c) => DeadLink(c)
      BY <3>3, <3>4 DEF ServedLink, DeadLink
    <3> QED BY <2>2, <3>1, <3>2, <3>5 DEF Link
  <2>5. GetComes(c)' <=> GetComes(c)
    BY <1>1, <2>3 DEF GetComes
  <2>6. ~conns[sock[c]].torn => DeadLink(c)'
    BY <1>1, <2>3, <2>4, <2>5 DEF DeadLink
  <2>7. conns'[sock'[c]].dead /\ conns'[sock'[c]].torn = conns[sock[c]].torn
    BY <1>1, <1>3, <2>2
  <2>8. conns[sock[c]].torn => TornLink(c)'
    <3>1. conns[sock[c]].torn => TornLink(c)
      BY <2>2 DEF Link
    <3>2. sock'[c] <= accepted'
      BY <1>1, <1>2, <2>2
    <3> QED BY <1>1, <2>3, <2>7, <3>1, <3>2 DEF TornLink
  <2> QED BY <2>6, <2>7, <2>8 DEF Link
<1>10. LeftInv'
  BY <1>3 DEF LeftInv
<1>11. AuthInv'
  <2>1. crashes' # 0
    BY <1>4
  <2> QED BY <1>1, <2>1 DEF IInv, AuthInv, AskInv, AuthBeforeService
<1> QED BY <1>5, <1>6, <1>7, <1>8, <1>9, <1>10, <1>11 DEF IInv

-----------------------------------------------------------------------------
(* A connection on which a listing is torn.                                *)

LEMMA TornFacts ==
    ASSUME IInv, conn # 0, ~Calm, NEW c, c = conns[conn].client
    PROVE  /\ c \in Client /\ cpc[c] # "gone" /\ conns[conn].torn /\ TornServed(c)
           /\ ~conns[conn].left =>
                 /\ sock[c] = conn /\ isAuth[c] /\ Down(c) # << >> /\ Down(c)[1] \in ListCell
                 /\ cpc[c] \in {"prompt", "LIST", "GET", "PUT", "QUIT"}
           /\ conns[conn].left => Stranded(c)
<1>1. /\ conn \in 1 .. Len(conns) /\ DOMAIN conns = 1 .. Len(conns)
      /\ ~conns[conn].dead /\ c \in Client
  BY StateFacts
<1>2. conns[conn].torn /\ cpc[c] # "gone"
  BY DEF Calm
<1>3. ASSUME ~conns[conn].left
      PROVE  /\ TornServed(c)
             /\ sock[c] = conn /\ isAuth[c] /\ Down(c) # << >> /\ Down(c)[1] \in ListCell
             /\ cpc[c] \in {"prompt", "LIST", "GET", "PUT", "QUIT"}
  <2>1. sock[c] = conn
    BY <1>1, <1>3 DEF IInv, SockInv
  <2>2. TornLink(c)
    BY <1>1, <1>2, <2>1 DEF IInv, LinkInv, Link
  <2> QED BY <1>1, <2>1, <2>2 DEF TornLink
<1>4. conns[conn].left => Stranded(c) /\ TornServed(c)
  BY <1>2, LeftConn DEF Stranded
<1> QED BY <1>1, <1>2, <1>3, <1>4

\* The server takes what is sent and goes on, or lets a client that quits go.
LEMMA TornFrame ==
    ASSUME IInv, UNCHANGED clientVars, conn # 0, ~Calm,
           NEW c, c = conns[conn].client,
           NEW down, Rewrites(conn, << >>, down, conns[conn].authed),
           ~conns[conn].left => down # << >> /\ down[1] = conns[conn].down[1],
           conn' \in {conn, 0}, accepted' = accepted, crashes' = crashes,
           spc' \in ServerPlace \ {"down"}, spc' = "accept" <=> conn' = 0,
           store' \in Directory, fileLen' \in Nat, sname' \in Name,
           sleft' \in Seq(Cell), spc' = "get" <=> sleft' # << >>,
           conn' = conn => TornServed(c)',
           conn' # conn => ~conns[conn].left /\ cpc[c] = "QUIT",
           crashes = 0 /\ spc' \in Putting \cup {"get"} => conns[conn].authed
    PROVE  IInv'
<1>1. /\ c \in Client /\ cpc[c] # "gone" /\ conns[conn].torn
      /\ ~conns[conn].left =>
            /\ sock[c] = conn /\ isAuth[c] /\ Down(c)[1] \in ListCell
            /\ cpc[c] \in {"prompt", "LIST", "GET", "PUT", "QUIT"}
      /\ conns[conn].left => Stranded(c)
  BY TornFacts
<1>2. /\ conn \in Nat /\ accepted \in Nat /\ conn <= accepted
      /\ conns'[conn].up = << >> /\ conns'[conn].down = down
      /\ conns'[conn].torn = conns[conn].torn /\ conns'[conn].left = conns[conn].left
      /\ conns'[conn].client = conns[conn].client
      /\ cpc' = cpc /\ sock' = sock /\ isAuth' = isAuth
  <2>1. conn \in 0 .. accepted /\ accepted \in 0 .. Len(conns) /\ Len(conns) \in Nat
    BY StateFacts
  <2> QED BY <2>1 DEF Rewrites, clientVars
<1>3. ASSUME ~conns[conn].left PROVE Link(c)'
  <2>1. Down(c)' = down /\ Down(c) = conns[conn].down
    BY <1>1, <1>2, <1>3 DEF Down
  <2>2. TornLink(c)'
    BY <1>1, <1>2, <1>3, <2>1 DEF TornLink
  <2> QED BY <1>1, <1>2, <1>3, <2>2 DEF Link
<1>4. conns[conn].left => conn' = conn /\ Stranded(c)'
  BY <1>1, <1>2 DEF Stranded
<1>5. crashes = 0 /\ isAuth[c] => (~conns[conn].left /\ conns[conn].authed) \/ Stranded(c)'
  <2>1. ~conns[conn].left => ~Stranded(c)
    BY DEF Stranded
  <2>2. crashes = 0 /\ isAuth[c] => (sock[c] # 0 /\ conns[sock[c]].authed) \/ Stranded(c)
    BY <1>1 DEF IInv, AuthInv
  <2> QED BY <1>1, <1>4, <2>1, <2>2
<1>6. ~AsksService(conns'[conn].up)
  BY <1>2 DEF AsksService
<1>7. OwnEnd(c, down, conns[conn].authed)
  BY <1>1, <1>3, <1>4, <1>5, <1>6 DEF OwnEnd
<1>8. PICK up : up = << >>
  OBVIOUS
<1> QED BY <1>1, <1>7, <1>8, OwnFrame

LEMMA TornAnswered ==
    ASSUME IInv, conn # 0, ~Calm, NEW n, NEW cells \in Seq(Cell), Drop(Up, n) = << >>,
           conns' = Answered(n, cells)
    PROVE  \E down : /\ Rewrites(conn, << >>, down, conns[conn].authed)
                     /\ ~conns[conn].left => down # << >> /\ down[1] = conns[conn].down[1]
<1>1. conns \in Seq(Connection) /\ conn \in 1 .. Len(conns) /\ conns[conn].down \in Seq(Cell)
  BY StateFacts DEF Connection
<1>2. Drop(Up, n) \in Seq(Cell)
  BY EmptySeq
<1>3. PICK old \in Seq(Cell) : old = conns[conn].down
  BY <1>1
<1>4. old \o cells \in Seq(Cell)
  BY <1>3, CellConcat
<1>5. ~conns[conn].left => old # << >>
  BY <1>3, TornFacts DEF Down
<1>6. old # << >> => old \o cells # << >> /\ (old \o cells)[1] = old[1]
  <2>1. /\ Len(old \o cells) = Len(old) + Len(cells) /\ Len(old) \in Nat /\ Len(cells) \in Nat
        /\ \A i \in 1 .. Len(old) + Len(cells) :
              (old \o cells)[i] = IF i <= Len(old) THEN old[i] ELSE cells[i - Len(old)]
    BY ConcatProperties, LenProperties
  <2>2. SUFFICES ASSUME old # << >>
                 PROVE  old \o cells # << >> /\ (old \o cells)[1] = old[1]
    OBVIOUS
  <2>3. Len(old) # 0
    BY <2>2, EmptySeq
  <2>4. 1 \in 1 .. Len(old) + Len(cells) /\ 1 <= Len(old) /\ Len(old \o cells) # 0
    BY <2>1, <2>3
  <2>5. (old \o cells)[1] = old[1]
    BY <2>1, <2>4
  <2> QED BY <1>4, <2>4, <2>5, EmptySeq
<1>7. PICK down : down = IF conns[conn].left THEN old ELSE old \o cells
  OBVIOUS
<1>8. Rewrites(conn, Drop(Up, n), down, conns[conn].authed)
  BY <1>1, <1>2, <1>3, <1>4, <1>7, AnsweredRewrites
<1>9. Rewrites(conn, << >>, down, conns[conn].authed)
  BY <1>8
<1> QED BY <1>3, <1>5, <1>6, <1>7, <1>9

\* What is read is a request for a listing or a file, or a QUIT.
LEMMA TornAsked ==
    ASSUME IInv, conn # 0, ~Calm, NEW c, c = conns[conn].client,
           NEW request \in Request, Asked(request)
    PROVE  /\ request \in {"LIST", "GET", "PUT", "QUIT"}
           /\ request \in {"LIST", "QUIT"} => Drop(Up, HeaderLen) = << >>
           /\ request \in {"GET", "PUT"} => Drop(Up, HeaderLen + 1) = << >>
           /\ request = "QUIT" => ~conns[conn].left /\ cpc[c] = "QUIT"
           /\ request # "QUIT" => conns[conn].left \/ cpc[c] # "prompt"
           /\ sleft = << >> /\ sname \in Name /\ fileLen \in Nat /\ store \in Directory
<1>1. spc = "cmd" /\ Up # << >> /\ IsHeader(Up, request)
  BY DEF Asked, IsHeader, AnyHeader
<1>2. sleft = << >> /\ sname \in Name /\ fileLen \in Nat /\ store \in Directory
  BY <1>1 DEF IInv, ConnInv, TypeOK, ServerTypeOK, FileInv
<1>3. TornServed(c)
  BY TornFacts
<1>4. CASE Up = Header("QUIT", 0, 0) /\ ~conns[conn].left /\ cpc[c] = "QUIT"
  <2>1. request = "QUIT" /\ Drop(Up, HeaderLen) = << >>
    BY <1>1, <1>4, MessageTypes, SeenBare DEF Shows, Request
  <2> QED BY <1>2, <1>4, <2>1
<1>5. ASSUME NEW type \in {"LIST", "GET", "PUT"}, NEW n \in Name, IsRequest(Up, type, n),
             conns[conn].left \/ cpc[c] # "prompt"
      PROVE  /\ request \in {"LIST", "GET", "PUT"}
             /\ request = "LIST" => Drop(Up, HeaderLen) = << >>
             /\ request \in {"GET", "PUT"} => Drop(Up, HeaderLen + 1) = << >>
  <2>1. type \in Request
    BY DEF Request
  <2> QED BY <1>1, <1>5, <2>1, RequestFacts
<1> QED BY <1>1, <1>2, <1>3, <1>4, <1>5 DEF TornServed

LEMMA TornListed ==
    ASSUME IInv, conn # 0, ~Calm, ServeList \/ ServeQuit, UNCHANGED clientVars
    PROVE  IInv'
<1>1. PICK c : c = conns[conn].client
  OBVIOUS
<1>2. PICK request \in {"LIST", "QUIT"} :
        /\ Asked(request)
        /\ request = "LIST" => ServeList
        /\ request = "QUIT" => ServeQuit
  <2>1. ASSUME ServeList PROVE Asked("LIST")
    BY <2>1 DEF ServeList
  <2>2. ASSUME ServeQuit PROVE Asked("QUIT")
    BY <2>2 DEF ServeQuit
  <2> QED BY <2>1, <2>2
<1>3. /\ request \in Request /\ Drop(Up, HeaderLen) = << >> /\ spc = "cmd"
      /\ request = "QUIT" => ~conns[conn].left /\ cpc[c] = "QUIT"
      /\ sleft = << >> /\ sname \in Name /\ fileLen \in Nat /\ store \in Directory
  <2>1. request \in Request
    BY DEF Request
  <2> QED BY <1>1, <1>2, <2>1, TornAsked DEF Asked
<1>4. PICK cells \in Seq(Cell) : conns' = Answered(HeaderLen, cells)
  <2>1. CASE request = "LIST"
    <3>1. PICK names \in SUBSET Name : names = {m \in Name : store[m] # NoFile}
      OBVIOUS
    <3>2. IsAnswer(Header("LIST_REPLY", 0, 0) \o Listing(names), "LIST")
      BY DEF IsAnswer
    <3>3. Header("LIST_REPLY", 0, 0) \o Listing(names) \in Seq(Cell)
      BY <3>2, AnswerFacts DEF Shows
    <3> QED BY <1>2, <2>1, <3>1, <3>3, ReplyNames DEF ServeList
  <2>2. CASE request = "QUIT"
    <3>1. Header("QUIT_REPLY", 0, 0) \in Seq(Cell)
      BY MessageTypes, HeaderFacts
    <3> QED BY <1>2, <2>2, <3>1, ReplyNames DEF ServeQuit
  <2> QED BY <2>1, <2>2
<1>5. PICK down : /\ Rewrites(conn, << >>, down, conns[conn].authed)
                  /\ ~conns[conn].left => down # << >> /\ down[1] = conns[conn].down[1]
  BY <1>3, <1>4, TornAnswered
<1>6. /\ conn' \in {conn, 0} /\ accepted' = accepted /\ crashes' = crashes
      /\ spc' \in ServerPlace \ {"down"} /\ (spc' = "accept" <=> conn' = 0)
      /\ store' \in Directory /\ fileLen' \in Nat /\ sname' \in Name
      /\ sleft' \in Seq(Cell) /\ (spc' = "get" <=> sleft' # << >>)
      /\ spc' \notin Putting \cup {"get"}
      /\ conn' = conn => spc' = "cmd"
      /\ conn' # conn => ~conns[conn].left /\ cpc[c] = "QUIT"
  <2>1. CASE request = "LIST"
    <3>1. UNCHANGED serverVars
      BY <1>2, <2>1 DEF ServeList
    <3> QED BY <1>3, <3>1, EmptySeq DEF serverVars, ServerPlace, Putting
  <2>2. CASE request = "QUIT"
    <3>1. conn' = 0 /\ spc' = "accept"
          /\ UNCHANGED <<accepted, store, fileLen, sname, sleft, crashes>>
      BY <1>2, <2>2 DEF ServeQuit, Here
    <3> QED BY <1>3, <2>2, <3>1, EmptySeq DEF ServerPlace, Putting
  <2> QED BY <2>1, <2>2
<1>7. conn' = conn => TornServed(c)'
  BY <1>5, <1>6 DEF TornServed, Up, Rewrites
<1> QED BY <1>1, <1>5, <1>6, <1>7, TornFrame

LEMMA TornGot ==
    ASSUME IInv, conn # 0, ~Calm, ServeGet, UNCHANGED clientVars
    PROVE  IInv'
<1>1. PICK c : c = conns[conn].client
  OBVIOUS
<1>2. Asked("GET") /\ "GET" \in Request /\ "GET" \in {"LIST", "GET", "PUT"}
      /\ UNCHANGED <<conn, accepted, store, fileLen, sname, crashes>>
  BY DEF ServeGet, Request
<1>3. /\ Drop(Up, HeaderLen + 1) = << >> /\ spc = "cmd"
      /\ conns[conn].left \/ cpc[c] # "prompt"
      /\ sleft = << >> /\ sname \in Name /\ fileLen \in Nat /\ store \in Directory
  BY <1>1, <1>2, TornAsked DEF Asked
<1>4. PICK n \in Name :
        IF store[n] = NoFile
        THEN /\ conns' = Answered(HeaderLen + 1, Header("GET_REPLY", 0, 0))
             /\ UNCHANGED <<spc, sleft>>
        ELSE /\ conns' = Answered(HeaderLen + 1,
                     Header("GET_REPLY", 1, 0) \o Header("FILE_DATA", 0, Len(store[n])))
             /\ sleft' = store[n]
             /\ spc' = IF store[n] = << >> THEN "cmd" ELSE "get"
  BY ReplyNames DEF ServeGet
<1>5. /\ \E cells \in Seq(Cell) : conns' = Answered(HeaderLen + 1, cells)
      /\ spc' \in {"cmd", "get"} /\ sleft' \in Seq(Cell)
      /\ spc' = "get" <=> sleft' # << >>
  <2>1. CASE store[n] = NoFile
    <3>1. Header("GET_REPLY", 0, 0) \in Seq(Cell)
      BY MessageTypes, HeaderFacts
    <3> QED BY <1>3, <1>4, <2>1, <3>1, EmptySeq
  <2>2. CASE store[n] # NoFile
    <3>1. store[n] \in Seq(Byte) /\ Len(store[n]) \in Nat
      BY <1>3, <2>2, LenProperties DEF Directory
    <3>2. /\ Header("GET_REPLY", 1, 0) \in Seq(Cell)
          /\ Header("FILE_DATA", 0, Len(store[n])) \in Seq(Cell)
      BY <3>1, MessageTypes, HeaderFacts
    <3>3. Header("GET_REPLY", 1, 0) \o Header("FILE_DATA", 0, Len(store[n])) \in Seq(Cell)
      BY <3>2, CellConcat
    <3>4. store[n] \in Seq(Cell)
      BY <3>1, ByteCells
    <3> QED BY <1>4, <2>2, <3>3, <3>4
  <2> QED BY <2>1, <2>2
<1>6. PICK cells \in Seq(Cell) : conns' = Answered(HeaderLen + 1, cells)
  BY <1>5
<1>7. PICK down : /\ Rewrites(conn, << >>, down, conns[conn].authed)
                  /\ ~conns[conn].left => down # << >> /\ down[1] = conns[conn].down[1]
  BY <1>3, <1>6, TornAnswered
<1>8. conn' = conn => TornServed(c)'
  BY <1>2, <1>3, <1>5, <1>7 DEF TornServed, Up, Rewrites, clientVars
<1>9. crashes = 0 => conns[conn].authed
  BY <1>2, AskedAuthed
<1>10. spc' \in ServerPlace \ {"down"} /\ (spc' = "accept" <=> conn' = 0)
  BY <1>2, <1>5 DEF ServerPlace
<1> QED BY <1>1, <1>2, <1>3, <1>5, <1>7, <1>8, <1>9, <1>10, TornFrame

LEMMA TornPiece ==
    ASSUME IInv, conn # 0, ~Calm, SendPiece, UNCHANGED clientVars
    PROVE  IInv'
<1>1. PICK c : c = conns[conn].client
  OBVIOUS
<1>2. /\ spc = "get" /\ conns' = Answered(0, Piece(sleft))
      /\ sleft' = Drop(sleft, Len(Piece(sleft)))
      /\ spc' = IF sleft' = << >> THEN "cmd" ELSE "get"
      /\ UNCHANGED <<conn, accepted, store, fileLen, sname, crashes>>
  BY DEF SendPiece
<1>3. /\ sleft \in Seq(Cell) /\ sname \in Name /\ fileLen \in Nat /\ store \in Directory
  BY DEF IInv, TypeOK, ServerTypeOK, FileInv
<1>4. Up = << >> /\ (conns[conn].left \/ cpc[c] # "prompt")
  <2>1. TornServed(c)
    BY <1>1, TornFacts
  <2> QED BY <1>2, <2>1 DEF TornServed
<1>5. Drop(Up, 0) = << >>
  BY <1>4, EmptySeq, DropAll
<1>6. Piece(sleft) \in Seq(Cell) /\ sleft' \in Seq(Cell)
  BY <1>2, <1>3, PieceFacts
<1>7. PICK down : /\ Rewrites(conn, << >>, down, conns[conn].authed)
                  /\ ~conns[conn].left => down # << >> /\ down[1] = conns[conn].down[1]
  BY <1>2, <1>5, <1>6, TornAnswered
<1>8. conn' = conn => TornServed(c)'
  BY <1>2, <1>4, <1>7 DEF TornServed, Up, Rewrites, clientVars
<1>9. crashes = 0 => conns[conn].authed
  BY <1>2 DEF IInv, AuthInv, AuthBeforeService
<1>10. spc' \in ServerPlace \ {"down"} /\ (spc' = "accept" <=> conn' = 0)
       /\ (spc' = "get" <=> sleft' # << >>)
  BY <1>2 DEF ServerPlace
<1> QED BY <1>1, <1>2, <1>3, <1>6, <1>7, <1>8, <1>9, <1>10, TornFrame

LEMMA TornPut ==
    ASSUME IInv, conn # 0, ~Calm, ServePut, UNCHANGED clientVars
    PROVE  IInv'
<1>1. PICK c : c = conns[conn].client
  OBVIOUS
<1>2. /\ Asked("PUT") /\ "PUT" \in Request /\ "PUT" \in {"LIST", "GET", "PUT"}
      /\ spc' = "putfirst" /\ UNCHANGED <<conn, accepted, fileLen, sleft, crashes>>
      /\ conns' = Answered(HeaderLen + 1, Header("PUT_REPLY", 0, 0))
  BY ReplyNames DEF ServePut, Request
<1>3. /\ Drop(Up, HeaderLen + 1) = << >> /\ spc = "cmd"
      /\ conns[conn].left \/ cpc[c] # "prompt"
      /\ sleft = << >> /\ fileLen \in Nat /\ store \in Directory
  BY <1>1, <1>2, TornAsked DEF Asked
<1>4. store' \in Directory /\ sname' \in Name
  <2>1. PICK n \in Name : store' = [store EXCEPT ![n] = << >>] /\ sname' = n
    BY DEF ServePut
  <2>2. PICK s \in Seq(Byte) : s = << >>
    BY EmptySeq
  <2>3. store' = [store EXCEPT ![n] = s]
    BY <2>1, <2>2
  <2> QED BY <1>3, <2>1, <2>3 DEF Directory
<1>5. Header("PUT_REPLY", 0, 0) \in Seq(Cell)
  BY MessageTypes, HeaderFacts
<1>6. PICK down : /\ Rewrites(conn, << >>, down, conns[conn].authed)
                  /\ ~conns[conn].left => down # << >> /\ down[1] = conns[conn].down[1]
  BY <1>2, <1>3, <1>5, TornAnswered
<1>7. conn' = conn => TornServed(c)'
  BY <1>2, <1>3, <1>6 DEF TornServed, Up, Rewrites, clientVars
<1>8. crashes = 0 => conns[conn].authed
  BY <1>2, AskedAuthed
<1>9. /\ spc' \in ServerPlace \ {"down"} /\ (spc' = "accept" <=> conn' = 0)
      /\ (spc' = "get" <=> sleft' # << >>) /\ sleft' \in Seq(Cell)
  BY <1>2, <1>3, EmptySeq DEF ServerPlace
<1> QED BY <1>1, <1>2, <1>3, <1>4, <1>6, <1>7, <1>8, <1>9, TornFrame

LEMMA TornEnd ==
    ASSUME IInv, conn # 0, ~Calm, ReadEnd, UNCHANGED clientVars
    PROVE  IInv'
<1>1. /\ spc \in {"cmd"} \cup Putting /\ Up = << >> /\ conns[conn].left /\ spc' = "spin"
      /\ UNCHANGED <<conns, conn, accepted, fileLen, sname, sleft, crashes>>
  BY DEF ReadEnd
<1>2. PICK c : c = conns[conn].client
  OBVIOUS
<1>3. sleft = << >> /\ sname \in Name /\ fileLen \in Nat
  BY <1>1 DEF IInv, ConnInv, TypeOK, ServerTypeOK, Putting
<1>4. Rewrites(conn, << >>, conns[conn].down, conns[conn].authed)
  BY <1>1, StateFacts DEF Rewrites, Up
<1>5. TornServed(c)'
  BY <1>1 DEF TornServed
<1>6. /\ spc' \in ServerPlace \ {"down"} /\ (spc' = "accept" <=> conn' = 0)
      /\ (spc' = "get" <=> sleft' # << >>) /\ sleft' \in Seq(Cell)
      /\ spc' \notin Putting \cup {"get"}
  BY <1>1, <1>3, EmptySeq DEF ServerPlace, Putting
<1> QED BY <1>1, <1>2, <1>3, <1>4, <1>5, <1>6, JunkWritten, TornFrame

\* The loop of PUT reads nothing there.
LEMMA TornPutting == ASSUME IInv, PutFirst \/ PutMore PROVE conn # 0 /\ Calm
<1>1. spc \in Putting
  BY DEF PutFirst, PutMore, Putting
<1>2. conn # 0
  BY <1>1 DEF IInv, ConnInv, Putting
<1>3. ASSUME ~Calm PROVE FALSE
  <2>1. PICK c : c = conns[conn].client
    OBVIOUS
  <2>2. spc = "putfirst" /\ Up = << >>
    BY <1>1, <1>2, <1>3, <2>1, TornFacts DEF TornServed, Putting
  <2>3. PutFirst
    BY <2>2 DEF PutMore
  <2> QED BY <2>2, <2>3 DEF PutFirst, IsHeader, AnyHeader
<1> QED BY <1>2, <1>3

LEMMA TornKeeps ==
    ASSUME IInv, conn # 0, ~Calm, ServerRuns, UNCHANGED clientVars
    PROVE  IInv'
<1>1. ~Accept
  BY DEF Accept, IInv, ConnInv
<1>2. ~ServeOpen /\ ~ServeAuth
  <2>1. ~Asked("OPEN") /\ ~Asked("AUTH")
    BY TornAsked DEF Request
  <2> QED BY <2>1 DEF ServeOpen, ServeAuth
<1>3. ~PutFirst /\ ~PutMore
  BY TornPutting
<1> QED BY <1>1, <1>2, <1>3, TornListed, TornGot, TornPiece, TornPut, TornEnd DEF ServerRuns

LEMMA ServerKeeps == ASSUME IInv, ServerNext, UNCHANGED clientVars PROVE IInv'
<1>1. ASSUME Calm, ServeList \/ ServeGet \/ SendPiece \/ ServePut \/ PutFirst \/ PutMore
      PROVE  IInv'
  BY <1>1, ListServed, GetServed, PieceSent, PutServed, FirstTaken, MoreTaken
<1>2. ASSUME Calm, ServeOpen \/ ServeAuth \/ ServeQuit \/ ReadEnd PROVE IInv'
  BY <1>2, OpenServed, AuthServed, QuitServed, EndRead
<1>3. ASSUME ServerRuns, conn = 0 PROVE IInv'
  <2>1. spc \in {"accept", "down"}
    BY <1>3 DEF IInv, ConnInv
  <2>2. Accept
    BY <1>3, <2>1 DEF ServerRuns, ServeOpen, ServeAuth, ServeQuit, ServeList, ServeGet,
                      SendPiece, ServePut, PutFirst, PutMore, ReadEnd, Asked, Putting
  <2> QED BY <2>2, Accepted
<1>4. ASSUME ServerRuns, conn # 0 PROVE IInv'
  <2>1. ~Accept
    BY <1>4 DEF Accept, IInv, ConnInv
  <2>2. CASE Calm
    BY <1>1, <1>2, <1>4, <2>1, <2>2 DEF ServerRuns
  <2>3. CASE ~Calm
    BY <1>4, <2>3, TornKeeps
  <2> QED BY <2>2, <2>3
<1> QED BY <1>3, <1>4, Died, Started DEF ServerNext

=============================================================================
