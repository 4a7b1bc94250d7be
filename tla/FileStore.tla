----------------------------- MODULE FileStore -----------------------------
(***************************************************************************)
(* What the file system promises its users: names stand for files, a file  *)
(* is a fixed number of bytes, an open file survives the removal of its    *)
(* name, the file of a running program cannot be written, and a restart    *)
(* keeps the named files and nothing else.  FileSystem implements it.      *)
(***************************************************************************)
EXTENDS Integers, Sequences, FiniteSets

CONSTANTS Proc, Name, Fd, Id, Buffer, MaxSize, NULL

VARIABLES
  names,     \* the file of each name, or NULL
  content,   \* the bytes of each file that something refers to, else NULL
  handle,    \* the open file and position of each descriptor, or NULL
  exe,       \* the file each process executes, or NULL
  maps       \* the file each process has mapped, or NULL

svars == <<names, content, handle, exe, maps>>

\* Some files are there already.
Init ==
  /\ \A i \in Id : content[i] # NULL <=> \E n \in Name : names[n] = i
  /\ \A m, n \in Name : names[m] = names[n] /\ names[n] # NULL => m = n
  /\ handle = [p \in Proc |-> [f \in Fd |-> NULL]]
  /\ exe = [p \in Proc |-> NULL]
  /\ maps = [p \in Proc |-> NULL]

\* Files nothing refers to after the step are gone.
Collect ==
  LET c == content
      h == handle'
      live == {names'[n] : n \in Name} \cup {exe'[p] : p \in Proc} \cup {maps'[p] : p \in Proc}
                \cup {h[x[1]][x[2]].file : x \in {y \in Proc \X Fd : h[y[1]][y[2]] # NULL}}
  IN  content' = [i \in Id |-> IF i \in live THEN c[i] ELSE NULL]

Create(n) ==
  /\ names[n] = NULL
  /\ \E i \in Id, size \in 0 .. MaxSize :
       /\ names' = [names EXCEPT ![n] = i]
       /\ content[i] = NULL
       /\ content' = [content EXCEPT ![i] = [b \in 0 .. size - 1 |-> 0]]
  /\ UNCHANGED <<handle, exe, maps>>

Remove(n) ==
  /\ names[n] # NULL
  /\ names' = [names EXCEPT ![n] = NULL]
  /\ UNCHANGED <<handle, exe, maps>>
  /\ Collect

Open(p, f, n) ==
  /\ names[n] # NULL
  /\ handle[p][f] = NULL
  /\ handle' = [handle EXCEPT ![p][f] = [file |-> names[n], pos |-> 0]]
  /\ UNCHANGED <<names, content, exe, maps>>

Close(p, f) ==
  /\ handle[p][f] # NULL
  /\ handle' = [handle EXCEPT ![p][f] = NULL]
  /\ UNCHANGED <<names, exe, maps>>
  /\ Collect

Denied(i) == \E p \in Proc : exe[p] = i

Length(i) == Cardinality(DOMAIN content[i])

\* The first k bytes of buf replace those of file i from pos on.
Overwrite(i, pos, buf, k) ==
  /\ ~Denied(i)
  /\ content' = [content EXCEPT ![i] =
                   [b \in DOMAIN @ |-> IF b \in pos .. pos + k - 1 THEN buf[b - pos + 1]
                                                                 ELSE @[b]]]

\* The position moves past the bytes read or written, never past the end.
Read(p, f) ==
  LET h == handle[p][f]
  IN  /\ h # NULL
      /\ \E pos \in h.pos .. MaxSize :
           handle' = [handle EXCEPT ![p][f].pos = pos] /\ pos <= Length(h.file)
      /\ UNCHANGED <<names, content, exe, maps>>

Write(p, f) ==
  LET h == handle[p][f]
  IN  /\ h # NULL
      /\ \E buf \in Buffer, k \in 1 .. MaxSize :
           /\ handle' = [handle EXCEPT ![p][f].pos = h.pos + k]
           /\ k <= Len(buf) /\ h.pos + k <= Length(h.file)
           /\ Overwrite(h.file, h.pos, buf, k)
      /\ UNCHANGED <<names, exe, maps>>

Seek(p, f) ==
  /\ handle[p][f] # NULL
  /\ \E pos \in 0 .. MaxSize + 1 : handle' = [handle EXCEPT ![p][f].pos = pos]
  /\ UNCHANGED <<names, content, exe, maps>>

Start(p, n) ==
  /\ exe[p] = NULL /\ names[n] # NULL
  /\ exe' = [exe EXCEPT ![p] = names[n]]
  /\ UNCHANGED <<names, content, handle, maps>>

Stop(p) ==
  /\ exe' = [exe EXCEPT ![p] = NULL]
  /\ UNCHANGED <<names, handle, maps>>
  /\ Collect

Map(p, f) ==
  /\ maps[p] = NULL /\ handle[p][f] # NULL
  /\ maps' = [maps EXCEPT ![p] = handle[p][f].file]
  /\ UNCHANGED <<names, content, handle, exe>>

\* Memory is written back through a mapping, from the start of the file.
WriteBack(p) ==
  /\ maps[p] # NULL
  /\ UNCHANGED <<names, handle, exe, maps>>
  /\ \E buf \in Buffer : Overwrite(maps[p], 0, buf, Len(buf))

Unmap(p) ==
  /\ maps' = [maps EXCEPT ![p] = NULL]
  /\ UNCHANGED <<names, handle, exe>>
  /\ Collect

Restart ==
  /\ handle' = [p \in Proc |-> [f \in Fd |-> NULL]]
  /\ exe' = [p \in Proc |-> NULL]
  /\ maps' = [p \in Proc |-> NULL]
  /\ UNCHANGED names
  /\ Collect

\* A step of an implementation that users do not see.
Hidden == UNCHANGED svars

Next ==
  \/ Hidden
  \/ \E n \in Name : Create(n) \/ Remove(n)
  \/ \E p \in Proc :
       \/ Stop(p) \/ WriteBack(p) \/ Unmap(p)
       \/ \E n \in Name : Start(p, n)
       \/ \E f \in Fd : \/ Close(p, f) \/ Read(p, f) \/ Write(p, f) \/ Seek(p, f) \/ Map(p, f)
                        \/ \E n \in Name : Open(p, f, n)
  \/ Restart

Spec == Init /\ [][Next]_svars
=============================================================================
