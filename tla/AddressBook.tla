---------------------------- MODULE AddressBook ----------------------------
(***************************************************************************)
(* The terminal before it is connected: the list of servers in             *)
(* IP/IPCONFIG.txt (IPAdder, FileUpdater), the window that chooses one of  *)
(* them (GetIP), the window that edits them (EditIPSrc) and the dialling   *)
(* (Connect).  One ArrayList is shared by all of them; the combo box has a *)
(* copy of its names.                                                      *)
(*                                                                         *)
(* A text is the sequence of its pieces between commas, so that a line of  *)
(* the file, name "," ip "," port, is the concatenation of the three.      *)
(* Everything happens on one thread at a time, main() until the first      *)
(* window is up and the event thread after it; the program can be ended at *)
(* any step.                                                               *)
(***************************************************************************)
EXTENDS Integers, Sequences, SequencesExt

CONSTANTS
  Pieces,     \* what a text can have between two commas
  Entries,    \* what the user types: records [name, ip, port]
  Numbers,    \* the pieces Integer.parseInt accepts
  Cut,        \* Cut[p]: what can be left of the piece p when its end is missing
  BadPorts,   \* those of them that are no port number
  MaxEntries  \* bound: entries in the list

ASSUME BookAssumption ==
  /\ Entries \subseteq [name : Seq(Pieces), ip : Seq(Pieces), port : Seq(Pieces)]
  /\ \A e \in Entries : e.name # <<>> /\ e.ip # <<>> /\ Len(e.port) = 1
  /\ Numbers \subseteq Pieces
  /\ BadPorts \subseteq Numbers
  /\ Cut \in [Pieces -> SUBSET Pieces]
  /\ MaxEntries \in Nat

VARIABLES
  disk,       \* what there is: "nothing", the "directory", or the "file" in it
  file,       \* the lines of the file
  win,        \* the window on the screen, or what became of the program
  IPStorage,  \* the list in memory
  combo,      \* the items of TCPcomboBox
  chosen,     \* the row of the combo box the user last clicked; 0: none
  ticked,     \* the rows ticked for deletion
  dialled,    \* history: <<the entry last dialled>>, or <<>>
  saved,      \* history: the list as of the last OK that wrote the whole file
  attempted,  \* history: <<the list of an OK that failed after emptying the file>>,
              \* until an OK has written the whole file again; or <<>>
  ioError     \* history: mkdir, createNewFile or reading the file failed at this start

histories == <<dialled, saved, attempted, ioError>>
vars == <<disk, file, win, IPStorage, combo, chosen, ticked, histories>>

(* "off": not running; "starting": mkdir has just been called;
   "connect", "edit": that window is shown; "blank": the connect window
   without its buttons, main() has thrown; "none": running, no window;
   "connected": the session of module S4System. *)
Windows == {"off", "starting", "connect", "edit", "blank", "none", "connected"}

-----------------------------------------------------------------------------
(* The file. *)

(* FileUpdater: one line for every entry. *)
Line(e) == e.name \o e.ip \o e.port
Save(list) == [i \in DOMAIN list |-> Line(list[i])]

(* IPAdder: the first three pieces of every line, the third a number.  Any
   line that is not so makes ProcessFile return null. *)
Readable(lines) ==
  \A i \in DOMAIN lines : Len(lines[i]) >= 3 /\ lines[i][3] \in Numbers

Load(lines) ==
  [i \in DOMAIN lines |->
     [name |-> <<lines[i][1]>>, ip |-> <<lines[i][2]>>, port |-> <<lines[i][3]>>]]

Names(list) == [i \in DOMAIN list |-> list[i].name]

(* What is in the file after a write that did not get to its end: the first
   lines, and perhaps a beginning of the next, its last piece cut or whole. *)
CutLine(line) ==
  {SubSeq(line, 1, n) : n \in DOMAIN line}
  \union UNION {{Append(SubSeq(line, 1, n - 1), p) : p \in Cut[line[n]]} : n \in DOMAIN line}

HalfWritten(list) ==
  {SubSeq(Save(list), 1, n) : n \in 0 .. Len(list)}
  \union UNION {{Append(SubSeq(Save(list), 1, n - 1), l) : l \in CutLine(Line(list[n]))} :
                   n \in DOMAIN list}

-----------------------------------------------------------------------------
Init ==
  /\ disk = "nothing" /\ file = <<>> /\ win = "off"
  /\ IPStorage = <<>> /\ combo = <<>> /\ chosen = 0 /\ ticked = {}
  /\ dialled = <<>> /\ saved = <<>> /\ attempted = <<>> /\ ioError = FALSE

(* Mutant of OpenConnect: the items the combo box had are not removed. *)
OpenConnectFuller(list) ==
  /\ win' = "connect"
  /\ IPStorage' = list
  /\ combo' = combo \o Names(list)
  /\ chosen' = IF combo' = <<>> THEN 0 ELSE 1
  /\ ticked' = {}

(* new GetIP(list): the combo box is filled and its first item chosen.  With
   a list that is null the constructor throws when the frame is visible and
   still empty. *)
OpenConnect(list) ==
  /\ win' = "connect"
  /\ IPStorage' = list
  /\ combo' = Names(list)
  /\ chosen' = IF list = <<>> THEN 0 ELSE 1
  /\ ticked' = {}

OpenBlank ==
  /\ win' = "blank"
  /\ UNCHANGED <<IPStorage, combo, chosen, ticked>>

(* new Connect(): if there is no directory, it and the file are made; then
   the file is read.  What mkdir returns is ignored, what createNewFile throws is
   printed, what the reading throws is swallowed, and a list that was not read
   is null, as it is for a file that is missing or malformed. *)
MakeDirectory ==
  /\ win = "off" /\ disk = "nothing"
  /\ \/ disk' = "directory" /\ UNCHANGED ioError
     \/ ioError' = TRUE /\ UNCHANGED disk
  /\ win' = "starting"
  /\ UNCHANGED <<file, IPStorage, combo, chosen, ticked, dialled, saved, attempted>>

ReadFails == OpenBlank /\ ioError' = TRUE

MakeFile ==
  /\ win = "starting"
  /\ \/ /\ disk = "directory" /\ disk' = "file"
        /\ ReadFails \/ (OpenConnect(<<>>) /\ UNCHANGED ioError)
     \/ UNCHANGED disk /\ ReadFails
  /\ UNCHANGED <<file, dialled, saved, attempted>>

StartUp ==
  /\ win = "off" /\ disk # "nothing"
  /\ \/ /\ disk = "file" /\ Readable(file)
        /\ OpenConnect(Load(file)) /\ UNCHANGED ioError
     \/ /\ disk = "directory" \/ ~Readable(file)
        /\ OpenBlank /\ UNCHANGED ioError
     \/ disk = "file" /\ ReadFails
  /\ UNCHANGED <<disk, file, dialled, saved, attempted>>

(* The program is ended, by the user, by closing the edit window, whose close
   operation is EXIT_ON_CLOSE, or by a crash: what was not saved is lost. *)
Exit ==
  /\ win # "off"
  /\ win' = "off"
  /\ IPStorage' = <<>> /\ combo' = <<>> /\ chosen' = 0 /\ ticked' = {}
  /\ dialled' = <<>> /\ ioError' = FALSE
  /\ UNCHANGED <<disk, file, saved, attempted>>

(* Closing the connect window: EXIT_ON_CLOSE is set on the GetIP object and not
   on the frame it shows, which is only hidden. *)
CloseConnect ==
  /\ win = "connect"
  /\ win' = "none"
  /\ UNCHANGED <<disk, file, IPStorage, combo, chosen, ticked, histories>>

-----------------------------------------------------------------------------
(* The connect window. *)

Choose(i) ==
  /\ win = "connect"
  /\ chosen' = i
  /\ UNCHANGED <<disk, file, win, IPStorage, combo, ticked, histories>>

(* Mutant of SelectedIndex: the item before the chosen one. *)
SelectedBefore == IF chosen > 1 THEN chosen - 1 ELSE 1

(* JComboBox.getSelectedIndex: the first item equal to the selected one. *)
SelectedIndex == CHOOSE i \in DOMAIN combo :
  /\ combo[i] = combo[chosen]
  /\ \A j \in DOMAIN combo : combo[j] = combo[chosen] => i =< j

(* ConnectActionListener: with nothing selected get(-1) throws before anything
   has changed.  Otherwise the window is hidden and the entry dialled; a refused
   or timed out connection opens a new connect window, a host that is unknown
   or a number that is no port leaves none. *)
Dial ==
  /\ win = "connect" /\ chosen # 0
  /\ LET e == IPStorage[SelectedIndex] IN
     /\ dialled' = <<e>>
     /\ \/ e.port[1] \notin BadPorts /\ OpenConnect(IPStorage)
        \/ /\ win' \in (IF e.port[1] \in BadPorts THEN {"none"} ELSE {"none", "connected"})
           /\ UNCHANGED <<IPStorage, combo, chosen, ticked>>
  /\ UNCHANGED <<disk, file, saved, attempted, ioError>>

Edit ==
  /\ win = "connect"
  /\ win' = "edit" /\ ticked' = {}
  /\ UNCHANGED <<disk, file, IPStorage, combo, chosen, histories>>

-----------------------------------------------------------------------------
(* The edit window.  redrawIP clears and remakes the check boxes. *)

Tick(i) ==
  /\ win = "edit"
  /\ ticked' = IF i \in ticked THEN ticked \ {i} ELSE ticked \union {i}
  /\ UNCHANGED <<disk, file, win, IPStorage, combo, chosen, histories>>

(* Mutant of Add: the port is not parsed. *)
AddUnparsed(e) ==
  /\ win = "edit"
  /\ Len(IPStorage) < MaxEntries
  /\ IPStorage' = Append(IPStorage, e)
  /\ ticked' = {}
  /\ UNCHANGED <<disk, file, win, combo, chosen, histories>>

Add(e) ==
  /\ win = "edit"
  /\ e.port[1] \in Numbers           \* otherwise parseInt throws, first of all
  /\ Len(IPStorage) < MaxEntries
  /\ IPStorage' = Append(IPStorage, e)
  /\ ticked' = {}
  /\ UNCHANGED <<disk, file, win, combo, chosen, histories>>

(* Mutant of Removed: j runs on after a removal. *)
RemovedAhead ==
  LET r[i \in 0 .. Len(IPStorage)] ==
        IF i = 0 THEN IPStorage
        ELSE IF i \in ticked /\ i =< Len(r[i - 1]) THEN RemoveAt(r[i - 1], i) ELSE r[i - 1]
  IN  r[Len(IPStorage)]

(* DelIPActionListener: i runs over the check boxes and j over the list that is
   shrinking; Rounds[i] is both after i rounds. *)
Round(before, i) ==
  IF i \in ticked
    THEN [list |-> RemoveAt(before.list, before.j + 1), j |-> before.j]
    ELSE [before EXCEPT !.j = @ + 1]

Rounds[i \in 0 .. Len(IPStorage)] ==
  IF i = 0 THEN [list |-> IPStorage, j |-> 0] ELSE Round(Rounds[i - 1], i)

Removed == Rounds[Len(IPStorage)].list

(* Mutant of Delete: the check boxes stay as they are. *)
DeleteUnredrawn ==
  /\ win = "edit"
  /\ IPStorage' = Removed
  /\ UNCHANGED <<disk, file, win, combo, chosen, ticked, histories>>

Delete ==
  /\ win = "edit"
  /\ IPStorage' = Removed
  /\ ticked' = {}
  /\ UNCHANGED <<disk, file, win, combo, chosen, histories>>

(* Mutant of WriteFile: the file is opened to append. *)
WriteFileBehind ==
  \/ file' = file \o Save(IPStorage) /\ saved' = IPStorage /\ attempted' = <<>>
  \/ UNCHANGED <<file, saved, attempted>>

(* IPOKActionListener: the combo box is refilled, the windows change places and
   the file is written.  The write may fail, or be cut off by the end of the
   program, before the file is opened, or after that, when it is empty and then
   filled from its front; neither is reported. *)
WriteFile ==
  \/ file' = Save(IPStorage) /\ saved' = IPStorage /\ attempted' = <<>>
  \/ file' \in HalfWritten(IPStorage) /\ attempted' = <<IPStorage>> /\ UNCHANGED saved
  \/ UNCHANGED <<file, saved, attempted>>

OK ==
  /\ win = "edit"
  /\ OpenConnect(IPStorage)
  /\ WriteFile
  /\ UNCHANGED <<disk, dialled, ioError>>

Next ==
  \/ MakeDirectory \/ MakeFile \/ StartUp \/ Exit \/ CloseConnect
  \/ \E i \in DOMAIN combo : Choose(i)
  \/ Dial \/ Edit
  \/ \E i \in DOMAIN IPStorage : Tick(i)
  \/ \E e \in Entries : Add(e)
  \/ Delete \/ OK

Spec == Init /\ [][Next]_vars

-----------------------------------------------------------------------------
(* Properties. *)

HasComma(e) == Len(e.name) > 1 \/ Len(e.ip) > 1
CommaFree(list) == \A i \in DOMAIN list : ~HasComma(list[i])

(* Every index the listeners use is in the list it is used on: a ticked row is
   a row, and the row chosen in the combo box is one of its items. *)
TypeOK ==
  /\ disk \in {"nothing", "directory", "file"} /\ file \in Seq(Seq(Pieces))
  /\ win \in Windows
  /\ \A i \in DOMAIN IPStorage : IPStorage[i].port[1] \in Numbers
  /\ ticked \subseteq DOMAIN IPStorage
  /\ chosen \in 0 .. Len(combo)
  /\ ioError \in BOOLEAN

(* When a server can be chosen the combo box shows the list that will be
   dialled from, whatever was added and deleted in the edit window. *)
ComboShowsTheList ==
  win = "connect" => combo = Names(IPStorage) /\ (chosen = 0 <=> combo = <<>>)

(* A dialled entry has the name the user clicked on; if no other entry has that
   name, it is the entry of the row that was clicked. *)
DialsTheChosenRow ==
  [][dialled' \notin {dialled, <<>>} =>
       /\ dialled'[1].name = combo[chosen]
       /\ (\A i \in DOMAIN IPStorage : IPStorage[i].name = combo[chosen] => i = chosen)
            => dialled'[1] = IPStorage[chosen]]_vars

(* Deleting takes away the ticked rows and no other, and keeps the order: the
   new list is that of the rows not ticked, each once, counted upwards. *)
DeletesTheTickedRows ==
  [][Delete =>
       \E row \in [DOMAIN IPStorage' -> DOMAIN IPStorage \ ticked] :
         /\ \A k, l \in DOMAIN row : k < l => row[k] < row[l]
         /\ \A i \in DOMAIN IPStorage \ ticked : \E k \in DOMAIN row : row[k] = i
         /\ \A k \in DOMAIN row : IPStorage'[k] = IPStorage[row[k]]]_vars

(* What was left of a list: its first entries, the last of which may have lost
   the end of its port and so name another one. *)
CutShort(read, list) ==
  /\ Len(read) =< Len(list)
  /\ \A i \in DOMAIN read :
       \/ read[i] = list[i]
       \/ /\ i = Len(read)
          /\ read[i].name = list[i].name /\ read[i].ip = list[i].ip
          /\ read[i].port[1] \in Cut[list[i].port[1]]

(* What is read at a start is what the last successful OK wrote, entry by entry
   and field by field, as long as no text in it had a comma.  An OK that fails
   after emptying the file loses that list: if the file can be read at all, what
   is read then are the first entries of the list it failed to write, at most
   the last of them with a wrong port, and nothing of any older list. *)
FileIsTheSavedList ==
  /\ attempted = <<>> /\ CommaFree(saved) => Readable(file) /\ Load(file) = saved
  /\ attempted # <<>> /\ CommaFree(attempted[1]) /\ Readable(file)
       => CutShort(Load(file), attempted[1])

(* A start that ends in the blank window has one of four causes: the system
   refused mkdir, createNewFile or the reading at this start; there is a directory
   without a file, left by a first start that was cut short or refused, which no
   later start repairs; the last OK that opened the file did not get to its end; or
   the saved list has a text with a comma. *)
BlankIsExplained ==
  win = "blank" => \/ ioError \/ disk = "directory"
                   \/ attempted # <<>>
                   \/ ~CommaFree(saved)
=============================================================================
