------------------------------- MODULE UserLists -------------------------------
(***************************************************************************)
(* The bookmarks, the visited pages, and the suggestions that the address  *)
(* bar makes of both.  The star of the toolbar, extensions and the address *)
(* bar change them; each manager has a lock, so that a call is a step.     *)
(***************************************************************************)
EXTENDS Naturals, Sequences, SequencesExt, ListChoice

CONSTANTS WebPages,   \* addresses of web pages
          MaxIDs,      \* IDs for bookmarks and folders
          MaxVisits    \* visits of the history

ASSUME ListsAssumption == {MaxIDs, MaxVisits} \subseteq Nat

NoFile == [state |-> "missing"]

VARIABLES bookmarks, folders, nextMark,  \* BookmarkManager
          bookmarkFile,                \* what SaveBookmarks wrote last
          visits, nextEntry,          \* HistoryManager
          shownURL,                    \* the URL of the active tab
          suggestions, selectedSugg    \* AddressBar

listVars == <<bookmarks, folders, nextMark, bookmarkFile, visits, nextEntry, shownURL, suggestions, selectedSugg>>

bookmarkVars == <<bookmarks, folders, nextMark>>
visitVars == <<visits, nextEntry, shownURL>>
barVars == <<suggestions, selectedSugg>>

ListsInit ==
    /\ bookmarks = <<>> /\ folders = <<>> /\ nextMark = 1 /\ bookmarkFile = NoFile
    /\ visits = <<>> /\ nextEntry = 1 /\ shownURL = "thdwb://newtab/"
    /\ suggestions = <<>> /\ selectedSugg = 0

\* The first position that holds the ID, or 0.
Position(list, id) == SelectInSeq(list, LAMBDA x : x.id = id)

-----------------------------------------------------------------------------
(* Folder 0 is never made, so that a bookmark finds no folder and gets one *)
(* of its own, with the next ID; the bookmark still names folder 0.        *)
AddBookmark(url) ==
    LET i == Position(folders, 0)
        id == nextMark IN
    /\ bookmarks' = Append(bookmarks, [id |-> id, url |-> url, folder |-> 0])
    /\ IF i # 0
       THEN folders' = [folders EXCEPT ![i].items = Append(@, id)] /\ nextMark' = id + 1
       ELSE folders' = Append(folders, [id |-> id + 1, items |-> <<id>>]) /\ nextMark' = id + 2

\* Faulty form of the next definition: the ID is given back with the bookmark.
RemoveReusing(id) ==
    LET i == Position(bookmarks, id) IN
    IF i = 0 THEN UNCHANGED bookmarkVars
    ELSE /\ bookmarks' = RemoveAt(bookmarks, i) /\ nextMark' = id /\ UNCHANGED folders

(* The folder the bookmark names does not exist, and its ID stays an item  *)
(* of the folder it is in.                                                 *)
RemoveBookmark(id) ==
    LET i == Position(bookmarks, id)
        f == Position(folders, bookmarks[i].folder) IN
    IF i = 0 THEN UNCHANGED bookmarkVars
    ELSE /\ bookmarks' = RemoveAt(bookmarks, i)
         /\ folders' = IF f = 0 THEN folders
                       ELSE [folders EXCEPT ![f].items = Chosen(@, ToSet(@) \ {id})]
         /\ UNCHANGED nextMark

(* The star: a bookmark of the tab's page goes, the first one, or comes.   *)
ToggleBookmark ==
    LET i == SelectInSeq(bookmarks, LAMBDA b : b.url = shownURL) IN
    /\ i = 0 => nextMark + 1 <= MaxIDs
    /\ IF i = 0 THEN AddBookmark(shownURL) ELSE RemoveBookmark(bookmarks[i].id)
    /\ UNCHANGED <<bookmarkFile, visitVars, barVars>>

(* chrome.bookmarks, which no sandbox is given.  UpdateBookmark changes    *)
(* the shared record itself.                                               *)
ExtensionBookmarks ==
    /\ \/ \E url \in WebPages : nextMark + 1 <= MaxIDs /\ AddBookmark(url)
       \/ \E id \in 1..MaxIDs : RemoveBookmark(id)
       \/ \E i \in DOMAIN bookmarks, url \in WebPages :
              bookmarks' = [bookmarks EXCEPT ![i].url = url] /\ UNCHANGED <<folders, nextMark>>
    /\ UNCHANGED <<bookmarkFile, visitVars, barVars>>

AddFolder ==
    /\ nextMark <= MaxIDs
    /\ folders' = Append(folders, [id |-> nextMark, items |-> <<>>]) /\ nextMark' = nextMark + 1
    /\ UNCHANGED <<bookmarks, bookmarkFile, visitVars, barVars>>

(* The file is written in place: a write that is cut off leaves no JSON.   *)
SaveBookmarks == \E complete \in BOOLEAN :
    /\ bookmarkFile' =
           IF complete THEN [state |-> "whole", bookmarks |-> bookmarks, folders |-> folders, nextMark |-> nextMark]
           ELSE [state |-> "broken"]
    /\ UNCHANGED <<bookmarkVars, visitVars, barVars>>

LoadBookmarks ==
    /\ bookmarkFile.state = "whole"
    /\ bookmarks' = bookmarkFile.bookmarks /\ folders' = bookmarkFile.folders /\ nextMark' = bookmarkFile.nextMark
    /\ UNCHANGED <<bookmarkFile, visitVars, barVars>>

-----------------------------------------------------------------------------
AddEntry(url) ==
    /\ nextEntry <= MaxVisits
    /\ visits' = Append(visits, [id |-> nextEntry, url |-> url]) /\ nextEntry' = nextEntry + 1

\* The new tab page is the only internal page here; it is not recorded.
recordHistory(url) == IF url \in WebPages THEN AddEntry(url) ELSE UNCHANGED <<visits, nextEntry>>

(* The address bar's navigate: the tab moves, unless it is there already,  *)
(* the callback of the manager records it, and the suggestions go.         *)
NavigateTo(url) ==
    /\ IF url = shownURL THEN UNCHANGED visitVars
       ELSE shownURL' = url /\ recordHistory(url)
    /\ suggestions' = <<>> /\ selectedSugg' = 0

Submit == \E url \in WebPages \cup {"thdwb://newtab/"} :
    NavigateTo(url) /\ UNCHANGED <<bookmarkVars, bookmarkFile>>

SelectSuggestion == \E i \in DOMAIN suggestions :
    NavigateTo(suggestions[i]) /\ UNCHANGED <<bookmarkVars, bookmarkFile>>

\* chrome.history.addUrl; deleteUrl changes nothing.
ExtensionHistory == \E url \in WebPages :
    AddEntry(url) /\ UNCHANGED <<shownURL, bookmarkVars, bookmarkFile, barVars>>

ClearHistory ==
    /\ visits' = <<>>
    /\ UNCHANGED <<nextEntry, shownURL, bookmarkVars, bookmarkFile, barVars>>

(* What is typed is a piece of every address, or one address, which is     *)
(* offered as it is.  An earlier list goes, with its selection.            *)
buildSuggestions == \E direct \in {<<>>} \cup {<<a>> : a \in WebPages} :
    LET urls(list) == [i \in DOMAIN list |-> list[i].url]
        known == urls(visits) \o urls(bookmarks) IN
    /\ suggestions' = (IF direct = <<>> THEN known ELSE Chosen(known, ToSet(direct))) \o direct
    /\ selectedSugg' = 0
    /\ UNCHANGED <<bookmarkVars, bookmarkFile, visitVars>>

(* The arrows move in a circle.                                            *)
MoveSelection == \E step \in {1, Len(suggestions) - 1} :
    /\ suggestions # <<>>
    /\ selectedSugg' = (selectedSugg + step) % Len(suggestions)
    /\ UNCHANGED <<suggestions, bookmarkVars, bookmarkFile, visitVars>>

ListsNext ==
    \/ ToggleBookmark \/ ExtensionBookmarks \/ AddFolder \/ SaveBookmarks \/ LoadBookmarks
    \/ Submit \/ SelectSuggestion \/ ExtensionHistory \/ ClearHistory
    \/ buildSuggestions \/ MoveSelection

-----------------------------------------------------------------------------
(* The tree of the side bar: the folders, each with the bookmarks that     *)
(* name it, and those that name folder 0.                                  *)
Tree ==
    LET Naming(f) == Chosen(bookmarks, {b \in ToSet(bookmarks) : b.folder = f}) IN
    FlattenSeq([i \in DOMAIN folders |-> Naming(folders[i].id)]) \o Naming(0)

ListsTypeOK ==
    /\ nextMark \in 1..(MaxIDs + 1) /\ nextEntry \in 1..(MaxVisits + 1)
    /\ shownURL \in WebPages \cup {"thdwb://newtab/"}
    /\ selectedSugg \in Nat

(* An ID names one bookmark or one folder, ever: not even an item that was *)
(* left in its folder comes to name another bookmark, be it after the file *)
(* was loaded.  The side bar would show every bookmark once, although each *)
(* is an item of a folder that does not show it.  Visits are kept in the   *)
(* order they were made, and the selection is one of the suggestions.      *)
ListsAgree ==
    /\ \A i \in DOMAIN bookmarks, j \in DOMAIN folders : bookmarks[i].id # folders[j].id
    /\ IsInjective([i \in DOMAIN bookmarks |-> bookmarks[i].id])
    /\ \A i \in DOMAIN bookmarks : \E j \in DOMAIN folders :
           folders[j].id = bookmarks[i].id + 1 /\ folders[j].items = <<bookmarks[i].id>>
    /\ Len(Tree) = Len(bookmarks) /\ IsInjective([i \in DOMAIN Tree |-> Tree[i].id])
    /\ \A i \in 2..Len(visits) : visits[i - 1].id < visits[i].id
    /\ suggestions = <<>> \/ selectedSugg < Len(suggestions)
    /\ suggestions = <<>> => selectedSugg = 0
=============================================================================
