-------------------------------- MODULE Downloads --------------------------------
(***************************************************************************)
(* Downloads: the URLs dropped on the window are fetched by the download   *)
(* thread, many at a time; what comes goes through the GUI thread to the   *)
(* write thread, which announces each new image to the GUI.  Every arrow   *)
(* between threads is a queue; the network answers in any order.           *)
(***************************************************************************)
EXTENDS Naturals, SequencesExt

CONSTANTS
  Urls, Files,
  MaxDrops,     \* bound on the URLs dropped in a behaviour
  MaxRestarts   \* bound on the restarts

ASSUME DownloadAssumption ==
  /\ Urls \cap Files = {} /\ {"error", "endless"} \cap (Urls \cup Files) = {}
  /\ MaxDrops \in Nat /\ MaxRestarts \in Nat

VARIABLES
  web,        \* what the network answers: a file, "error", or the URL of a redirect
  dropped,    \* the URLs dropped, in order; drops go by their number: not in the code
  asked,      \* startDownload calls queued to the download thread
  underWay,   \* requests that the network has not answered
  toGui,      \* signals queued to the GUI thread
  toWriter,   \* writeImage calls queued to the write thread
  stored,     \* the files stored, in the order of their ids
  shown,      \* the files of the refs in the view
  restarts
vars == <<web, dropped, asked, underWay, toGui, toWriter, stored, shown, restarts>>

Drops == 1..MaxDrops
Answers == Files \cup Urls \cup {"error"}
Fetches == [of : Drops, url : Urls]
Imported == [of : Drops, data : Files]
Signals == [sig : {"downloadComplete"}, of : Drops, data : Files]
             \cup [sig : {"writeComplete"}, data : Files]

Init == /\ web \in [Urls -> Answers]
        /\ dropped = <<>> /\ asked = <<>> /\ underWay = {} /\ toGui = <<>>
        /\ toWriter = <<>> /\ stored = <<>> /\ shown = <<>> /\ restarts = 0
--------------------------------------------------------------------------------
(* The GUI thread. *)

\* downloadList
Drop(urls) ==
  LET calls == [i \in DOMAIN urls |-> [of |-> Len(dropped) + i, url |-> urls[i]]]
  IN  /\ Len(dropped) + Len(urls) <= MaxDrops
      /\ dropped' = dropped \o urls /\ asked' = asked \o calls
      /\ UNCHANGED <<web, underWay, toGui, toWriter, stored, shown, restarts>>

Received(sig) == toGui # <<>> /\ Head(toGui).sig = sig /\ toGui' = Tail(toGui)

\* downloadComplete is connected to deferredWriteImage, which posts it to the writer.
Forward == /\ Received("downloadComplete")
           /\ toWriter' = Append(toWriter, [of |-> Head(toGui).of, data |-> Head(toGui).data])
           /\ UNCHANGED <<web, dropped, asked, underWay, stored, shown, restarts>>

\* writeComplete is connected to imageReady.
ImageReady == /\ Received("writeComplete")
              /\ shown' = Append(shown, Head(toGui).data)
              /\ UNCHANGED <<web, dropped, asked, underWay, toWriter, stored, restarts>>
--------------------------------------------------------------------------------
(* The download thread. *)

StartDownload == /\ asked # <<>> /\ asked' = Tail(asked)
                 /\ underWay' = underWay \cup {Head(asked)}
                 /\ UNCHANGED <<web, dropped, toGui, toWriter, stored, shown, restarts>>

Complete(f, data) == Append(toGui, [sig |-> "downloadComplete", of |-> f.of, data |-> data])

\* downloadFinished that takes an error for a redirect.
FinishedRefetching(f) ==
  LET answer == web[f.url]
  IN  /\ f \in underWay
      /\ IF answer \notin Files
         THEN underWay' = (underWay \ {f}) \cup {[f EXCEPT !.url = answer]} /\ UNCHANGED toGui
         ELSE underWay' = underWay \ {f} /\ toGui' = Complete(f, answer)
      /\ UNCHANGED <<web, dropped, asked, toWriter, stored, shown, restarts>>

\* downloadFinished: an error is logged; startDownload is this thread's own slot, so a
\* redirect is fetched at once.
Finished(f) ==
  LET answer == web[f.url]
  IN  /\ f \in underWay
      /\ IF answer \in Urls
         THEN underWay' = (underWay \ {f}) \cup {[f EXCEPT !.url = answer]} /\ UNCHANGED toGui
         ELSE /\ underWay' = underWay \ {f}
              /\ toGui' = IF answer = "error" THEN toGui ELSE Complete(f, answer)
      /\ UNCHANGED <<web, dropped, asked, toWriter, stored, shown, restarts>>
--------------------------------------------------------------------------------
(* The write thread. *)

\* writeImage that takes no notice of the hash being stored.
WriteTwice == /\ toWriter # <<>> /\ toWriter' = Tail(toWriter)
              /\ stored' = Append(stored, Head(toWriter).data)
              /\ toGui' = Append(toGui, [sig |-> "writeComplete", data |-> Head(toWriter).data])
              /\ UNCHANGED <<web, dropped, asked, underWay, shown, restarts>>

\* writeImage: a file that is stored already is dropped without a word.
WriteImage == LET file == Head(toWriter).data
              IN  /\ toWriter # <<>> /\ toWriter' = Tail(toWriter)
                  /\ IF file \in ToSet(stored) THEN UNCHANGED <<stored, toGui>>
                     ELSE /\ stored' = Append(stored, file)
                          /\ toGui' = Append(toGui, [sig |-> "writeComplete", data |-> file])
                  /\ UNCHANGED <<web, dropped, asked, underWay, shown, restarts>>

\* The program ends, at any moment, and is started again; all() shows what is stored.
Restart == /\ restarts < MaxRestarts /\ restarts' = restarts + 1
           /\ asked' = <<>> /\ underWay' = {} /\ toGui' = <<>> /\ toWriter' = <<>>
           /\ shown' = stored
           /\ UNCHANGED <<web, dropped, stored>>

GuiStep == Forward \/ ImageReady
Lists == UNION {[1..n -> Urls] : n \in Drops}

Next == \/ \E urls \in Lists : Drop(urls)
        \/ GuiStep \/ StartDownload \/ WriteImage
        \/ \E f \in underWay : Finished(f)
        \/ Restart

\* The three event loops run, and the network answers every request.
Spec == /\ Init /\ [][Next]_vars
        /\ WF_vars(GuiStep) /\ WF_vars(StartDownload) /\ WF_vars(WriteImage)
        /\ \A f \in Fetches : WF_vars(Finished(f))
--------------------------------------------------------------------------------
\* The drops that are on their way somewhere.
Of(s) == {s[i].of : i \in DOMAIN s}
Completed(signals) == {i \in DOMAIN signals : signals[i].sig = "downloadComplete"}
Pending == Of(asked) \cup {f.of : f \in underWay} \cup Of(toWriter)
             \cup {toGui[i].of : i \in Completed(toGui)}

\* What is on its way is for drops that were made.
TypeOK == /\ web \in [Urls -> Answers] /\ dropped \in Seq(Urls) /\ restarts \in 0..MaxRestarts
          /\ asked \in Seq(Fetches) /\ underWay \subseteq Fetches
          /\ toGui \in Seq(Signals) /\ toWriter \in Seq(Imported)
          /\ stored \in Seq(Files) /\ shown \in Seq(Files)
          /\ Pending \subseteq DOMAIN dropped

\* What a URL leads to: the one answer that is no redirect, if following them ends.
Reached(answer, u) ==
  {v \in Urls : \A S \in SUBSET Urls :
     u \in S /\ (\A x \in S : answer[x] \in Urls => answer[x] \in S) => v \in S}
EndOf(answer, u) == LET ends == {answer[v] : v \in Reached(answer, u)} \ Urls
                    IN  IF ends = {} THEN "endless" ELSE CHOOSE end \in ends : TRUE

\* The files announced to the GUI: those in view, then those of the signals on their way.
AnnouncedBy(signals, view) ==
  LET upTo[n \in 0..Len(signals)] ==
        IF n = 0 THEN view
        ELSE IF signals[n].sig = "writeComplete" THEN Append(upTo[n - 1], signals[n].data)
        ELSE upTo[n - 1]
  IN  upTo[Len(signals)]

\* Each URL is settled once, by what its redirects lead to: a file that is stored once
\* and shown once, whatever arrives in whatever order, or nothing.  Only an endless
\* chain of redirects keeps one waiting, and not the others (ImageFetcher, writeImage,
\* onImageReady, all).
Promise == INSTANCE Imports WITH
  Ends    <- Files \cup {"error", "endless"},
  made    <- DOMAIN dropped,
  pending <- {[of |-> d, end |-> EndOf(web, dropped[d])] : d \in Pending},
  library <- AnnouncedBy(toGui, shown)
ImplementsImports == Promise!Spec
==================================================================================
