---------------------------- MODULE ContentEditor ----------------------------
(***************************************************************************)
(* The content of a message as it is shown, edited, replaced, and split    *)
(* into lines and joined again (components/contentviews: HttpMessage.tsx,  *)
(* useContent.tsx, useContentView.tsx, CodeEditor.tsx, ContentRenderer.tsx,*)
(* with ducks/ui/flow.ts and flow/utils.ts).                               *)
(*                                                                         *)
(* The store knows only the hash of a content.  The pane fetches the text  *)
(* whenever the hash, the content view or the number of lines changes, and *)
(* drops the fetch under way.  Changes are sent by HTTP and announced by   *)
(* the server over the WebSocket, neither in the order of the other.       *)
(*                                                                         *)
(* A text is a record: an object, an array, a string or another value of   *)
(* JSON, a text that is not JSON, or a text cut after some lines.  JSON's  *)
(* own formatting, and numbers that JavaScript cannot hold, are left out.  *)
(***************************************************************************)
EXTENDS Integers, Sequences, FiniteSets, SequencesExt, FiniteSetsExt

CONSTANT ContentScenarios  \* the content, whether it counts as split, the texts others
                           \* write or the user types, the lines shown, the bounds

VARIABLES
    message,  \* the scenario, with what is left of its bounds
    body,     \* the server's content
    hash,     \* of the content the store knows: the content itself
    hashes,   \* flows/update on their way
    chosen,   \* contentViewFor: the content view chosen
    split,   \* localStorage: the content counts as split
    pane,     \* what is mounted, and its state
    fetch,    \* the fetch under way, or None
    saves,    \* PUT and POST on their way
    origin    \* a history: what the first of two toggles found

contentVars == <<message, body, hash, hashes, chosen, split, pane, fetch, saves, origin>>

Node(kind, lines, kids) == [kind |-> kind, lines |-> lines, kids |-> kids]
None  == Node("none", <<>>, <<>>)
Blank == Node("text", <<>>, <<>>)             \* the text ""
Error == Node("text", <<"Error">>, <<>>)      \* "Error getting content"
Str(lines) == Node("string", lines, <<>>)
Container(text) == text.kind \in {"array", "object"}

-----------------------------------------------------------------------------
(* Splitting and joining.                                                  *)

\* Faulty variant: a single line is an array, too.
HasLines(t) == t.kind = "string" /\ t.lines # <<>>

\* hasNewlines
HasNewlines(t) == t.kind = "string" /\ Len(t.lines) > 1

\* looksLikeSplitLines
LooksLikeSplitLines(kids) ==
    Len(kids) > 1 /\ \A i \in DOMAIN kids : kids[i].kind = "string"

\* processJson.  Joined strings that hold several lines themselves are joined as well.
RECURSIVE ProcessJson(_, _)
ProcessJson(t, operation) ==
    IF operation = "split" /\ HasNewlines(t)
    THEN Node("array", <<>>, [i \in DOMAIN t.lines |-> Str(<<t.lines[i]>>)])
    ELSE IF operation = "join" /\ t.kind = "array" /\ LooksLikeSplitLines(t.kids)
    THEN Str(FlattenSeq([i \in DOMAIN t.kids |-> t.kids[i].lines]))
    ELSE [t EXCEPT !.kids = [i \in DOMAIN @ |-> ProcessJson(@[i], operation)]]

\* An array of several strings that are a line each, anywhere in t.
RECURSIVE HoldsLines(_)
HoldsLines(t) ==
    \/ /\ t.kind = "array" /\ LooksLikeSplitLines(t.kids)
       /\ \A i \in DOMAIN t.kids : ~HasNewlines(t.kids[i])
    \/ \E i \in DOMAIN t.kids : HoldsLines(t.kids[i])

-----------------------------------------------------------------------------
(* What the server answers and the pane shows.                             *)

\* The lines of the text JSON.stringify(t, null, 2).
RECURSIVE Size(_)
Size(t) == IF Container(t) /\ t.kids # <<>>
           THEN 2 + FoldSeq(LAMBDA k, n : Size(k) + n, 0, t.kids)
           ELSE 1

\* cut_after_n_lines, asked for one line more than is shown; 0 is no limit.
Cut(text, n) == IF n > 0 /\ Size(text) > n + 1 THEN Node("cut", <<>>, <<text>>) ELSE text

\* The content views: one that shows JSON and text as it is, one that does not.
Viewed(text, view, n) == IF view = "Hex" THEN Node("text", <<"hex">>, <<>>) ELSE Cut(text, n)

\* The request of the pane: the content itself to edit it, or a view.
Request == IF pane.kind = "edit" THEN [view |-> "data", lines |-> 0]
                                 ELSE [view |-> chosen, lines |-> pane.maxLines]
Response(request) == Viewed(body, request.view, request.lines)

\* useContent: a new fetch aborts the one before.
Ask(request) == fetch' = [request |-> request, text |-> None]
NoFetch == [request |-> [view |-> "none", lines |-> 0], text |-> None]

\* What CodeMirror is given for a content.
Initial(content) == IF content = None THEN Blank ELSE content

Mounted(kind) ==
    [kind |-> kind, id |-> pane.id + 1, content |-> None, maxLines |-> message.cutoff,
     edited |-> None, display |-> Blank, replaced |-> FALSE, mode |-> "none", busy |-> FALSE]

\* setIsEdited(false)
ShowView ==
    /\ pane' = Mounted("view")
    /\ Ask([view |-> chosen, lines |-> message.cutoff])

Act == message.acts > 0 /\ message' = [message EXCEPT !.acts = @ - 1]

\* flowActions.update and uploadContent: sent, with the pane that waits for the answer.
Send(kind, content) ==
    saves' = saves \cup {[kind |-> kind, content |-> content, done |-> FALSE, by |-> pane.id,
                          key |-> message.acts, mode |-> pane.mode, shown |-> pane.display,
                          typed |-> pane.edited # None, replaced |-> pane.replaced]}

-----------------------------------------------------------------------------
Init ==
    /\ message \in ContentScenarios
    /\ body = message.body /\ hash = body /\ hashes = <<>>
    /\ chosen = "Auto" /\ split = message.split
    /\ pane = [kind |-> "view", id |-> 0, content |-> None, maxLines |-> message.cutoff,
               edited |-> None, display |-> Blank, replaced |-> FALSE, mode |-> "none",
               busy |-> FALSE]
    /\ fetch = [request |-> [view |-> "Auto", lines |-> message.cutoff], text |-> None]
    /\ saves = {}
    /\ origin = [text |-> None, joined |-> FALSE]

\* The server answers a fetch with what the content is then.
FetchAnswered ==
    /\ fetch # NoFetch /\ fetch.text = None
    /\ fetch' = [fetch EXCEPT !.text = Response(fetch.request)]
    /\ UNCHANGED <<message, body, hash, hashes, chosen, split, pane, saves, origin>>

\* setContent: CodeMirror replaces its text when it is given another one, without
\* onChange; and the toggle button is mounted once there is a text.
SetContent(text) ==
    /\ fetch' = NoFetch
    /\ pane' = IF pane.kind = "edit"
               THEN LET given == Initial(text) # Initial(pane.content)
                        other == given /\ Initial(text) # pane.display
                    IN  [pane EXCEPT !.content = text,
                                     !.display = IF given THEN Initial(text) ELSE @,
                                     !.replaced = @ \/ (other /\ pane.edited # None)]
               ELSE [pane EXCEPT !.content = text,
                                 !.mode = IF text = Blank THEN "none"
                                          ELSE IF @ # "none" THEN @
                                          ELSE IF split THEN "join" ELSE "split"]
    /\ UNCHANGED <<body, hash, hashes, chosen, split, saves, origin>>

FetchArrives ==
    /\ fetch.text # None
    /\ SetContent(fetch.text)
    /\ UNCHANGED message

FetchFails ==
    /\ fetch # NoFetch
    /\ message.failures > 0
    /\ message' = [message EXCEPT !.failures = @ - 1]
    /\ SetContent(Error)

StartEdit ==
    /\ Act
    /\ pane.kind = "view"
    /\ pane' = Mounted("edit")
    /\ Ask([view |-> "data", lines |-> 0])
    /\ UNCHANGED <<body, hash, hashes, chosen, split, saves, origin>>

\* onChange
Type ==
    /\ Act
    /\ pane.kind = "edit"
    /\ \E text \in message.typed \ {pane.display} :
          pane' = [pane EXCEPT !.display = text, !.edited = text, !.replaced = FALSE]
    /\ UNCHANGED <<body, hash, hashes, chosen, split, fetch, saves, origin>>

\* Faulty variant: the content there was has precedence.
SaveFetched ==
    /\ Act
    /\ pane.kind = "edit"
    /\ Send("edit", IF pane.content \notin {None, Blank} THEN pane.content ELSE Initial(pane.edited))
    /\ UNCHANGED <<body, hash, hashes, chosen, split, pane, fetch, origin>>

\* editedContent || content || ""
Save ==
    /\ Act
    /\ pane.kind = "edit"
    /\ Send("edit", IF pane.edited \notin {None, Blank} THEN pane.edited ELSE Initial(pane.content))
    /\ UNCHANGED <<body, hash, hashes, chosen, split, pane, fetch, origin>>

Cancel ==
    /\ Act
    /\ pane.kind = "edit"
    /\ ShowView
    /\ UNCHANGED <<body, hash, hashes, chosen, split, saves, origin>>

\* FileChooser, uploadContent
Replace ==
    /\ Act
    /\ pane.kind = "view"
    /\ \E text \in message.typed : Send("upload", text)
    /\ UNCHANGED <<body, hash, hashes, chosen, split, pane, fetch, origin>>

\* setContentViewFor
SetContentView ==
    /\ Act
    /\ pane.kind = "view"
    /\ \E view \in {"Auto", "Hex"} \ {chosen} :
          chosen' = view /\ Ask([view |-> view, lines |-> pane.maxLines])
    /\ UNCHANGED <<body, hash, hashes, split, pane, saves, origin>>

\* More lines than any content has.
ShowMore ==
    /\ Act
    /\ pane.kind = "view" /\ pane.maxLines > 0
    /\ pane.content.kind = "cut" \/ Size(pane.content) > pane.maxLines
    /\ pane' = [pane EXCEPT !.maxLines = 0]
    /\ Ask([view |-> chosen, lines |-> 0])
    /\ UNCHANGED <<body, hash, hashes, chosen, split, saves, origin>>

\* handleToggleMultiLine: the text that is shown, if it parses, in the button's mode.
Toggle ==
    /\ Act
    /\ pane.kind = "view" /\ ~pane.busy
    /\ Container(pane.content) \/ pane.content.kind = "cut"
    /\ IF pane.content.kind = "cut"
       THEN UNCHANGED <<pane, saves, origin>>
       ELSE /\ Send("toggle", ProcessJson(pane.content, pane.mode))
            /\ pane' = [pane EXCEPT !.busy = TRUE]
            /\ origin' = IF pane.content # body \/ saves # {} THEN [text |-> None, joined |-> FALSE]
                        ELSE IF pane.mode = "split" THEN [text |-> pane.content, joined |-> FALSE]
                        ELSE IF origin.joined THEN [text |-> None, joined |-> FALSE]
                        ELSE [origin EXCEPT !.joined = TRUE]
    /\ UNCHANGED <<body, hash, hashes, chosen, split, fetch>>

\* The server has the new content and announces it.
ServerPut(p) ==
    /\ ~p.done
    /\ saves' = (saves \ {p}) \cup {[p EXCEPT !.done = TRUE]}
    /\ body' = p.content
    /\ hashes' = Append(hashes, p.content)
    /\ origin' = IF p.kind = "toggle" THEN origin ELSE [text |-> None, joined |-> FALSE]
    /\ UNCHANGED <<message, hash, chosen, split, pane, fetch>>

\* What waits for the answer goes on: stopEdit, in whatever edit is open by then, or
\* the toggle's new mode, which the storage takes even if its button is gone.
PutAnswered(p) ==
    /\ p.done
    /\ saves' = saves \ {p}
    /\ IF p.kind = "edit" /\ pane.kind = "edit" THEN ShowView
       ELSE /\ UNCHANGED fetch
            /\ pane' = IF p.kind = "toggle" /\ p.by = pane.id
                       THEN [pane EXCEPT !.busy = FALSE,
                                         !.mode = IF @ = "none" THEN @
                                                  ELSE IF p.mode = "split" THEN "join" ELSE "split"]
                       ELSE pane
    /\ split' = IF p.kind = "toggle" THEN p.mode = "split" ELSE split
    /\ UNCHANGED <<message, body, hash, hashes, chosen, origin>>

\* The request or its answer is lost: the edit stays open, the toggle keeps its mode.
NetworkFails(p) ==
    /\ message.failures > 0
    /\ message' = [message EXCEPT !.failures = @ - 1]
    /\ saves' = saves \ {p}
    /\ pane' = IF p.kind = "toggle" /\ p.by = pane.id THEN [pane EXCEPT !.busy = FALSE] ELSE pane
    /\ origin' = [text |-> None, joined |-> FALSE]
    /\ UNCHANGED <<body, hash, hashes, chosen, split, fetch>>

\* Another client, a revert, or an addon.
OtherClient ==
    /\ message.others > 0
    /\ message' = [message EXCEPT !.others = @ - 1]
    /\ \E text \in message.foreign \ {body} : body' = text /\ hashes' = Append(hashes, text)
    /\ origin' = [text |-> None, joined |-> FALSE]
    /\ UNCHANGED <<hash, chosen, split, pane, fetch, saves>>

\* Faulty variant: the content is not fetched again.
FlowUpdateOnly ==
    /\ hashes # <<>>
    /\ hashes' = Tail(hashes)
    /\ hash' = Head(hashes)
    /\ UNCHANGED <<message, body, chosen, split, pane, fetch, saves, origin>>

FlowUpdate ==
    /\ hashes # <<>>
    /\ hashes' = Tail(hashes)
    /\ hash' = Head(hashes)
    /\ IF hash' = hash THEN UNCHANGED fetch ELSE Ask(Request)
    /\ UNCHANGED <<message, body, chosen, split, pane, saves, origin>>

Next ==
    \/ FetchAnswered \/ FetchArrives \/ FetchFails
    \/ StartEdit \/ Type \/ Save \/ Cancel \/ Replace \/ SetContentView \/ ShowMore \/ Toggle
    \/ \E p \in saves : ServerPut(p) \/ PutAnswered(p) \/ NetworkFails(p)
    \/ OtherClient \/ FlowUpdate

Spec == Init /\ [][Next]_contentVars

-----------------------------------------------------------------------------
Quiet == fetch = NoFetch /\ hashes = <<>> /\ \A p \in saves : p.done

\* When everything has arrived, the pane shows the server's content as the view that
\* is chosen shows it, or a fetch has failed; so does an edit that nobody typed in.
ContentShown ==
    Quiet /\ pane.content # Error =>
        /\ pane.content = Response(Request)
        /\ pane.kind = "edit" /\ pane.edited = None => pane.display = body

\* Done saves what the editor shows; except that a text deleted as a whole saves the
\* content there was, and that a content that arrives after the user typed is shown
\* in place of what was typed, which is saved.
SavedAsShown ==
    \A p \in saves :
        p.kind = "edit" => p.content = p.shown \/ p.shown = Blank \/ p.replaced

\* Splitting a content and joining it again gives it back, unless it held an array of
\* single lines already, or the button is used before the view shows the split text,
\* so that the text it joins was never split.
TogglingRestores ==
    (\A p \in saves : p.kind = "toggle" => p.done) /\ origin.joined =>
        \/ origin.text = None
        \/ body = origin.text
        \/ HoldsLines(origin.text)
=============================================================================
