------------------------------- MODULE JobList -------------------------------
(***************************************************************************)
(* The job list of the TUI and the filter bar below it:                    *)
(* tui/widgets/job_list.py JobListPanel, tui/widgets/filter_buttons.py,    *)
(* and the handlers of tui/app.py between them.                            *)
(*                                                                         *)
(* The table is rebuilt on every change, while its cursor, the expanded    *)
(* groups and the filter go on from one list to the next.  Stages are      *)
(* filtered like statuses and left out; names, stages and start times are  *)
(* numbers, of which only the order counts.                                *)
(***************************************************************************)
EXTENDS Integers, Sequences, FiniteSets, Functions

CONSTANTS
    Lists,   \* the job lists a load may bring, sequences of jobs
    Texts,   \* the base names the user may search for, 0 for no search
    Tokens   \* the sets of status: tokens the user may type

Status == {"failed", "running", "success", "pending"}
Job == [id : Nat, name : Nat, base : Nat, stage : Nat, status : Status, started : Nat]

ASSUME JobListAssumption ==
    /\ \A l \in Lists : l \in Seq(Job)
    \* GitLab's ids are unique; a listing that is read while it changes may yet
    \* have a job twice, which the table refuses (DuplicateKey) and is left out.
    /\ \A l \in Lists : \A i, k \in DOMAIN l : l[i].id = l[k].id => i = k
    /\ Texts \subseteq Nat /\ 0 \in Texts
    /\ Tokens \subseteq SUBSET Status

VARIABLES
    jobs,     \* JobListPanel.jobs
    spec,     \* JobListPanel.filter_spec
    pending,  \* _filter_timer runs
    sortMode,
    expanded, \* _expanded_groups
    rows,     \* the rows of the table
    cursor,   \* the row of the cursor, 0 without rows
    typed,    \* PipelineViewer._text_filter
    dropdown, \* PipelineViewer._dropdown_statuses
    options,  \* FilterButton._options
    selected, \* FilterButton._selected
    modal,    \* the selection and options the open FilterModalScreen was given, or Closed
    sharing,  \* who refers to the very set object that selected is
    picked,   \* observer: the statuses the user has confirmed last
    fresh     \* observer: the filter the rows were made with

listVars == <<jobs, sortMode, expanded, rows, cursor, fresh>>
barVars == <<typed, dropdown, options, selected, modal, sharing, picked>>
vars == <<listVars, spec, pending, barVars>>

SortModes == {"stage", "alphabetical", "start_time"}
Spec0 == [text : Texts, statuses : SUBSET Status]
NoJob == [id |-> 0]
Closed == [open |-> FALSE, selection |-> {}, options |-> {}]
Opened(s, offered) == [open |-> TRUE, selection |-> s, options |-> offered]

JobKey(j) == <<"job", j.id, 0>>
GroupKey(j) == <<"group", j.base, j.stage>>

-----------------------------------------------------------------------------
(* What is displayed.                                                      *)

SortKey(j, by) ==
    CASE by = "stage" -> <<j.stage, j.name>>
      [] by = "alphabetical" -> <<j.name, 0>>
      [] by = "start_time" -> <<j.started, j.name>>

LessKey(a, b) == a[1] < b[1] \/ (a[1] = b[1] /\ a[2] < b[2])

\* Python's sort is stable.
Earlier(js, by, i, k) ==
    LET a == SortKey(js[i], by)
        b == SortKey(js[k], by)
    IN  LessKey(a, b) \/ (a = b /\ i < k)
\* The order of the sorted list, as pairs of places of js.
_apply_sort(js, by) ==
    {p \in (DOMAIN js) \X (DOMAIN js) : Earlier(js, by, p[1], p[2])}

\* The members of S one after the other; before has the pairs of its order.
InOrder(S, before) ==
    [n \in 1..Cardinality(S) |->
        CHOOSE x \in S : Cardinality({y \in S : <<y, x>> \in before}) = n - 1]

Passes(j, filter) ==
    /\ filter.statuses # {} => j.status \in filter.statuses
    /\ filter.text # 0 => j.base = filter.text

\* The places of the jobs that are left.
_apply_filter(js, filter) == {i \in DOMAIN js : Passes(js[i], filter)}

\* The members of the (stage, base name) of i.
Members(js, shown, i) == {k \in shown : GroupKey(js[k]) = GroupKey(js[i])}
First(js, shown, sort, i) == InOrder(Members(js, shown, i), sort)[1]
IsGroup(js, shown, i) == Cardinality(Members(js, shown, i)) > 1

\* A row is the first job of its group with the job it shows, or with 0 when it
\* stands for the group.  Bug: every member opens its group again.
_group_again(js, shown, sort, open) ==
    {<<i, 0>> : i \in {k \in shown : IsGroup(js, shown, k)}}
    \cup {<<i, i>> : i \in {k \in shown :
              IsGroup(js, shown, k) => GroupKey(js[k]) \in open}}
_group_jobs(js, shown, sort, open) ==
    {<<First(js, shown, sort, i), 0>> : i \in {k \in shown : IsGroup(js, shown, k)}}
    \cup {<<First(js, shown, sort, i), i>> : i \in {k \in shown :
              IsGroup(js, shown, k) => GroupKey(js[k]) \in open}}

\* Groups in the order of their first members, each group above its members.
Above(places, sort) ==
    {pq \in places \X places :
        LET p == pq[1]
            q == pq[2]
        IN  \/ <<p[1], q[1]>> \in sort
            \/ p[1] = q[1] /\ ((p[2] = 0 /\ q[2] # 0) \/ <<p[2], q[2]>> \in sort)}

JobRow(j) == [key |-> JobKey(j), job |-> j, stands |-> {j}]
GroupRow(j, js) == [key |-> GroupKey(j), job |-> NoJob, stands |-> js]
RowAt(js, shown, p) ==
    IF p[2] = 0 THEN GroupRow(js[p[1]], {js[k] : k \in Members(js, shown, p[1])})
    ELSE JobRow(js[p[2]])

View == [jobs |-> jobs, filter |-> spec, open |-> expanded, by |-> sortMode]

\* A text search shows a flat list.
Places(view) ==
    LET shown == _apply_filter(view.jobs, view.filter) IN
    IF view.filter.text # 0 THEN {<<i, i>> : i \in shown}
    ELSE _group_jobs(view.jobs, shown, _apply_sort(view.jobs, view.by), view.open)

DisplayRows(view) ==
    LET order == InOrder(Places(view), Above(Places(view), _apply_sort(view.jobs, view.by)))
    IN  [n \in DOMAIN order |->
            RowAt(view.jobs, _apply_filter(view.jobs, view.filter), order[n])]

\* Bug: the cursor stays where it is.
KeptCursor(saved, table) == cursor
\* Bug: the number of the row is restored.
SameRow(saved, table) ==
    IF cursor \in DOMAIN table THEN cursor ELSE IF table = <<>> THEN 0 ELSE 1
\* _restore_cursor.  DataTable.clear() has put the cursor on the first row.
RestoredCursor(saved, table) ==
    IF \E i \in DOMAIN table : table[i].key = saved
    THEN CHOOSE i \in DOMAIN table : table[i].key = saved
    ELSE IF table = <<>> THEN 0 ELSE 1

\* _recompute, of the view a change leads to.
Recompute(view) ==
    /\ rows' = DisplayRows(view)
    /\ cursor' = RestoredCursor(IF rows = <<>> THEN <<>> ELSE rows[cursor].key, rows')
    /\ fresh' = view.filter

get_selected_job == IF cursor = 0 THEN NoJob ELSE rows[cursor].job

-----------------------------------------------------------------------------
(* The filter.                                                             *)

\* _update_job_filter: typed tokens come first.
Filter(t, d) ==
    [text |-> t.text, statuses |-> IF t.statuses # {} THEN t.statuses ELSE d]

\* Bug: the old timer is stopped and no new one is set.
SetFilterSilently(filter) == spec' = filter /\ pending' = FALSE
\* watch_filter_spec: the table follows 80 ms later.
SetFilter(filter) == spec' = filter /\ pending' = TRUE

FilterTimer ==
    /\ pending
    /\ pending' = FALSE
    /\ Recompute(View)
    /\ UNCHANGED <<jobs, sortMode, expanded, spec, barVars>>

\* on_fuzzy_search_input_search_changed: set_selected makes a new set.
SearchChanged(text, tokens) ==
    /\ ~modal.open
    /\ typed' = [text |-> text, statuses |-> tokens]
    /\ typed' # typed
    /\ selected' = tokens \cap options
    /\ sharing' = {}
    /\ SetFilter(Filter(typed', dropdown))
    /\ UNCHANGED <<listVars, dropdown, options, modal, picked>>

OpenFilter ==
    /\ ~modal.open /\ options # {}
    /\ modal' = Opened(selected, options)
    /\ sharing' = sharing \cup {"modal"}
    /\ UNCHANGED <<listVars, spec, pending, typed, dropdown, options, selected, picked>>

\* The dismissal of the modal and FiltersChanged: one set for both.
Chosen(s) ==
    /\ modal' = Closed
    /\ selected' = s /\ dropdown' = s
    /\ sharing' = {"dropdown"}
    /\ SetFilter(Filter(typed, s))
    /\ UNCHANGED <<listVars, typed, options>>

\* The modal goes on to offer the options it was opened with.
ConfirmFilter ==
    /\ modal.open
    /\ \E s \in SUBSET modal.options : Chosen(s) /\ picked' = s

\* Escape: action_dismiss_cancel dismisses with the selection it was given.
CancelFilter ==
    /\ modal.open
    /\ Chosen(modal.selection)
    /\ UNCHANGED picked

-----------------------------------------------------------------------------
(* The list.                                                               *)

\* load_pipeline without a list to keep.
ClearJobs ==
    /\ ~modal.open /\ jobs # <<>>
    /\ jobs' = <<>>
    /\ Recompute([View EXCEPT !.jobs = <<>>])
    /\ UNCHANGED <<sortMode, expanded, spec, pending, barVars>>

\* FilterButton.update_options narrows the set in place, for all who share it.
Narrowed(who, s, found) == IF who \in sharing THEN s \cap found ELSE s

\* The end of _load_jobs: the jobs, the options of the button, the filter.
LoadJobs(l) ==
    LET found == {j.status : j \in Range(l)} IN
    /\ jobs' = l
    /\ Recompute([View EXCEPT !.jobs = l])
    /\ options' = found
    /\ dropdown' = Narrowed("dropdown", dropdown, found)
    /\ modal' = [modal EXCEPT !.selection = Narrowed("modal", @, found)]
    /\ selected' = dropdown' \cap found
    /\ sharing' = {}
    /\ SetFilter(Filter(typed, dropdown'))
    /\ UNCHANGED <<sortMode, expanded, typed, picked>>

\* action_toggle_group, on_data_table_row_selected on a group row.
ToggleGroup ==
    /\ ~modal.open /\ cursor # 0
    /\ rows[cursor].job = NoJob
    /\ LET key == rows[cursor].key IN
       expanded' = IF key \in expanded THEN expanded \ {key} ELSE expanded \cup {key}
    /\ Recompute([View EXCEPT !.open = expanded'])
    /\ UNCHANGED <<jobs, sortMode, spec, pending, barVars>>

\* action_cursor_up, action_cursor_down, a click.
MoveCursor(i) ==
    /\ ~modal.open /\ cursor # i
    /\ cursor' = i
    /\ UNCHANGED <<jobs, sortMode, expanded, rows, fresh, spec, pending, barVars>>

NextSort(m) ==
    CASE m = "stage" -> "alphabetical" [] m = "alphabetical" -> "start_time"
      [] m = "start_time" -> "stage"

\* action_cycle_sort_mode, or the sort button.
CycleSort ==
    /\ ~modal.open
    /\ sortMode' = NextSort(sortMode)
    /\ Recompute([View EXCEPT !.by = sortMode'])
    /\ UNCHANGED <<jobs, expanded, spec, pending, barVars>>

-----------------------------------------------------------------------------
\* The application starts with three of the statuses chosen and no jobs.
Chosen0 == {"running", "failed", "success"}

Init ==
    /\ jobs = <<>> /\ rows = <<>> /\ cursor = 0
    /\ spec = [text |-> 0, statuses |-> {}] /\ fresh = spec /\ pending = FALSE
    /\ sortMode = "start_time" /\ expanded = {}
    /\ typed = [text |-> 0, statuses |-> {}] /\ dropdown = Chosen0 /\ picked = Chosen0
    /\ options = {} /\ selected = {} /\ modal = Closed /\ sharing = {}

Next ==
    \/ FilterTimer
    \/ \E text \in Texts, tokens \in Tokens : SearchChanged(text, tokens)
    \/ OpenFilter \/ ConfirmFilter \/ CancelFilter
    \/ ClearJobs \/ \E l \in Lists : LoadJobs(l)
    \/ ToggleGroup \/ CycleSort
    \/ \E i \in DOMAIN rows : MoveCursor(i)

Spec == Init /\ [][Next]_vars

-----------------------------------------------------------------------------
(* Properties.                                                             *)

TypeOK ==
    /\ jobs \in Lists \cup {<<>>}
    /\ spec \in Spec0 /\ typed \in Spec0 /\ fresh \in Spec0
    /\ pending \in BOOLEAN /\ sortMode \in SortModes
    /\ expanded \subseteq {GroupKey(j) : j \in UNION {Range(l) : l \in Lists}}
    /\ cursor \in 0..Len(rows) /\ (cursor = 0 <=> rows = <<>>)
    /\ dropdown \subseteq Status /\ picked \subseteq Status
    /\ options \subseteq Status /\ selected \subseteq Status
    /\ modal \in [open : BOOLEAN, selection : SUBSET Status, options : SUBSET Status]
    /\ sharing \subseteq {"dropdown", "modal"}

\* No key is in the table twice (DataTable.add_row raises DuplicateKey), and the
\* rows stand for exactly the jobs of the list that pass the filter they were
\* made with: whatever the order, the grouping and what was expanded before.
RowsAreTheJobs ==
    /\ \A i, k \in DOMAIN rows : rows[i].key = rows[k].key => i = k
    /\ UNION {r.stands : r \in Range(rows)} = {j \in Range(jobs) : Passes(j, fresh)}

\* The table shows what the search box and the filter buttons ask for, unless
\* the timer that brings it up to date is running: no order of typing, choosing
\* and loading leaves an older filter behind (_update_job_filter).  Before the
\* first filter there is none.
FilterIsApplied ==
    /\ ~pending => fresh = spec
    /\ options # {} => spec = [text |-> typed.text, statuses |->
                                 IF typed.statuses # {} THEN typed.statuses ELSE dropdown]

\* A change of the list never moves the cursor from one row to another that
\* is still there: r and Enter go on to mean the same job (_recompute).
CursorStaysOnItsRow ==
    [][rows # <<>> /\ rows' # rows =>
          \A i \in DOMAIN rows' :
             rows'[i].key = rows[cursor].key => cursor' = i]_vars

\* tui/app.py: the chosen statuses "stay independent, driven only by the dropdown
\* modal", so they are those the user has confirmed last.  Fails: escape chooses
\* what the button displays, and a load narrows a set the button shares.
FilterIsTheUsers == dropdown = picked
=============================================================================
