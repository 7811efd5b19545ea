------------------------------- MODULE Report -------------------------------
(***************************************************************************)
(* The report files and the tables made of them: benchcli-go/report.         *)
(*                                                                          *)
(* A client per framework and benchmark writes its report to a file, and may *)
(* fail to; then -r reads what there is, ranks it, and works out each row's  *)
(* share of the best and the parameters the rows share.  A report is what it *)
(* is ranked by and one parameter of the run, "Conns", which the reports of  *)
(* BenchEcho and BenchMultiplex both carry.  MEM EER is CPU EER with another *)
(* divisor, Connections is ranked by the first key alone, and a table is its *)
(* cells: layout is left out.                                                *)
(***************************************************************************)
EXTENDS Integers, Sequences, FiniteSets

CONSTANTS FrameworkList,    \* a sequence without repetition
          Results,          \* by benchmark, what it may come to: tps, cpuAvg, conns ("" is no value)
          Scale             \* an EER is in parts of 1/Scale, so that it is a whole number

VARIABLES files,        \* by benchmark and framework: a report, None or Cut
          shown,        \* the benchmark and the order of the table that was made
          table,        \* its rows
          summary       \* the values of the parameter, each with its frameworks

vars == <<files, shown, table, summary>>

Frameworks == {FrameworkList[i] : i \in DOMAIN FrameworkList}

\* Throughput per percent of a core, and 0 when no samples arrived, which JSON can hold.
EER(throughput, cpuAvg) == IF cpuAvg <= 0 THEN 0 ELSE (Scale * throughput) \div cpuAvg

RankKeys(r) == <<r.tps, r.eer>>

\* Bigger on the first key they differ on.
rankedBefore(a, b) ==
    \E i \in DOMAIN a : a[i] > b[i] /\ \A j \in 1..(i - 1) : a[j] = b[j]

\* MUTANT of Percent: rounded, not floored.
PercentRounded(value, best) ==
    IF best <= 0 \/ value <= 0 THEN 0 ELSE (200 * value + best) \div (2 * best)

\* Floored and under 100 for all but the best; percentSlack makes up for what floating point loses.
Percent(value, best) ==
    IF best <= 0 \/ value <= 0 THEN 0
    ELSE IF value >= best THEN 100
    ELSE LET percent == (100 * value) \div best IN IF percent < 99 THEN percent ELSE 99

\* sort.SliceStable: each one goes behind all that it does not rank before.
SortReports(reports, order) ==
    LET Place(sorted, r) ==
            LET k == Len(SelectSeq(sorted, LAMBDA s : ~rankedBefore(RankKeys(r), RankKeys(s))))
            IN  SubSeq(sorted, 1, k) \o <<r>> \o SubSeq(sorted, k + 1, Len(sorted))
        Sorted[i \in Nat] == IF i = 0 THEN <<>> ELSE Place(Sorted[i - 1], reports[i])
    IN  IF order = "result" THEN Sorted[Len(reports)] ELSE reports

\* The files there are and that parse, in FrameworkList order.
ReadReports(kind) ==
    LET read == SelectSeq(FrameworkList, LAMBDA f : files[kind][f].state = "whole")
    IN  [i \in DOMAIN read |-> files[kind][read[i]]]

\* One column's shares of the best in it.
withPercent(values) ==
    LET best == CHOOSE b \in {0} \cup {values[i] : i \in DOMAIN values} :
                    b >= 0 /\ \A i \in DOMAIN values : b >= values[i]
    IN  [i \in DOMAIN values |-> Percent(values[i], best)]

\* The rows in their order, each with its share in every column the rows are ranked by.
Markdown(reports, order) ==
    LET sorted == SortReports(reports, order)
        Column(k) == [i \in DOMAIN sorted |-> RankKeys(sorted[i])[k]]
    IN  [i \in DOMAIN sorted |->
            [report |-> sorted[i], share |-> [k \in 1..2 |-> withPercent(Column(k))[i]]]]

\* MUTANT of addSummaryValue: a framework is appended once per table.
addSummaryValueAgain(values, value, framework) ==
    IF \E i \in DOMAIN values : values[i].value = value
    THEN [i \in DOMAIN values |->
             IF values[i].value = value THEN [values[i] EXCEPT !.frameworks = Append(@, framework)]
             ELSE values[i]]
    ELSE Append(values, [value |-> value, frameworks |-> <<framework>>])

\* The value's entry with the framework in it once, or a new entry behind the others.
addSummaryValue(values, value, framework) ==
    LET Has(fs) == \E j \in DOMAIN fs : fs[j] = framework
    IN  IF \E i \in DOMAIN values : values[i].value = value
        THEN [i \in DOMAIN values |->
                 IF values[i].value = value /\ ~Has(values[i].frameworks)
                 THEN [values[i] EXCEPT !.frameworks = Append(@, framework)]
                 ELSE values[i]]
        ELSE Append(values, [value |-> value, frameworks |-> <<framework>>])

\* One parameter over the rows of all tables, those without a value left out.
Summary(reports) ==
    LET Upto[i \in Nat] ==
            IF i = 0 THEN <<>>
            ELSE IF reports[i].conns = "" THEN Upto[i - 1]
            ELSE addSummaryValue(Upto[i - 1], reports[i].conns, reports[i].framework)
    IN  Upto[Len(reports)]

----------------------------------------------------------------------------
None == [state |-> "none"]
Cut == [state |-> "cut"]
Unshown == [of |-> "nothing", order |-> "result"]

Init ==
    /\ files = [k \in DOMAIN Results |-> [f \in Frameworks |-> None]]
    /\ shown = Unshown /\ table = <<>> /\ summary = <<>>

\* The report of a benchmark on f that came to r.
Report(f, r) ==
    [state |-> "whole", framework |-> f, tps |-> r.tps, eer |-> EER(r.tps, r.cpuAvg), conns |-> r.conns]

\* A file that was there is replaced.  An error before it is opened leaves it as it was, one while
\* it is written leaves part of it.
ToFile(k, f, r) ==
    /\ shown = Unshown
    /\ \E left \in {Report(f, r), Cut} : files' = [files EXCEPT ![k][f] = left]
    /\ UNCHANGED <<shown, table, summary>>

\* generateReports, its Summary and one of its tables
generateReports(k, order) ==
    /\ shown = Unshown
    /\ shown' = [of |-> k, order |-> order]
    /\ table' = Markdown(ReadReports(k), order)
    /\ summary' = Summary(ReadReports("BenchEcho") \o ReadReports("BenchMultiplex"))
    /\ UNCHANGED files

Next ==
    \/ \E k \in DOMAIN Results, f \in Frameworks : \E r \in Results[k] : ToFile(k, f, r)
    \/ \E k \in DOMAIN Results, order \in {"result", "framework"} : generateReports(k, order)

Spec == Init /\ [][Next]_vars

----------------------------------------------------------------------------
Position(f) == CHOOSE i \in DOMAIN FrameworkList : FrameworkList[i] = f

Whole(k) == {f \in Frameworks : files[k][f].state = "whole"}

\* A table is what the files say: one row for each report that can be read, in the order asked for -
\* with -sort=result no row under a worse one, and equals as FrameworkList has them - and in each
\* column the row's own share of the best: 100 for the best alone, else the percent it reaches.
TableRanked ==
    shown # Unshown =>
        LET row(i) == table[i].report
            best(k) == {i \in DOMAIN table : \A j \in DOMAIN table :
                            RankKeys(row(j))[k] <= RankKeys(row(i))[k]}
            above(i, j) ==
                LET a == row(i) b == row(j)
                    listed == Position(a.framework) < Position(b.framework)
                IN  IF shown.order = "framework" THEN listed
                    ELSE \/ a.tps > b.tps
                         \/ a.tps = b.tps /\ a.eer > b.eer
                         \/ a.tps = b.tps /\ a.eer = b.eer /\ listed
        IN  /\ {row(i) : i \in DOMAIN table} = {files[shown.of][f] : f \in Whole(shown.of)}
            /\ \A i, j \in DOMAIN table : i < j => above(i, j)
            /\ \A i \in DOMAIN table, k \in 1..2 :
                  LET value == RankKeys(row(i))[k]
                      most == RankKeys(row(CHOOSE j \in best(k) : TRUE))[k]
                      share == table[i].share[k]
                  IN  /\ share = 100 <=> (value > 0 /\ i \in best(k))
                      /\ most > 0 => share * most <= 100 * value /\ 100 * value < (share + 1) * most

\* The Summary says of each value which frameworks ran with it: every value of a report that can be
\* read once, with exactly the frameworks whose reports have it, once each though two tables do.
SummaryFaithful ==
    shown # Unshown =>
        LET had(v) == {f \in Frameworks : \E k \in DOMAIN Results :
                           f \in Whole(k) /\ files[k][f].conns = v}
            values == {files[k][f].conns : <<k, f>> \in {x \in (DOMAIN Results) \X Frameworks :
                                                               x[2] \in Whole(x[1])}} \ {""}
            of(i) == summary[i].frameworks
        IN  /\ {summary[i].value : i \in DOMAIN summary} = values
            /\ Len(summary) = Cardinality(values)
            /\ \A i \in DOMAIN summary :
                  /\ {of(i)[j] : j \in DOMAIN of(i)} = had(summary[i].value)
                  /\ Len(of(i)) = Cardinality(had(summary[i].value))
=============================================================================
