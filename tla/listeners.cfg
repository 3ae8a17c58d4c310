\* Mutations, crashes and restarts; three ports, the third a server's own.
SPECIFICATION Spec
CONSTANTS
    p1 = p1
    p2 = p2
    p3 = p3
    m1 = m1
    x1 = x1
    greece = greece
    korea = korea
    republic = republic
    congo = congo
    None = None
    Ports = {p1, p2, p3}
    OwnPorts = {p3}
    Machines = {m1, x1}
    Fleet = {m1}
    Countries = {greece, korea, republic, congo}
    DefaultMachine = m1
    AfterComma <- WithComma
    Unreadable = {congo}
    Managed <- MCManaged
INVARIANTS
    TypeOK
    PortsDistinct
    ConfirmedSurvives
    ConfigFollowsFile
    BoundOrReported
    ReportIsTrue
PROPERTY UnchangedStayUp
