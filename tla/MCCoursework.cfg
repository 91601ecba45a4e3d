SPECIFICATION CourseSpec
CONSTANTS
    N = 5
    c1 = c1
    c2 = c2
    Clients = {c1, c2}
    Processes = {1, 2, 3}
    Scripts <- MCScripts
    Bye <- MCBye
    Junk = "junk"
    RecvSize = 3
    Sessions <- MCSessions
    Dirs = {"home", "tmp"}
    Home = "home"
    Commands = {"cat"}
    Names = {"f", "g"}
    Nothing = Nothing
    None = Nothing
INVARIANTS Consistent EchoesExact
PROPERTIES SomebodyEats ClientsComeToEnd CommandAsTyped
CHECK_DEADLOCK FALSE
