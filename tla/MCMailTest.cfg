SPECIFICATION MFairSpec
CONSTANTS
    a = a
    b = b
    main = main
    other = other
    data = data
    ack = ack
    NoMail = NoMail
    Machines = {a, b}
    Threads = {main, other}
    MainThread = main
    Boxes = {0, 1}
    Bodies = {data, ack}
    Data = data
    Ack = ack
    Far <- MCFar
    Letters <- MCLetters
    MaxPosts = 2
INVARIANTS MConsistent HaltsInOrder
PROPERTIES ImplementsMail MailTestCompletes NothingHeldUp
CHECK_DEADLOCK FALSE
