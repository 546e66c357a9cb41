SPECIFICATION Spec
CONSTANTS
    browser = browser
    game = game
    mouse = mouse
    keyboard = keyboard
    p1 = p1
    p2 = p2
    desk = desk
    work = work
    rule1 = rule1
    rule2 = rule2
    Windows = {browser, game}
    OwnWindows = {browser}
    Profiles = {desk, work}
    Desktop = desk
    NoWindow = NoWindow
    Blank = Blank
    None = None
    Presets = {p1, p2}
    Devices = {mouse, keyboard}
    Docs <- OneDoc
    SlugOf <- DistinctSlugs
    Disturbed = {mouse}
INVARIANTS
    PromisesAreApplied
    AppliedIsTrue
PROPERTIES
    ManualIsLeftAlone
