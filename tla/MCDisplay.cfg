SPECIFICATION PanelSpec
CONSTANTS
    WIDTH = 3
    HEIGHT = 2
    LEFT_WORDS = 3
    RIGHT_WORDS = 2
    TOP_LINES = 4
    BOTTOM_LINES = 1
    FIFO_WORDS = 2
    LCD_PORCH = 4
    LCD_V_PORCH = 4
    MARGIN = 2
    PRESENT_MAX_MISSES = 2
    Pictures <- ThreePictures
    H_ACTIVE = 4
    H_BACK_PORCH = 8
    H_FRONT_PORCH = 1
    V_ACTIVE = 2
    V_BACK_PORCH = 2
    V_FRONT_PORCH = 1
    HSYNC_PULSE_WIDTH = 5
    FIFO_DEPTH = 5
    ROWS = 6
    DRAW_MAX = 4
    MOTION_Y = 5
    RECT_MARGIN = 3
INVARIANT PanelIsSound
PROPERTY FramesGoOn
